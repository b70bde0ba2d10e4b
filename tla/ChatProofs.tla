------------------------------ MODULE ChatProofs -------------------------------
(***************************************************************************)
(* What holds of the threads for any number of readers, stories, messages, *)
(* connections and failures.                                               *)
(*                                                                         *)
(* ThreadInv gives every socket a path: where its handlers leave it, and   *)
(* where each packet on the way will take it, up to the thread of the page *)
(* at the other end.  PlacesInv follows: a message is read where the path  *)
(* was when it was typed.  PresenceInv says that nothing is lost on the    *)
(* way down: unless somebody still owes the room a count, the last count   *)
(* on its way to a page, or the one it shows, is that of the room.         *)
(* WholeInv does the same for the messages: what a page starts from, its   *)
(* last answer or what it shows, and what comes after it on the way, hold  *)
(* each of the newest messages once.  OnceInv and KeptInv say that a text  *)
(* is in one place on its way to the table, JoinsInv that the last join is *)
(* that of the page.                                                       *)
(***************************************************************************)
EXTENDS Chat, SequenceTheorems, FiniteSetTheorems, TLAPS

Joins == [op : {"join"}, room : Stories, visit : Nat, msg : {None}]
Leaves == [op : {"leave"}, room : {None}, visit : {0}, msg : {None}]
Texts == [op : {"message"}, room : {None}, visit : {0}, msg : Messages]
UpPackets == Joins \cup Leaves \cup Texts

Presences == [op : {"presence"}, fans : Nat]
Broadcasts == [op : {"message"}, msg : Messages]
Acks == [op : {"ack"}, visit : Nat, history : Seq(Messages), fans : Nat]
DownPackets == Presences \cup Broadcasts \cup Acks

PageTypes ==
    /\ page \in [Readers -> Pages]
    /\ online \subseteq Readers /\ opened \in [Readers -> 0..MaxSockets]
    /\ typed \in [Messages -> (Readers \X Stories) \cup {<<>>}]
    /\ buffer \in [Readers -> Seq(UpPackets)]

ServerTypes ==
    /\ up \in [Sockets -> Seq(UpPackets)]
    /\ work \in [Sockets -> SUBSET Handlers]
    /\ live \subseteq Sockets
    /\ rooms \in [Sockets -> SUBSET Stories] /\ room \in [Sockets -> Stories \cup {None}]
    /\ posts \subseteq Posts
    /\ thread \in [Stories -> Seq(Messages)]
    /\ crossed \subseteq Readers

\* A join has read a beginning of the thread.
SeenInv == \A s \in Sockets : \A h \in work[s] : h.seen <= Len(thread[h.room])

DownTypes == down \in [Sockets -> Seq(DownPackets)]

Mid(h) == h.pc \in {"leaving", "joining", "left"}

SocketInv ==
    /\ \A s \in Sockets \ live : rooms[s] = {} /\ up[s] = <<>> /\ ~InTick(s)
    /\ \A c \in online : opened[c] >= 1 /\ Socket(c) \in live
    /\ \A s \in Sockets : s[2] > opened[s[1]] => s \notin live /\ room[s] = None /\ work[s] = {}

\* By ty, the packet has no text, or one that c typed.
KnownText(ty, c, packet) ==
    packet.op = "message" => ty[packet.msg] \in Readers \X Stories /\ ty[packet.msg][1] = c

TextsInv ==
    /\ \A s \in Sockets : \A i \in DOMAIN up[s] : KnownText(typed, s[1], up[s][i])
    /\ \A c \in Readers : \A i \in DOMAIN buffer[c] :
            KnownText(typed, c, buffer[c][i]) /\ buffer[c][i].op # "join"

HomeOf(m, r) == typed[m] \in Readers \X Stories /\ (typed[m][1] \in crossed \/ typed[m][2] = r)

PlacesInv ==
    /\ \A p \in posts : HomeOf(p.msg, p.room)
    /\ \A r \in Stories : \A i \in DOMAIN thread[r] : HomeOf(thread[r][i], r)

RoomInv(s) ==
    /\ \A h \in work[s] : h.pc # "leaving"
    /\ \A g \in work[s] : \A h \in work[s] : Mid(g) /\ Mid(h) => g = h
    /\ ~InTick(s) => rooms[s] = {room[s]} \ {None}
    /\ \A h \in work[s] : h.pc = "joining" => room[s] = None /\ rooms[s] = {h.room}
    /\ \A h \in work[s] : h.pc = "left" => room[s] = h.room /\ rooms[s] = {}

\* t is where the socket will be when its handlers are done
At(s, t) ==
    /\ ~InTick(s) => t = room[s]
    /\ \A h \in work[s] : h.pc = "joining" => t = h.room
    /\ \A h \in work[s] : h.pc = "left" => t = None

Unmoved(s, ctx, i) == room[s] = None /\ ~InTick(s) /\ \A j \in 0..(i - 1) : ctx[j] = None

Steps(s, q, ctx) ==
    \A i \in 1..Len(q) :
        /\ q[i].op = "join" => ctx[i - 1] = None /\ ctx[i] = q[i].room
        /\ q[i].op = "leave" => ctx[i] = None
        /\ q[i].op = "message" =>
              /\ ctx[i] = ctx[i - 1]
              /\ ctx[i - 1] = typed[q[i].msg][2] \/ Unmoved(s, ctx, i)

\* Without a join between them, a later place is an earlier one, or none.
Carries(q, ctx) ==
    \A i \in 0..Len(q) : \A j \in i..Len(q) :
        (\A k \in (i + 1)..j : q[k].op # "join") => ctx[j] \in {ctx[i], None}

Path(s, ctx) ==
    /\ At(s, ctx[0])
    /\ Steps(s, up[s], ctx)
    /\ Carries(up[s], ctx)
    /\ \A c \in online : s = Socket(c) => ctx[Len(up[s])] = page[c].story

PathInv(s) == \E ctx \in [0..Len(up[s]) -> Stories \cup {None}] : Path(s, ctx)

ThreadInv == \A s \in live : s[1] \notin crossed => RoomInv(s) /\ PathInv(s)

\* A join of the page that is open is a join of its story.
Visited(s, v, r) ==
    /\ v <= page[s[1]].visit
    /\ v = page[s[1]].visit /\ page[s[1]].story # None => r = page[s[1]].story

VisitInv ==
    \A s \in Sockets :
        /\ \A h \in work[s] : h.pc # "left" => Visited(s, h.visit, h.room)
        /\ \A i \in DOMAIN up[s] : up[s][i].op = "join" => Visited(s, up[s][i].visit, up[s][i].room)

Owes(s, r) ==
    \/ \E h \in work[s] : h.room = r /\ (h.pc \in {"joining", "left"} \/ room[s] = r)
    \/ s \in failed /\ room[s] = r

Quiet(r) == \A s \in live : ~Owes(s, r)

\* The packet sets the count that page p shows.
Telling(p, packet) == packet.op = "presence" \/ (packet.op = "ack" /\ packet.visit = p.visit)

\* What page p will show when the packets of q are delivered.
Tells(p, q, n) ==
    \/ \E i \in DOMAIN q : /\ Telling(p, q[i]) /\ q[i].fans = n
                           /\ \A j \in DOMAIN q : j > i => ~Telling(p, q[j])
    \/ (\A i \in DOMAIN q : ~Telling(p, q[i])) /\ p.told = n

Joined(c) == page[c].story # None /\ \A i \in DOMAIN up[Socket(c)] : up[Socket(c)][i].op # "join"

PresenceInv ==
    crossed = {} => \A c \in online : Joined(c) /\ Quiet(page[c].story) =>
        Tells(page[c], down[Socket(c)], RoomSize(page[c].story, rooms))

-------------------------------------------------------------------------------
(* Sequences *)

\* The end of a queue.
LEMMA Appended ==
  ASSUME NEW S, NEW q \in Seq(S), NEW e \in S
  PROVE  /\ Append(q, e) \in Seq(S) /\ Len(Append(q, e)) = Len(q) + 1
         /\ DOMAIN q = 1..Len(q) /\ DOMAIN Append(q, e) = 1..(Len(q) + 1)
         /\ Append(q, e)[Len(q) + 1] = e
         /\ \A i \in 1..Len(q) : Append(q, e)[i] = q[i] /\ q[i] \in S
<1>1. /\ Append(q, e) \in Seq(S) /\ Len(Append(q, e)) = Len(q) + 1
      /\ Append(q, e)[Len(q) + 1] = e /\ \A i \in 1..Len(q) : Append(q, e)[i] = q[i]
  BY AppendProperties
<1>2. DOMAIN q = 1..Len(q) /\ DOMAIN Append(q, e) = 1..(Len(q) + 1)
  BY <1>1, LenProperties
<1>3. \A i \in 1..Len(q) : q[i] \in S
  BY ElementOfSeq
<1> QED
  BY <1>1, <1>2, <1>3

\* Its head and the rest.
LEMMA Popped ==
  ASSUME NEW S, NEW q \in Seq(S), q # <<>>
  PROVE  /\ Len(q) \in Nat \ {0} /\ Head(q) = q[1] /\ Head(q) \in S
         /\ Tail(q) \in Seq(S) /\ Len(Tail(q)) = Len(q) - 1
         /\ DOMAIN q = 1..Len(q) /\ DOMAIN Tail(q) = 1..(Len(q) - 1)
         /\ \A i \in 1..(Len(q) - 1) : Tail(q)[i] = q[i + 1] /\ i + 1 \in 1..Len(q)
<1>1. /\ Head(q) \in S /\ Tail(q) \in Seq(S) /\ Len(Tail(q)) = Len(q) - 1
      /\ \A i \in 1..Len(Tail(q)) : Tail(q)[i] = q[i + 1]
  BY HeadTailProperties
<1>2. Len(q) \in Nat \ {0}
  BY EmptySeq
<1>3. DOMAIN q = 1..Len(q) /\ DOMAIN Tail(q) = 1..(Len(q) - 1)
  BY <1>1, LenProperties
<1> QED
  BY <1>1, <1>2, <1>3

LEMMA LastOfIsSeq ==
  ASSUME NEW S, NEW q \in Seq(S), NEW n \in Nat PROVE LastOf(q, n) \in Seq(S)
<1> DEFINE m == IF Len(q) > n THEN Len(q) - n + 1 ELSE 1
<1>1. Len(q) \in Nat /\ \A i \in 1..Len(q) : q[i] \in S
  BY LenProperties, ElementOfSeq
<1>2. m \in Int /\ \A i \in m..Len(q) : q[i] \in S
  BY <1>1
<1>3. SubSeq(q, m, Len(q)) \in Seq(S)
  <2> HIDE DEF m
  <2> QED
    BY <1>1, <1>2, SubSeqProperties
<1> QED
  BY <1>3 DEF LastOf

LEMMA FirstAreSeq ==
  ASSUME NEW S, NEW q \in Seq(S), NEW n \in 0..Len(q)
  PROVE  SubSeq(q, 1, n) \in Seq(S)
<1>1. Len(q) \in Nat /\ \A i \in 1..Len(q) : q[i] \in S
  BY LenProperties, ElementOfSeq
<1>2. n \in Int /\ 1 \in Int /\ \A i \in 1..n : q[i] \in S
  BY <1>1
<1> QED
  BY <1>2, SubSeqProperties

-------------------------------------------------------------------------------
(* Types *)

LEMMA PacketTypes ==
  /\ \A r \in Stories, v \in Nat : Join(r, v) \in UpPackets
  /\ Leave \in UpPackets
  /\ \A m \in Messages : Message(m) \in UpPackets
  /\ \A n \in Nat : Presence(n) \in DownPackets
  /\ \A m \in Messages : Broadcast(m) \in DownPackets
  /\ \A v \in Nat, h \in Seq(Messages), n \in Nat : Ack(v, h, n) \in DownPackets
<1>1. \A r \in Stories, v \in Nat : Join(r, v) \in Joins
  BY DEF Join, Joins
<1>2. Leave \in Leaves /\ \A m \in Messages : Message(m) \in Texts
  BY DEF Leave, Message, Leaves, Texts
<1>3. /\ \A n \in Nat : Presence(n) \in Presences
      /\ \A m \in Messages : Broadcast(m) \in Broadcasts
      /\ \A v \in Nat, h \in Seq(Messages), n \in Nat : Ack(v, h, n) \in Acks
  BY DEF Presence, Broadcast, Ack, Presences, Broadcasts, Acks
<1> QED
  BY <1>1, <1>2, <1>3 DEF UpPackets, DownPackets

LEMMA UpFields ==
  ASSUME NEW p \in UpPackets
  PROVE  /\ p.op = "join" => p.room \in Stories /\ p.visit \in Nat
         /\ p.op = "message" => p.msg \in Messages
         /\ p.op \in {"join", "leave", "message"}
BY DEF UpPackets, Joins, Leaves, Texts

LEMMA DownFields ==
  ASSUME NEW p \in DownPackets
  PROVE  /\ p.op \in {"presence", "message", "ack"}
         /\ p.op = "presence" => p.fans \in Nat
         /\ p.op = "message" => p.msg \in Messages
         /\ p.op = "ack" => p.visit \in Nat /\ p.history \in Seq(Messages) /\ p.fans \in Nat
BY DEF DownPackets, Presences, Broadcasts, Acks

LEMMA SocketsFinite == IsFiniteSet(Sockets)
<1>1. MaxSockets \in Nat /\ IsFiniteSet(Readers)
  BY ChatAssumption
<1>2. 1 \in Int /\ MaxSockets \in Int
  BY <1>1
<1>3. IsFiniteSet(1..MaxSockets)
  BY <1>2, FS_Interval
<1> QED
  BY <1>1, <1>3, FS_Product DEF Sockets

LEMMA RoomSizeIsNat ==
  ASSUME NEW r, NEW in PROVE RoomSize(r, in) \in Nat
<1> DEFINE T == {s \in Sockets : r \in in[s]}
<1>1. IsFiniteSet(Sockets) /\ T \in SUBSET Sockets
  BY SocketsFinite
<1>2. IsFiniteSet(T)
  <2> HIDE DEF T
  <2> QED
    BY <1>1, FS_Subset
<1>3. Cardinality(T) \in Nat
  <2> HIDE DEF T
  <2> QED
    BY <1>2, FS_CardinalityType
<1> QED
  BY <1>3 DEF RoomSize

\* A reader online has its socket.
LEMMA SocketOf ==
  ASSUME PageTypes, SocketInv, NEW c \in online
  PROVE  Socket(c) \in Sockets /\ Socket(c) \in live /\ Socket(c)[1] = c
         /\ Socket(c)[2] = opened[c]
<1>1. c \in Readers /\ opened[c] \in 1..MaxSockets /\ Socket(c) \in live
  BY ChatAssumption DEF PageTypes, SocketInv
<1> QED
  BY <1>1 DEF Socket, Sockets

LEMMA EmitTypes ==
  ASSUME PageTypes, ServerTypes, NEW c \in Readers, NEW p \in UpPackets, Emit(c, p)
  PROVE  up' \in [Sockets -> Seq(UpPackets)] /\ buffer' \in [Readers -> Seq(UpPackets)]
<1>1. CASE c \in online
  <2>1. up' = [up EXCEPT ![Socket(c)] = Append(up[Socket(c)], p)] /\ buffer' = buffer
    BY <1>1 DEF Emit
  <2>2. \A s \in Sockets : Append(up[s], p) \in Seq(UpPackets)
    BY Appended DEF ServerTypes
  <2> QED
    BY <2>1, <2>2 DEF ServerTypes, PageTypes
<1>2. CASE c \notin online
  <2>1. buffer' = [buffer EXCEPT ![c] = Append(buffer[c], p)] /\ up' = up
    BY <1>2 DEF Emit
  <2>2. Append(buffer[c], p) \in Seq(UpPackets)
    BY Appended DEF PageTypes
  <2> QED
    BY <2>1, <2>2 DEF ServerTypes, PageTypes
<1> QED
  BY <1>1, <1>2

LEMMA ToRoomTypes ==
  ASSUME DownTypes, NEW r, NEW in, NEW p \in DownPackets
  PROVE  ToRoom(r, in, p) \in [Sockets -> Seq(DownPackets)]
<1>1. \A s \in Sockets : down[s] \in Seq(DownPackets) /\ Append(down[s], p) \in Seq(DownPackets)
  BY Appended DEF DownTypes
<1> QED
  BY <1>1 DEF ToRoom

LEMMA PresenceTypes ==
  ASSUME DownTypes, NEW r, NEW in
  PROVE  BroadcastPresence(r, in) \in [Sockets -> Seq(DownPackets)]
BY ToRoomTypes, RoomSizeIsNat, PacketTypes DEF BroadcastPresence

LEMMA InitTypes ==
  ASSUME Init PROVE PageTypes /\ ServerTypes /\ DownTypes /\ SeenInv
<1>1. <<>> \in Seq(UpPackets) /\ <<>> \in Seq(DownPackets) /\ <<>> \in Seq(Messages)
  BY EmptySeq
<1>2. page \in [Readers -> Pages]
  BY <1>1 DEF Init, Pages
<1>3. opened \in [Readers -> 0..MaxSockets]
  BY ChatAssumption DEF Init
<1>4. typed \in [Messages -> (Readers \X Stories) \cup {<<>>}]
  BY DEF Init
<1>5. PageTypes
  BY <1>1, <1>2, <1>3, <1>4 DEF Init, PageTypes
<1>6. ServerTypes
  BY <1>1 DEF Init, ServerTypes
<1> QED
  BY <1>1, <1>5, <1>6 DEF Init, DownTypes, SeenInv

\* Nobody is in the middle of a tick.
Calm == \A s \in Sockets : ~InTick(s)

PageStep(c) ==
    \/ Close(c) \/ Connect(c) \/ Drop(c) \/ Deliver(c)
    \/ \E r \in Stories : Open(c, r)
    \/ \E m \in Messages : Type(c, m)

QueryStep(s) == \E h \in work[s] : JoinRead(s, h) \/ JoinAnswered(s, h) \/ JoinFailed(s, h)

PostStep == \E p \in posts : Create(p) \/ Publish(p) \/ CreateFailed(p)

LEMMA StepCases ==
  ASSUME [Next]_vars
  PROVE  \/ \E s \in Sockets : Start(s)
         \/ \E s \in Sockets : Resume(s) /\ InTick(s)
         \/ Calm /\ \E c \in Readers : PageStep(c)
         \/ Calm /\ \E s \in Sockets : QueryStep(s) \/ Disconnect(s)
         \/ Calm /\ PostStep
         \/ Calm /\ Restart
         \/ UNCHANGED vars
<1>1. CASE UNCHANGED vars
  BY <1>1
<1>2. CASE \E s \in Sockets : InTick(s) /\ (Resume(s) \/ Start(s))
  BY <1>2
<1>3. CASE Calm /\ \E c \in Readers : PageStep(c)
  BY <1>3
<1>4. CASE Calm /\ \E s \in Sockets : Start(s) \/ Disconnect(s) \/ QueryStep(s)
  BY <1>4
<1>5. CASE Calm /\ PostStep
  BY <1>5
<1>6. CASE Calm /\ Restart
  BY <1>6
<1> QED
  BY <1>1, <1>2, <1>3, <1>4, <1>5, <1>6 DEF Next, Calm, PageStep, QueryStep, PostStep

\* What only touches the server leaves the pages alone.
LEMMA ServerStep ==
  /\ \A s \in Sockets : Start(s) => UNCHANGED pageVars
  /\ \A s \in Sockets : Resume(s) => UNCHANGED pageVars
  /\ \A s \in Sockets : QueryStep(s) \/ Disconnect(s) => UNCHANGED pageVars
  /\ PostStep => UNCHANGED pageVars
<1>1. \A s \in Sockets : Start(s) => UNCHANGED pageVars
  BY DEF Start, OnJoin, OnLeave, OnMessage, Receive
<1>2. \A s \in Sockets : Resume(s) => UNCHANGED pageVars
  BY DEF Resume, JoinLeft, JoinJoined, LeaveDone
<1>3. \A s \in Sockets : QueryStep(s) \/ Disconnect(s) => UNCHANGED pageVars
  BY DEF QueryStep, JoinRead, JoinAnswered, JoinFailed, Disconnect
<1>4. PostStep => UNCHANGED pageVars
  BY DEF PostStep, Create, Publish, CreateFailed
<1> QED
  BY <1>1, <1>2, <1>3, <1>4

\* The page after a delivery.
LEMMA DeliverTypes ==
  ASSUME PageTypes, DownTypes, SocketInv, NEW c \in Readers, Deliver(c)
  PROVE  /\ page' \in [Readers -> Pages] /\ DownTypes'
         /\ \A d \in Readers : page'[d].story = page[d].story /\ page'[d].visit = page[d].visit
<1> DEFINE packet == Head(down[Socket(c)])
           p == page[c]
           next == IF p.story = None THEN p ELSE
                   CASE packet.op = "presence" -> [p EXCEPT !.told = packet.fans]
                     [] packet.op = "message" ->
                           [p EXCEPT !.shown = LastOf(Append(@, packet.msg), ShownSize)]
                     [] packet.op = "ack" ->
                           IF packet.visit = p.visit
                           THEN [p EXCEPT !.shown = packet.history, !.told = packet.fans] ELSE p
<1>1. /\ Socket(c) \in Sockets /\ down[Socket(c)] # <<>>
      /\ down' = [down EXCEPT ![Socket(c)] = Tail(down[Socket(c)])]
      /\ page' = [page EXCEPT ![c] = next]
  BY SocketOf DEF Deliver
<1>2. packet \in DownPackets /\ Tail(down[Socket(c)]) \in Seq(DownPackets)
  BY <1>1, Popped DEF DownTypes
<1>3. p \in Pages
  BY DEF PageTypes
<1>4. next \in Pages /\ next.story = p.story /\ next.visit = p.visit
  <2> HIDE DEF packet, p
  <2>1. packet.op = "message" => LastOf(Append(p.shown, packet.msg), ShownSize) \in Seq(Messages)
    <3>1. p.shown \in Seq(Messages) /\ ShownSize \in Nat
      BY <1>3, ChatAssumption DEF Pages
    <3>2. packet.op = "message" => Append(p.shown, packet.msg) \in Seq(Messages)
      BY <3>1, <1>2, DownFields, Appended
    <3> QED
      BY <3>1, <3>2, LastOfIsSeq
  <2>2. packet.op \in {"presence", "message", "ack"}
    BY <1>2, DownFields
  <2>3. CASE p.story = None
    BY <2>3, <1>3
  <2>4. CASE p.story # None /\ packet.op = "presence"
    BY <2>4, <1>2, <1>3, DownFields DEF Pages
  <2>5. CASE p.story # None /\ packet.op = "message"
    BY <2>5, <2>1, <1>3 DEF Pages
  <2>6. CASE p.story # None /\ packet.op = "ack"
    BY <2>6, <1>2, <1>3, DownFields DEF Pages
  <2> QED
    BY <2>2, <2>3, <2>4, <2>5, <2>6
<1> HIDE DEF next
<1>5. page' \in [Readers -> Pages]
  BY <1>1, <1>4 DEF PageTypes
<1>6. DownTypes'
  BY <1>1, <1>2 DEF DownTypes
<1>7. \A d \in Readers : page'[d].story = page[d].story /\ page'[d].visit = page[d].visit
  BY <1>1, <1>4 DEF PageTypes
<1> QED
  BY <1>5, <1>6, <1>7

LEMMA PageTypesStep ==
  ASSUME PageTypes, ServerTypes, DownTypes, SocketInv, [Next]_vars PROVE PageTypes'
<1>1. CASE UNCHANGED pageVars
  BY <1>1 DEF PageTypes, pageVars
<1>2. ASSUME NEW c \in Readers, PageStep(c) PROVE PageTypes'
  <2>1. CASE Close(c)
    <3> DEFINE p == [page[c] EXCEPT !.story = None, !.shown = <<>>, !.told = None]
    <3>1. p \in Pages
      <4>1. page[c] \in Pages /\ <<>> \in Seq(Messages)
        BY EmptySeq DEF PageTypes
      <4> QED
        BY <4>1 DEF Pages
    <3>2. page' = [page EXCEPT ![c] = p] /\ Emit(c, Leave)
      BY <2>1 DEF Close, PageTypes, Pages
    <3>3. page' \in [Readers -> Pages]
      <4> HIDE DEF p
      <4> QED
        BY <3>1, <3>2 DEF PageTypes
    <3>4. buffer' \in [Readers -> Seq(UpPackets)]
      BY <3>2, EmitTypes, PacketTypes
    <3> QED
      BY <2>1, <3>3, <3>4 DEF Close, PageTypes
  <2>2. CASE Connect(c)
    <3>1. opened'[c] = opened[c] + 1 /\ opened[c] + 1 \in 0..MaxSockets
          /\ opened' = [opened EXCEPT ![c] = opened[c] + 1]
      BY <2>2, ChatAssumption DEF Connect, PageTypes
    <3>2. buffer' \in [Readers -> Seq(UpPackets)]
      BY <2>2, EmptySeq DEF Connect, PageTypes
    <3> QED
      BY <2>2, <3>1, <3>2 DEF Connect, PageTypes
  <2>3. CASE Drop(c)
    BY <2>3 DEF Drop, PageTypes
  <2>4. CASE Deliver(c)
    BY <2>4, DeliverTypes DEF Deliver, PageTypes
  <2>5. ASSUME NEW r \in Stories, Open(c, r) PROVE PageTypes'
    <3> DEFINE p == [story |-> r, visit |-> page[c].visit + 1, shown |-> <<>>, told |-> None]
    <3>1. p \in Pages /\ page[c].visit + 1 \in Nat
      BY EmptySeq DEF PageTypes, Pages
    <3>2. page' = [page EXCEPT ![c] = p]
      BY <2>5 DEF Open
    <3>3. page' \in [Readers -> Pages]
      <4> HIDE DEF p
      <4> QED
        BY <3>1, <3>2 DEF PageTypes
    <3>4. buffer' \in [Readers -> Seq(UpPackets)]
      BY <2>5, <3>1, EmitTypes, PacketTypes DEF Open, PageTypes
    <3> QED
      BY <2>5, <3>3, <3>4 DEF Open, PageTypes
  <2>6. ASSUME NEW m \in Messages, Type(c, m) PROVE PageTypes'
    <3>1. page[c].story \in Stories
      BY <2>6 DEF Type, PageTypes, Pages
    <3>2. typed' \in [Messages -> (Readers \X Stories) \cup {<<>>}]
      BY <2>6, <3>1 DEF Type, PageTypes
    <3>3. buffer' \in [Readers -> Seq(UpPackets)]
      BY <2>6, EmitTypes, PacketTypes DEF Type
    <3> QED
      BY <2>6, <3>2, <3>3 DEF Type, PageTypes
  <2> QED
    BY <1>2, <2>1, <2>2, <2>3, <2>4, <2>5, <2>6 DEF PageStep
<1>3. CASE Restart
  BY <1>3 DEF Restart, PageTypes
<1> QED
  BY <1>1, <1>2, <1>3, StepCases, ServerStep DEF vars

LEMMA Received ==
  ASSUME ServerTypes, NEW s \in Sockets, NEW op, Receive(s, op)
  PROVE  /\ s \in live /\ up[s] \in Seq(UpPackets) /\ up[s] # <<>>
         /\ Head(up[s]) \in UpPackets /\ Head(up[s]).op = op
         /\ up' = [up EXCEPT ![s] = Tail(up[s])] /\ up' \in [Sockets -> Seq(UpPackets)]
<1>1. /\ s \in live /\ up[s] # <<>> /\ Head(up[s]).op = op
      /\ up' = [up EXCEPT ![s] = Tail(up[s])]
  BY DEF Receive
<1>2. up[s] \in Seq(UpPackets)
  BY DEF ServerTypes
<1>3. Head(up[s]) \in UpPackets /\ Tail(up[s]) \in Seq(UpPackets)
  BY <1>1, <1>2, Popped
<1> QED
  BY <1>1, <1>2, <1>3 DEF ServerTypes

\* The handler that a join or a leave starts.
JoinHandler(s) ==
    [room |-> Head(up[s]).room, previous |-> room[s], visit |-> Head(up[s]).visit, seen |-> 0,
     pc |-> IF room[s] \notin {None, Head(up[s]).room} THEN "leaving" ELSE "joining"]

LeaveHandler(s) == [room |-> room[s], previous |-> None, visit |-> 0, seen |-> 0, pc |-> "left"]

LEMMA JoinStarts ==
  ASSUME ServerTypes, NEW s \in Sockets, OnJoin(s)
  PROVE  /\ JoinHandler(s) \in Handlers /\ Head(up[s]).room \in Stories
         /\ work' = [work EXCEPT ![s] = work[s] \cup {JoinHandler(s)}]
<1>1. Head(up[s]).room \in Stories /\ Head(up[s]).visit \in Nat
  BY Received, UpFields DEF OnJoin
<1>2. JoinHandler(s) \in Handlers
  BY <1>1 DEF JoinHandler, Handlers, ServerTypes
<1> QED
  BY <1>1, <1>2 DEF OnJoin, JoinHandler

LEMMA LeaveStarts ==
  ASSUME ServerTypes, NEW s \in Sockets, OnLeave(s)
  PROVE  \/ room[s] = None /\ UNCHANGED <<rooms, work>>
         \/ /\ room[s] \in Stories /\ LeaveHandler(s) \in Handlers
            /\ rooms' = [rooms EXCEPT ![s] = rooms[s] \ {room[s]}]
            /\ work' = [work EXCEPT ![s] = work[s] \cup {LeaveHandler(s)}]
<1>1. room[s] # None => room[s] \in Stories
  BY DEF ServerTypes
<1>2. room[s] # None => LeaveHandler(s) \in Handlers
  BY <1>1 DEF LeaveHandler, Handlers
<1> QED
  BY <1>1, <1>2 DEF OnLeave, LeaveHandler

\* What a handler becomes.
JoiningOf(h) == [h EXCEPT !.pc = "joining"]
ReadingOf(h) == [h EXCEPT !.pc = "reading"]
ReadOf(h) == [h EXCEPT !.pc = "read", !.seen = Len(thread[h.room])]

LEMMA HandlerSteps ==
  ASSUME ServerTypes, NEW s \in Sockets, NEW h \in work[s]
  PROVE  /\ h \in Handlers /\ h.room \in Stories /\ Len(thread[h.room]) \in Nat
         /\ JoiningOf(h) \in Handlers /\ JoiningOf(h).room = h.room
         /\ JoiningOf(h).pc = "joining" /\ JoiningOf(h).seen = h.seen
         /\ ReadingOf(h) \in Handlers /\ ReadingOf(h).room = h.room
         /\ ReadingOf(h).pc = "reading" /\ ReadingOf(h).seen = h.seen
         /\ ReadOf(h) \in Handlers /\ ReadOf(h).room = h.room
         /\ ReadOf(h).pc = "read" /\ ReadOf(h).seen = Len(thread[h.room])
<1>1. h \in Handlers
  BY DEF ServerTypes
<1>2. h.room \in Stories
  BY <1>1 DEF Handlers
<1>3. Len(thread[h.room]) \in Nat
  BY <1>2, LenProperties DEF ServerTypes
<1> DEFINE n == Len(thread[h.room])
<1>4. /\ JoiningOf(h) \in Handlers /\ JoiningOf(h).room = h.room
      /\ JoiningOf(h).pc = "joining" /\ JoiningOf(h).seen = h.seen
  BY <1>1 DEF Handlers, JoiningOf
<1>5. /\ ReadingOf(h) \in Handlers /\ ReadingOf(h).room = h.room
      /\ ReadingOf(h).pc = "reading" /\ ReadingOf(h).seen = h.seen
  BY <1>1 DEF Handlers, ReadingOf
<1>6. /\ ReadOf(h) \in Handlers /\ ReadOf(h).room = h.room
      /\ ReadOf(h).pc = "read" /\ ReadOf(h).seen = Len(thread[h.room])
  <2>1. n \in Nat
    BY <1>3
  <2>2. ReadOf(h) = [h EXCEPT !.pc = "read", !.seen = n]
    BY DEF ReadOf
  <2> HIDE DEF n
  <2>3. ReadOf(h) \in Handlers /\ ReadOf(h).room = h.room /\ ReadOf(h).pc = "read" /\ ReadOf(h).seen = n
    BY <1>1, <2>1, <2>2 DEF Handlers
  <2> QED
    BY <2>3 DEF n
<1> QED
  BY <1>1, <1>2, <1>3, <1>4, <1>5, <1>6

\* The handlers of other sockets stay as they are; those of s are what remains,
\* and perhaps a new one.
LEMMA HandlerShapes ==
  ASSUME ServerTypes, NEW s \in Sockets, NEW h \in work[s]
  PROVE  /\ JoinLeft(s, h) =>
               work' = [work EXCEPT ![s] = (work[s] \ {h}) \cup {JoiningOf(h)}]
         /\ JoinJoined(s, h) =>
               work' = [work EXCEPT ![s] = (work[s] \ {h}) \cup {ReadingOf(h)}]
         /\ JoinRead(s, h) =>
               work' = [work EXCEPT ![s] = (work[s] \ {h}) \cup {ReadOf(h)}]
         /\ JoinAnswered(s, h) \/ JoinFailed(s, h) \/ LeaveDone(s, h) =>
               work' = [work EXCEPT ![s] = work[s] \ {h}]
<1>1. JoinLeft(s, h) => work' = [work EXCEPT ![s] = (work[s] \ {h}) \cup {JoiningOf(h)}]
  BY DEF JoinLeft, Continue, JoiningOf
<1>2. JoinJoined(s, h) => work' = [work EXCEPT ![s] = (work[s] \ {h}) \cup {ReadingOf(h)}]
  BY DEF JoinJoined, Continue, ReadingOf
<1>3. JoinRead(s, h) => work' = [work EXCEPT ![s] = (work[s] \ {h}) \cup {ReadOf(h)}]
  BY DEF JoinRead, Continue, ReadOf
<1>4. (work[s] \ {h}) \cup {} = work[s] \ {h}
  OBVIOUS
<1>5. JoinAnswered(s, h) => work' = [work EXCEPT ![s] = work[s] \ {h}]
  BY <1>4 DEF JoinAnswered, Continue
<1>6. JoinFailed(s, h) => work' = [work EXCEPT ![s] = work[s] \ {h}]
  BY <1>4 DEF JoinFailed, Continue
<1>7. LeaveDone(s, h) => work' = [work EXCEPT ![s] = work[s] \ {h}]
  BY <1>4 DEF LeaveDone, Continue
<1> QED
  BY <1>1, <1>2, <1>3, <1>5, <1>6, <1>7

LEMMA WorkTypesStep ==
  ASSUME ServerTypes, [Next]_vars PROVE work' \in [Sockets -> SUBSET Handlers]
<1> DEFINE G == work' \in [Sockets -> SUBSET Handlers]
<1>0. work \in [Sockets -> SUBSET Handlers]
  BY DEF ServerTypes
<1>1. ASSUME NEW s \in Sockets, NEW D \in SUBSET Handlers, work' = [work EXCEPT ![s] = D] PROVE G
  BY <1>0, <1>1
<1>2. CASE UNCHANGED work
  BY <1>0, <1>2
<1>3. ASSUME NEW s \in Sockets, Start(s) PROVE G
  <2>1. CASE OnJoin(s)
    <3>1. work[s] \cup {JoinHandler(s)} \in SUBSET Handlers
      BY <1>0, <2>1, JoinStarts
    <3> QED
      BY <1>0, <2>1, <3>1, JoinStarts
  <2>2. CASE OnLeave(s)
    <3>1. room[s] \in Stories => work[s] \cup {LeaveHandler(s)} \in SUBSET Handlers
      BY <1>0, <2>2, LeaveStarts, ChatAssumption
    <3> QED
      BY <1>0, <2>2, <3>1, LeaveStarts
  <2>3. CASE OnMessage(s)
    BY <1>2, <2>3 DEF OnMessage
  <2> QED
    BY <1>3, <2>1, <2>2, <2>3 DEF Start
<1>4. ASSUME NEW s \in Sockets, Resume(s) \/ QueryStep(s) PROVE G
  <2>1. PICK h \in work[s] : \/ JoinLeft(s, h) \/ JoinJoined(s, h) \/ LeaveDone(s, h)
                             \/ JoinRead(s, h) \/ JoinAnswered(s, h) \/ JoinFailed(s, h)
    BY <1>4 DEF Resume, QueryStep
  <2>2. /\ (work[s] \ {h}) \cup {JoiningOf(h)} \in SUBSET Handlers
        /\ (work[s] \ {h}) \cup {ReadingOf(h)} \in SUBSET Handlers
        /\ (work[s] \ {h}) \cup {ReadOf(h)} \in SUBSET Handlers
        /\ work[s] \ {h} \in SUBSET Handlers
    BY <1>0, HandlerSteps
  <2> QED
    BY <1>0, <2>1, <2>2, HandlerShapes
<1>5. ASSUME NEW c \in Readers, PageStep(c) PROVE G
  BY <1>2, <1>5 DEF PageStep, Close, Connect, Drop, Deliver, Open, Type
<1>6. ASSUME NEW s \in Sockets, Disconnect(s) PROVE G
  BY <1>2, <1>6 DEF Disconnect
<1>7. CASE PostStep
  BY <1>2, <1>7 DEF PostStep, Create, Publish, CreateFailed
<1>8. CASE Restart
  BY <1>8 DEF Restart
<1> QED
  BY <1>2, <1>3, <1>4, <1>5, <1>6, <1>7, <1>8, StepCases DEF vars

LEMMA UpTypesStep ==
  ASSUME PageTypes, ServerTypes, SocketInv, [Next]_vars
  PROVE  up' \in [Sockets -> Seq(UpPackets)]
<1> DEFINE G == up' \in [Sockets -> Seq(UpPackets)]
<1>0. up \in [Sockets -> Seq(UpPackets)] /\ <<>> \in Seq(UpPackets)
  BY EmptySeq DEF ServerTypes
<1>2. CASE UNCHANGED up
  BY <1>0, <1>2
<1>3. ASSUME NEW s \in Sockets, Start(s) PROVE G
  BY <1>3, Received DEF Start, OnJoin, OnLeave, OnMessage
<1>4. ASSUME NEW s \in Sockets, Resume(s) \/ QueryStep(s) PROVE G
  BY <1>2, <1>4 DEF Resume, QueryStep, JoinLeft, JoinJoined, LeaveDone, JoinRead, JoinAnswered,
                    JoinFailed
<1>5. ASSUME NEW c \in Readers, PageStep(c) PROVE G
  <2>1. CASE Close(c)
    BY <2>1, EmitTypes, PacketTypes DEF Close
  <2>2. CASE Connect(c)
    <3> DEFINE tail == IF page[c].story # None THEN <<Join(page[c].story, page[c].visit)>> ELSE <<>>
               q == buffer[c] \o tail
    <3>1. page[c] \in Pages /\ buffer[c] \in Seq(UpPackets)
      BY DEF PageTypes
    <3>2. page[c].story # None => Join(page[c].story, page[c].visit) \in UpPackets
      BY <3>1, PacketTypes DEF Pages
    <3>3. tail \in Seq(UpPackets)
      BY <1>0, <3>2
    <3>4. q \in Seq(UpPackets)
      <4> HIDE DEF tail
      <4> QED
        BY <3>1, <3>3, ConcatProperties
    <3>5. up' = [up EXCEPT ![<<c, opened[c] + 1>>] = q]
      BY <2>2 DEF Connect
    <3> QED
      <4> HIDE DEF q
      <4> QED
        BY <1>0, <3>4, <3>5
  <2>3. CASE Drop(c) \/ Deliver(c)
    BY <1>2, <2>3 DEF Drop, Deliver
  <2>4. ASSUME NEW r \in Stories, Open(c, r) PROVE G
    <3>1. page[c].visit + 1 \in Nat
      BY DEF PageTypes, Pages
    <3>2. Emit(c, Join(r, page[c].visit + 1)) => G
      BY <3>1, EmitTypes, PacketTypes
    <3> QED
      BY <1>2, <2>4, <3>2 DEF Open
  <2>5. ASSUME NEW m \in Messages, Type(c, m) PROVE G
    BY <2>5, EmitTypes, PacketTypes DEF Type
  <2> QED
    BY <1>5, <2>1, <2>2, <2>3, <2>4, <2>5 DEF PageStep
<1>6. ASSUME NEW s \in Sockets, Disconnect(s) PROVE G
  BY <1>0, <1>6 DEF Disconnect
<1>7. CASE PostStep
  BY <1>2, <1>7 DEF PostStep, Create, Publish, CreateFailed
<1>8. CASE Restart
  BY <1>0, <1>8 DEF Restart
<1> QED
  BY <1>2, <1>3, <1>4, <1>5, <1>6, <1>7, <1>8, StepCases DEF vars

LEMMA RoomTypesStep ==
  ASSUME PageTypes, ServerTypes, [Next]_vars
  PROVE  /\ live' \subseteq Sockets /\ crossed' \subseteq Readers
         /\ rooms' \in [Sockets -> SUBSET Stories] /\ room' \in [Sockets -> Stories \cup {None}]
<1> DEFINE G == /\ live' \subseteq Sockets /\ crossed' \subseteq Readers
                /\ rooms' \in [Sockets -> SUBSET Stories]
                /\ room' \in [Sockets -> Stories \cup {None}]
<1>0. /\ live \subseteq Sockets /\ crossed \subseteq Readers
      /\ rooms \in [Sockets -> SUBSET Stories] /\ room \in [Sockets -> Stories \cup {None}]
  BY DEF ServerTypes
<1>2. CASE UNCHANGED <<roomVars, crossed>>
  BY <1>0, <1>2 DEF roomVars
<1>3. ASSUME NEW s \in Sockets, Start(s) PROVE G
  <2>0. s[1] \in Readers
    BY DEF Sockets
  <2>1. CASE OnJoin(s)
    BY <1>0, <2>0, <2>1, JoinStarts DEF OnJoin, Receive, Meets
  <2>2. CASE OnLeave(s)
    BY <1>0, <2>0, <2>2, LeaveStarts DEF OnLeave, Receive, Meets
  <2>3. CASE OnMessage(s)
    BY <1>0, <2>3 DEF OnMessage, Receive
  <2> QED
    BY <1>3, <2>1, <2>2, <2>3 DEF Start
<1>4. ASSUME NEW s \in Sockets, Resume(s) \/ QueryStep(s) PROVE G
  <2>1. ASSUME NEW h \in work[s], JoinLeft(s, h) PROVE G
    BY <1>0, <2>1, HandlerSteps DEF JoinLeft, history
  <2>2. ASSUME NEW h \in work[s], JoinJoined(s, h) PROVE G
    BY <1>0, <2>2, HandlerSteps DEF JoinJoined, history
  <2>3. ASSUME NEW h \in work[s], LeaveDone(s, h) PROVE G
    BY <1>0, <2>3 DEF LeaveDone, history
  <2>4. CASE QueryStep(s)
    BY <1>2, <2>4 DEF QueryStep, JoinRead, JoinAnswered, JoinFailed, history
  <2> QED
    BY <1>4, <2>1, <2>2, <2>3, <2>4 DEF Resume
<1>5. ASSUME NEW c \in Readers, PageStep(c) PROVE G
  <2>1. CASE Connect(c)
    <3>1. <<c, opened[c] + 1>> \in Sockets
      BY <2>1, ChatAssumption DEF Connect, PageTypes, Sockets
    <3> QED
      BY <1>0, <2>1, <3>1 DEF Connect, history
  <2> QED
    BY <1>2, <1>5, <2>1 DEF PageStep, Close, Drop, Deliver, Open, Type, history
<1>6. ASSUME NEW s \in Sockets, Disconnect(s) PROVE G
  BY <1>0, <1>6 DEF Disconnect, history
<1>7. CASE PostStep
  BY <1>2, <1>7 DEF PostStep, Create, Publish, CreateFailed, history
<1>8. CASE Restart
  BY <1>0, <1>8 DEF Restart
<1> QED
  BY <1>2, <1>3, <1>4, <1>5, <1>6, <1>7, <1>8, StepCases DEF vars, history

LEMMA PostTypesStep ==
  ASSUME ServerTypes, [Next]_vars
  PROVE  posts' \subseteq Posts /\ thread' \in [Stories -> Seq(Messages)]
<1> DEFINE G == posts' \subseteq Posts /\ thread' \in [Stories -> Seq(Messages)]
<1>0. posts \subseteq Posts /\ thread \in [Stories -> Seq(Messages)]
  BY DEF ServerTypes
<1>2. CASE UNCHANGED tableVars
  BY <1>0, <1>2 DEF tableVars
<1>3. ASSUME NEW s \in Sockets, Start(s) PROVE G
  <2>1. CASE OnMessage(s)
    <3> DEFINE m == Head(up[s]).msg
               q == [room |-> room[s], msg |-> m, pc |-> "creating"]
    <3>1. m \in Messages
      BY <2>1, Received, UpFields DEF OnMessage
    <3>2. room[s] # None => q \in Posts
      BY <3>1 DEF Posts, ServerTypes
    <3>3. posts' = posts \/ (room[s] # None /\ posts' = posts \cup {q})
      BY <2>1 DEF OnMessage, Receive
    <3>4. thread' = thread
      BY <2>1 DEF OnMessage, Receive
    <3> HIDE DEF q
    <3> QED
      BY <1>0, <3>2, <3>3, <3>4
  <2> QED
    BY <1>2, <1>3, <2>1 DEF Start, OnJoin, OnLeave
<1>4. ASSUME NEW s \in Sockets, Resume(s) \/ QueryStep(s) PROVE G
  BY <1>2, <1>4 DEF Resume, QueryStep, JoinLeft, JoinJoined, LeaveDone, JoinRead, JoinAnswered,
                    JoinFailed
<1>5. ASSUME NEW c \in Readers, PageStep(c) PROVE G
  BY <1>2, <1>5 DEF PageStep, Close, Connect, Drop, Deliver, Open, Type
<1>6. ASSUME NEW s \in Sockets, Disconnect(s) PROVE G
  BY <1>2, <1>6 DEF Disconnect
<1>7. ASSUME NEW p \in posts, Create(p) \/ Publish(p) \/ CreateFailed(p) PROVE G
  <2>0. p \in Posts /\ p.room \in Stories /\ p.msg \in Messages
    BY <1>0 DEF Posts
  <2>1. CASE Create(p)
    <3> DEFINE q == [p EXCEPT !.pc = "created"]
    <3>1. q \in Posts
      BY <2>0 DEF Posts
    <3>2. posts' = (posts \ {p}) \cup {q}
      BY <2>1 DEF Create
    <3>3. Append(thread[p.room], p.msg) \in Seq(Messages)
      BY <1>0, <2>0, Appended
    <3>4. thread' = [thread EXCEPT ![p.room] = Append(thread[p.room], p.msg)]
      BY <2>1 DEF Create
    <3> HIDE DEF q
    <3> QED
      BY <1>0, <3>1, <3>2, <3>3, <3>4
  <2>2. CASE Publish(p) \/ CreateFailed(p)
    BY <1>0, <2>2 DEF Publish, CreateFailed
  <2> QED
    BY <1>7, <2>1, <2>2
<1>8. CASE Restart
  BY <1>0, <1>8 DEF Restart
<1> QED
  BY <1>2, <1>3, <1>4, <1>5, <1>6, <1>7, <1>8, StepCases DEF vars, PostStep

LEMMA ServerTypesStep ==
  ASSUME PageTypes, ServerTypes, SocketInv, [Next]_vars PROVE ServerTypes'
BY WorkTypesStep, UpTypesStep, RoomTypesStep, PostTypesStep DEF ServerTypes

\* Threads only grow.
LEMMA ThreadsGrow ==
  ASSUME ServerTypes, [Next]_vars
  PROVE  \A r \in Stories : /\ Len(thread[r]) \in Nat /\ Len(thread[r]) <= Len(thread'[r])
                            /\ Len(thread'[r]) \in Nat
<1>1. \A r \in Stories : Len(thread[r]) \in Nat /\ Len(thread'[r]) \in Nat
  BY PostTypesStep, LenProperties DEF ServerTypes
<1>2. CASE thread' = thread
  BY <1>1, <1>2
<1>3. ASSUME NEW p \in posts, Create(p)
      PROVE  \A r \in Stories : Len(thread[r]) <= Len(thread'[r])
  <2>1. p.room \in Stories /\ p.msg \in Messages
    BY DEF ServerTypes, Posts
  <2>2. /\ thread' = [thread EXCEPT ![p.room] = Append(thread[p.room], p.msg)]
        /\ Len(Append(thread[p.room], p.msg)) = Len(thread[p.room]) + 1
    BY <1>3, <2>1, Appended DEF Create, ServerTypes
  <2> QED
    BY <1>1, <2>1, <2>2 DEF ServerTypes
<1>4. thread' = thread \/ \E p \in posts : Create(p)
  <2>1. CASE PostStep
    BY <2>1 DEF PostStep, Publish, CreateFailed
  <2>2. CASE \E s \in Sockets : Start(s) \/ Resume(s) \/ QueryStep(s) \/ Disconnect(s)
    BY <2>2 DEF Start, OnJoin, OnLeave, OnMessage, Resume, QueryStep, JoinLeft, JoinJoined,
                LeaveDone, JoinRead, JoinAnswered, JoinFailed, Disconnect, tableVars
  <2>3. CASE \E c \in Readers : PageStep(c)
    BY <2>3 DEF PageStep, Close, Connect, Drop, Deliver, Open, Type, tableVars
  <2>4. CASE Restart \/ UNCHANGED vars
    BY <2>4 DEF Restart, vars, tableVars
  <2> QED
    BY <2>1, <2>2, <2>3, <2>4, StepCases
<1> QED
  BY <1>1, <1>2, <1>3, <1>4

\* A handler that is there after a step was there before, or is new, or is the next
\* state of one that was.
LEMMA WhoWorks ==
  ASSUME ServerTypes, [Next]_vars, NEW t \in Sockets, NEW g \in work'[t]
  PROVE  \/ g \in work[t]
         \/ OnJoin(t) /\ g = JoinHandler(t)
         \/ OnLeave(t) /\ g = LeaveHandler(t)
         \/ \E h \in work[t] : \/ JoinLeft(t, h) /\ g = JoiningOf(h)
                               \/ JoinJoined(t, h) /\ g = ReadingOf(h)
                               \/ JoinRead(t, h) /\ g = ReadOf(h)
<1> DEFINE G == \/ g \in work[t]
                \/ OnJoin(t) /\ g = JoinHandler(t)
                \/ OnLeave(t) /\ g = LeaveHandler(t)
                \/ \E h \in work[t] : \/ JoinLeft(t, h) /\ g = JoiningOf(h)
                                      \/ JoinJoined(t, h) /\ g = ReadingOf(h)
                                      \/ JoinRead(t, h) /\ g = ReadOf(h)
<1>0. work \in [Sockets -> SUBSET Handlers]
  BY DEF ServerTypes
<1>2. CASE UNCHANGED work
  BY <1>2
<1>3. ASSUME NEW s \in Sockets, Start(s) PROVE G
  <2>1. CASE OnJoin(s)
    BY <1>0, <2>1, JoinStarts
  <2>2. CASE OnLeave(s)
    BY <1>0, <2>2, LeaveStarts
  <2> QED
    BY <1>2, <1>3, <2>1, <2>2 DEF Start, OnMessage
<1>4. ASSUME NEW s \in Sockets, Resume(s) \/ QueryStep(s) PROVE G
  <2>1. PICK h \in work[s] : \/ JoinLeft(s, h) \/ JoinJoined(s, h) \/ LeaveDone(s, h)
                             \/ JoinRead(s, h) \/ JoinAnswered(s, h) \/ JoinFailed(s, h)
    BY <1>4 DEF Resume, QueryStep
  <2>2. CASE JoinLeft(s, h)
    BY <1>0, <2>2, HandlerShapes
  <2>3. CASE JoinJoined(s, h)
    BY <1>0, <2>3, HandlerShapes
  <2>4. CASE JoinRead(s, h)
    BY <1>0, <2>4, HandlerShapes
  <2>5. CASE JoinAnswered(s, h) \/ JoinFailed(s, h) \/ LeaveDone(s, h)
    BY <1>0, <2>5, HandlerShapes
  <2> QED
    BY <2>1, <2>2, <2>3, <2>4, <2>5
<1>5. ASSUME NEW c \in Readers, PageStep(c) PROVE G
  BY <1>2, <1>5 DEF PageStep, Close, Connect, Drop, Deliver, Open, Type
<1>6. ASSUME NEW s \in Sockets, Disconnect(s) PROVE G
  BY <1>2, <1>6 DEF Disconnect
<1>7. CASE PostStep
  BY <1>2, <1>7 DEF PostStep, Create, Publish, CreateFailed
<1>8. CASE Restart
  BY <1>8 DEF Restart
<1> QED
  BY <1>2, <1>3, <1>4, <1>5, <1>6, <1>7, <1>8, StepCases DEF vars

LEMMA SeenStep ==
  ASSUME ServerTypes, SeenInv, [Next]_vars PROVE SeenInv'
<1> SUFFICES ASSUME NEW t \in Sockets, NEW g \in work'[t] PROVE g.seen <= Len(thread'[g.room])
  BY DEF SeenInv
<1>1. CASE g \in work[t]
  <2>1. g.room \in Stories /\ g.seen <= Len(thread[g.room]) /\ g.seen \in Nat
    BY <1>1 DEF SeenInv, ServerTypes, Handlers
  <2> QED
    BY <2>1, ThreadsGrow
<1>2. CASE OnJoin(t) /\ g = JoinHandler(t)
  <2>1. g.seen = 0 /\ g.room \in Stories
    BY <1>2, JoinStarts DEF JoinHandler
  <2> QED
    BY <2>1, ThreadsGrow
<1>3. CASE OnLeave(t) /\ g = LeaveHandler(t)
  <2>1. g \in Handlers
    BY WorkTypesStep
  <2>2. g.seen = 0 /\ g.room \in Stories
    BY <1>3, <2>1 DEF LeaveHandler, Handlers
  <2> QED
    BY <2>2, ThreadsGrow
<1>4. ASSUME NEW h \in work[t], g \in {JoiningOf(h), ReadingOf(h), ReadOf(h)}
      PROVE  g.seen <= Len(thread'[g.room])
  <2>1. h.room \in Stories /\ h.seen <= Len(thread[h.room]) /\ h.seen \in Nat
    BY DEF SeenInv, ServerTypes, Handlers
  <2>2. g.room = h.room /\ (g.seen = h.seen \/ g.seen = Len(thread[h.room]))
    BY <1>4, HandlerSteps
  <2> QED
    BY <2>1, <2>2, ThreadsGrow
<1> QED
  BY <1>1, <1>2, <1>3, <1>4, WhoWorks

\* What a join is answered with.
Answer(h) == Ack(h.visit, LastOf(SubSeq(thread[h.room], 1, h.seen), HistorySize),
                 RoomSize(h.room, rooms))

LEMMA AnswerTypes ==
  ASSUME ServerTypes, SeenInv, NEW s \in Sockets, NEW h \in work[s]
  PROVE  /\ Answer(h) \in DownPackets /\ Answer(h).op = "ack"
         /\ Answer(h).visit = h.visit /\ Answer(h).fans = RoomSize(h.room, rooms)
<1> DEFINE past == LastOf(SubSeq(thread[h.room], 1, h.seen), HistorySize)
<1>1. h.visit \in Nat /\ h.room \in Stories /\ h.seen \in 0..Len(thread[h.room])
  <2>1. h \in Handlers /\ Len(thread[h.room]) \in Nat
    BY HandlerSteps
  <2> QED
    BY <2>1 DEF Handlers, SeenInv
<1>2. past \in Seq(Messages)
  <2>1. SubSeq(thread[h.room], 1, h.seen) \in Seq(Messages)
    BY <1>1, FirstAreSeq DEF ServerTypes
  <2>2. HistorySize \in Nat
    BY ChatAssumption
  <2> QED
    BY <2>1, <2>2, LastOfIsSeq
<1>3. Answer(h) = Ack(h.visit, past, RoomSize(h.room, rooms))
  BY DEF Answer
<1> HIDE DEF past
<1>4. Answer(h) \in DownPackets
  BY <1>1, <1>2, <1>3, RoomSizeIsNat, PacketTypes
<1> QED
  BY <1>3, <1>4 DEF Ack

LEMMA DownTypesStep ==
  ASSUME PageTypes, ServerTypes, DownTypes, SeenInv, SocketInv, [Next]_vars PROVE DownTypes'
<1>0. down \in [Sockets -> Seq(DownPackets)] /\ <<>> \in Seq(DownPackets)
  BY EmptySeq DEF DownTypes
<1>1. ASSUME down' \in [Sockets -> Seq(DownPackets)] PROVE DownTypes'
  BY <1>1 DEF DownTypes
<1>2. CASE UNCHANGED down
  BY <1>0, <1>1, <1>2
<1>3. ASSUME NEW s \in Sockets, Start(s) PROVE DownTypes'
  BY <1>2, <1>3 DEF Start, OnJoin, OnLeave, OnMessage
<1>4. ASSUME NEW s \in Sockets, NEW h \in work[s], JoinAnswered(s, h) PROVE DownTypes'
  <2>1. BroadcastPresence(h.room, rooms) \in [Sockets -> Seq(DownPackets)]
    BY PresenceTypes
  <2>2. PICK told, answer : told = BroadcastPresence(h.room, rooms) /\ answer = Answer(h)
    OBVIOUS
  <2>3. answer \in DownPackets
    BY <2>2, AnswerTypes
  <2>4. Append(told[s], answer) \in Seq(DownPackets)
    BY <2>1, <2>2, <2>3, Appended
  <2>5. down' = told \/ down' = [told EXCEPT ![s] = Append(told[s], answer)]
    BY <1>4, <2>2 DEF JoinAnswered, Answer
  <2> QED
    BY <1>1, <2>1, <2>2, <2>4, <2>5
<1>5. ASSUME NEW s \in Sockets, Resume(s) \/ QueryStep(s) PROVE DownTypes'
  <2>1. PICK h \in work[s] : \/ JoinLeft(s, h) \/ JoinJoined(s, h) \/ LeaveDone(s, h)
                             \/ JoinRead(s, h) \/ JoinAnswered(s, h) \/ JoinFailed(s, h)
    BY <1>5 DEF Resume, QueryStep
  <2>2. CASE JoinLeft(s, h)
    BY <1>1, <2>2, PresenceTypes DEF JoinLeft
  <2>3. CASE LeaveDone(s, h)
    BY <1>1, <2>3, PresenceTypes DEF LeaveDone
  <2> QED
    BY <1>2, <1>4, <2>1, <2>2, <2>3 DEF JoinJoined, JoinRead, JoinFailed
<1>6. ASSUME NEW c \in Readers, PageStep(c) PROVE DownTypes'
  <2>1. CASE Drop(c)
    BY <1>0, <1>1, <2>1 DEF Drop
  <2> QED
    BY <1>2, <1>6, <2>1, DeliverTypes DEF PageStep, Close, Connect, Open, Type
<1>7. ASSUME NEW s \in Sockets, Disconnect(s) PROVE DownTypes'
  BY <1>1, <1>2, <1>7, PresenceTypes DEF Disconnect
<1>8. ASSUME NEW p \in posts, Create(p) \/ Publish(p) \/ CreateFailed(p) PROVE DownTypes'
  <2>1. p.msg \in Messages
    BY DEF ServerTypes, Posts
  <2>2. ToRoom(p.room, rooms, Broadcast(p.msg)) \in [Sockets -> Seq(DownPackets)]
    BY <2>1, PacketTypes, ToRoomTypes
  <2> QED
    BY <1>1, <1>2, <1>8, <2>2 DEF Create, Publish, CreateFailed
<1>9. CASE Restart
  BY <1>0, <1>1, <1>9 DEF Restart
<1> QED
  BY <1>2, <1>3, <1>5, <1>6, <1>7, <1>8, <1>9, StepCases DEF vars, PostStep

-------------------------------------------------------------------------------
(* Sockets *)

\* A handler of one socket does nothing to another.
LEMMA Elsewhere ==
  ASSUME ServerTypes, NEW s \in Sockets, Start(s) \/ Resume(s) \/ QueryStep(s)
  PROVE  /\ live' = live /\ UNCHANGED pageVars
         /\ \A t \in Sockets : t # s => /\ up'[t] = up[t] /\ rooms'[t] = rooms[t]
                                        /\ room'[t] = room[t] /\ work'[t] = work[t]
<1>0. /\ up \in [Sockets -> Seq(UpPackets)] /\ work \in [Sockets -> SUBSET Handlers]
      /\ rooms \in [Sockets -> SUBSET Stories] /\ room \in [Sockets -> Stories \cup {None}]
  BY DEF ServerTypes
<1> DEFINE G == /\ live' = live /\ UNCHANGED pageVars
                /\ \A t \in Sockets : t # s => /\ up'[t] = up[t] /\ rooms'[t] = rooms[t]
                                               /\ room'[t] = room[t] /\ work'[t] = work[t]
<1>1. CASE OnJoin(s)
  BY <1>0, <1>1, JoinStarts DEF OnJoin, Receive
<1>2. CASE OnLeave(s)
  BY <1>0, <1>2, LeaveStarts DEF OnLeave, Receive
<1>3. CASE OnMessage(s)
  BY <1>0, <1>3 DEF OnMessage, Receive
<1>4. ASSUME NEW h \in work[s], JoinLeft(s, h) PROVE G
  <2>1. live' = live /\ UNCHANGED pageVars
        /\ rooms' = [rooms EXCEPT ![s] = rooms[s] \cup {h.room}] /\ up' = up /\ room' = room
    BY <1>4 DEF JoinLeft
  <2>2. \A t \in Sockets : t # s => work'[t] = work[t]
    BY <1>0, <1>4, HandlerShapes
  <2> QED
    BY <1>0, <2>1, <2>2
<1>5. ASSUME NEW h \in work[s], JoinJoined(s, h) PROVE G
  <2>1. live' = live /\ UNCHANGED pageVars /\ room' = [room EXCEPT ![s] = h.room] /\ up' = up /\ rooms' = rooms
    BY <1>5 DEF JoinJoined
  <2>2. \A t \in Sockets : t # s => work'[t] = work[t]
    BY <1>0, <1>5, HandlerShapes
  <2> QED
    BY <1>0, <2>1, <2>2
<1>6. ASSUME NEW h \in work[s], LeaveDone(s, h) PROVE G
  <2>1. live' = live /\ UNCHANGED pageVars /\ room' = [room EXCEPT ![s] = None] /\ up' = up /\ rooms' = rooms
    BY <1>6 DEF LeaveDone
  <2>2. \A t \in Sockets : t # s => work'[t] = work[t]
    BY <1>0, <1>6, HandlerShapes
  <2> QED
    BY <1>0, <2>1, <2>2
<1>7. CASE QueryStep(s)
  <2>1. live' = live /\ rooms' = rooms /\ room' = room /\ up' = up /\ UNCHANGED pageVars
    BY <1>7 DEF QueryStep, JoinRead, JoinAnswered, JoinFailed, roomVars
  <2>2. PICK h \in work[s] : JoinRead(s, h) \/ JoinAnswered(s, h) \/ JoinFailed(s, h)
    BY <1>7 DEF QueryStep
  <2>3. \A t \in Sockets : t # s => work'[t] = work[t]
    BY <1>0, <2>2, HandlerShapes
  <2> QED
    BY <2>1, <2>3
<1>8. CASE Start(s) \/ Resume(s)
  BY <1>1, <1>2, <1>3, <1>4, <1>5, <1>6, <1>8 DEF Start, Resume
<1> QED
  BY <1>7, <1>8

\* Those that start or go on in a tick are of a socket that the server has; a step
\* after a query starts no tick.
LEMMA AtWork ==
  ASSUME ServerTypes, SocketInv, NEW s \in Sockets
  PROVE  /\ Start(s) => s \in live
         /\ Resume(s) /\ InTick(s) => s \in live
         /\ QueryStep(s) => UNCHANGED <<up, roomVars, crossed>>
         /\ [Next]_vars /\ QueryStep(s) /\ ~InTick(s) => ~InTick(s)'
<1>1. Start(s) => s \in live
  BY DEF Start, OnJoin, OnLeave, OnMessage, Receive
<1>2. InTick(s) => s \in live
  BY DEF SocketInv
<1>3. QueryStep(s) => UNCHANGED <<up, roomVars, crossed>>
  BY DEF QueryStep, JoinRead, JoinAnswered, JoinFailed, history
<1>4. ASSUME QueryStep(s), ~InTick(s), [Next]_vars PROVE ~InTick(s)'
  <2>1. PICK h \in work[s] : JoinRead(s, h) \/ JoinAnswered(s, h) \/ JoinFailed(s, h)
    BY <1>4 DEF QueryStep
  <2>2. work \in [Sockets -> SUBSET Handlers]
    BY DEF ServerTypes
  <2>3. \A g \in work'[s] : g \in work[s] \/ g.pc = "read"
    BY <2>1, <2>2, HandlerShapes, HandlerSteps
  <2> QED
    BY <1>4, <2>3 DEF InTick
<1> QED
  BY <1>1, <1>2, <1>3, <1>4

\* What a page does, seen from the server.
LEMMA PageShapes ==
  ASSUME PageTypes, ServerTypes, SocketInv, NEW c \in Readers, PageStep(c)
  PROVE  /\ UNCHANGED <<rooms, room, work, posts, thread, crossed>>
         /\ \/ live' = live /\ opened' = opened /\ online' = online
            \/ live' = live /\ opened' = opened /\ online' = online \ {c} /\ up' = up
            \/ /\ <<c, opened[c] + 1>> \in Sockets
               /\ live' = live \cup {<<c, opened[c] + 1>>} /\ online' = online \cup {c}
               /\ opened' = [opened EXCEPT ![c] = opened[c] + 1]
               /\ \A t \in Sockets : t # <<c, opened[c] + 1>> => up'[t] = up[t]
         /\ \A t \in Sockets : t \notin live' => up'[t] = up[t]
<1>0. up \in [Sockets -> Seq(UpPackets)]
  BY DEF ServerTypes
<1> DEFINE G == /\ UNCHANGED <<rooms, room, work, posts, thread, crossed>>
                /\ \/ live' = live /\ opened' = opened /\ online' = online
                   \/ live' = live /\ opened' = opened /\ online' = online \ {c} /\ up' = up
                   \/ /\ <<c, opened[c] + 1>> \in Sockets
                      /\ live' = live \cup {<<c, opened[c] + 1>>} /\ online' = online \cup {c}
                      /\ opened' = [opened EXCEPT ![c] = opened[c] + 1]
                      /\ \A t \in Sockets : t # <<c, opened[c] + 1>> => up'[t] = up[t]
                /\ \A t \in Sockets : t \notin live' => up'[t] = up[t]
<1>1. ASSUME NEW p, Emit(c, p), live' = live
      PROVE  \A t \in Sockets : t \notin live' => up'[t] = up[t]
  BY <1>0, <1>1, SocketOf DEF Emit
<1>2. CASE Close(c)
  BY <1>1, <1>2 DEF Close, roomVars, tableVars, history
<1>3. CASE Connect(c)
  <2>1. <<c, opened[c] + 1>> \in Sockets
    BY <1>3, ChatAssumption DEF Connect, PageTypes, Sockets
  <2> QED
    BY <1>0, <1>3, <2>1 DEF Connect, tableVars, history
<1>4. CASE Drop(c)
  BY <1>0, <1>4 DEF Drop, roomVars, tableVars
<1>5. CASE Deliver(c)
  BY <1>0, <1>5 DEF Deliver, roomVars, tableVars, history
<1>6. ASSUME NEW r \in Stories, Open(c, r) PROVE G
  BY <1>0, <1>1, <1>6 DEF Open, roomVars, tableVars, history
<1>7. ASSUME NEW m \in Messages, Type(c, m) PROVE G
  BY <1>1, <1>7 DEF Type, roomVars, tableVars, history
<1> QED
  BY <1>2, <1>3, <1>4, <1>5, <1>6, <1>7 DEF PageStep

LEMMA SocketInvStep ==
  ASSUME PageTypes, ServerTypes, SocketInv, [Next]_vars PROVE SocketInv'
<1>0. /\ \A t \in Sockets \ live : rooms[t] = {} /\ up[t] = <<>> /\ ~InTick(t)
      /\ \A c \in online : opened[c] >= 1 /\ Socket(c) \in live
      /\ \A t \in Sockets : t[2] > opened[t[1]] => t \notin live /\ room[t] = None /\ work[t] = {}
  BY DEF SocketInv
<1>1. ASSUME NEW s \in Sockets, Start(s) \/ (Resume(s) /\ InTick(s)) PROVE SocketInv'
  <2>1. s \in live /\ live' = live /\ UNCHANGED pageVars
    BY <1>1, AtWork, Elsewhere
  <2>2. \A t \in Sockets : t # s => /\ up'[t] = up[t] /\ rooms'[t] = rooms[t]
                                    /\ room'[t] = room[t] /\ work'[t] = work[t]
    BY <1>1, Elsewhere
  <2>3. \A t \in Sockets : t # s => InTick(t)' = InTick(t)
    BY <2>2 DEF InTick
  <2>4. \A c \in online : Socket(c)' = Socket(c)
    BY <2>1 DEF Socket, pageVars
  <2> QED
    BY <1>0, <2>1, <2>2, <2>3, <2>4 DEF SocketInv, pageVars
<1>2. ASSUME NEW s \in Sockets, QueryStep(s), Calm PROVE SocketInv'
  <2>1. live' = live /\ UNCHANGED pageVars /\ UNCHANGED <<up, rooms, room>>
    BY <1>2, AtWork, Elsewhere DEF roomVars
  <2>2. \A t \in Sockets : t # s => work'[t] = work[t]
    BY <1>2, Elsewhere
  <2>3. \A t \in Sockets : t # s => InTick(t)' = InTick(t)
    BY <2>2 DEF InTick
  <2>4. ~InTick(s)'
    BY <1>2, AtWork DEF Calm
  <2>5. \A c \in online : Socket(c)' = Socket(c)
    BY <2>1 DEF Socket, pageVars
  <2>6. work[s] # {}
    BY <1>2 DEF QueryStep
  <2> QED
    BY <1>0, <2>1, <2>2, <2>3, <2>4, <2>5, <2>6 DEF SocketInv, pageVars
<1>3. ASSUME NEW c \in Readers, PageStep(c) PROVE SocketInv'
  <2>1. UNCHANGED <<rooms, room, work>> /\ \A t \in Sockets : t \notin live' => up'[t] = up[t]
    BY <1>3, PageShapes
  <2>2. \A t \in Sockets : InTick(t)' = InTick(t)
    BY <2>1 DEF InTick
  <2>3. CASE live' = live /\ opened' = opened /\ online' \in {online, online \ {c}}
    <3>1. \A d \in online : Socket(d)' = Socket(d)
      BY <2>3 DEF Socket
    <3> QED
      BY <1>0, <2>1, <2>2, <2>3, <3>1 DEF SocketInv
  <2>4. CASE /\ <<c, opened[c] + 1>> \in Sockets
             /\ live' = live \cup {<<c, opened[c] + 1>>} /\ online' = online \cup {c}
             /\ opened' = [opened EXCEPT ![c] = opened[c] + 1]
    <3>1. \A d \in Readers : opened[d] \in Nat
      BY ChatAssumption DEF PageTypes
    <3>2. \A d \in Readers : opened'[d] = IF d = c THEN opened[c] + 1 ELSE opened[d]
      BY <2>4 DEF PageTypes
    <3>3. \A d \in online' : opened'[d] >= 1 /\ Socket(d)' \in live'
      <4> SUFFICES ASSUME NEW d \in online' PROVE opened'[d] >= 1 /\ Socket(d)' \in live'
        OBVIOUS
      <4>1. CASE d = c
        BY <2>4, <3>1, <3>2, <4>1 DEF Socket
      <4>2. CASE d # c
        <5>1. d \in online /\ d \in Readers
          BY <2>4, <4>2 DEF PageTypes
        <5>2. opened'[d] = opened[d]
          BY <3>2, <4>2, <5>1
        <5> QED
          BY <1>0, <2>4, <5>1, <5>2 DEF Socket
      <4> QED
        BY <4>1, <4>2
    <3>4. ASSUME NEW t \in Sockets, t[2] > opened'[t[1]]
          PROVE  t \notin live' /\ room'[t] = None /\ work'[t] = {}
      <4>1. t[1] \in Readers /\ t[2] \in Nat /\ t = <<t[1], t[2]>>
        BY ChatAssumption DEF Sockets
      <4>2. t[2] > opened[t[1]] /\ t # <<c, opened[c] + 1>>
        BY <3>1, <3>2, <3>4, <4>1
      <4> QED
        BY <1>0, <2>1, <2>4, <4>2
    <3>5. \A t \in Sockets \ live' : rooms'[t] = {} /\ up'[t] = <<>> /\ ~InTick(t)'
      BY <1>0, <2>1, <2>2, <2>4
    <3> QED
      BY <3>3, <3>4, <3>5 DEF SocketInv
  <2> QED
    BY <1>3, <2>3, <2>4, PageShapes
<1>4. ASSUME NEW s \in Sockets, Disconnect(s), Calm PROVE SocketInv'
  <2>1. /\ live' = live \ {s} /\ s \notin Heard /\ UNCHANGED <<pageVars, room, work>>
        /\ rooms' = [rooms EXCEPT ![s] = {}] /\ up' = [up EXCEPT ![s] = <<>>]
    BY <1>4 DEF Disconnect
  <2>2. \A t \in Sockets : ~InTick(t)'
    BY <1>4, <2>1 DEF InTick, Calm
  <2>3. \A c \in online : Socket(c)' = Socket(c) /\ Socket(c) # s
    BY <2>1 DEF Socket, pageVars, Heard
  <2>4. rooms \in [Sockets -> SUBSET Stories] /\ up \in [Sockets -> Seq(UpPackets)]
    BY DEF ServerTypes
  <2> QED
    BY <1>0, <2>1, <2>2, <2>3, <2>4 DEF SocketInv, pageVars
<1>5. CASE PostStep
  <2>1. UNCHANGED <<pageVars, up, roomVars, work>>
    BY <1>5 DEF PostStep, Create, Publish, CreateFailed
  <2> QED
    BY <1>0, <2>1 DEF SocketInv, pageVars, roomVars, InTick, Socket
<1>6. CASE Restart
  <2>1. /\ live' = {} /\ online' = {} /\ opened' = opened /\ room' = room
        /\ rooms' = [t \in Sockets |-> {}] /\ work' = [t \in Sockets |-> {}]
        /\ up' = [t \in Sockets |-> <<>>]
    BY <1>6 DEF Restart
  <2>2. \A t \in Sockets : ~InTick(t)'
    BY <2>1 DEF InTick
  <2> QED
    BY <1>0, <2>1, <2>2 DEF SocketInv
<1>7. CASE UNCHANGED vars
  BY <1>0, <1>7 DEF SocketInv, vars, pageVars, roomVars, InTick, Socket
<1> QED
  BY <1>1, <1>2, <1>3, <1>4, <1>5, <1>6, <1>7, StepCases

LEMMA InitSocketInv ==
  ASSUME Init PROVE SocketInv
BY DEF Init, SocketInv, InTick

-------------------------------------------------------------------------------
(* Texts *)

LEMMA NobodyTyped == <<>> \notin Readers \X Stories
OBVIOUS

\* Each text is typed once.
LEMMA TypedStays ==
  ASSUME PageTypes, [Next]_vars, NEW m \in Messages, typed[m] \in Readers \X Stories
  PROVE  typed'[m] = typed[m]
<1>1. CASE typed' = typed
  BY <1>1
<1>2. ASSUME NEW c \in Readers, NEW n \in Messages, Type(c, n) PROVE typed'[m] = typed[m]
  <2>1. typed[n] = <<>> /\ typed' = [typed EXCEPT ![n] = <<c, page[c].story>>]
    BY <1>2 DEF Type
  <2>2. m # n
    BY <2>1, NobodyTyped
  <2> QED
    BY <2>1, <2>2 DEF PageTypes
<1>3. CASE \E c \in Readers : PageStep(c)
  BY <1>1, <1>2, <1>3 DEF PageStep, Close, Connect, Drop, Deliver, Open
<1>4. CASE Restart
  BY <1>1, <1>4 DEF Restart
<1>5. CASE UNCHANGED pageVars
  BY <1>1, <1>5 DEF pageVars
<1> QED
  BY <1>3, <1>4, <1>5, StepCases, ServerStep DEF vars

LEMMA KnownStays ==
  ASSUME PageTypes, [Next]_vars, NEW c, NEW p \in UpPackets, KnownText(typed, c, p)
  PROVE  KnownText(typed', c, p)
BY TypedStays, UpFields DEF KnownText

LEMMA EmitTexts ==
  ASSUME PageTypes, ServerTypes, SocketInv, TextsInv, [Next]_vars,
         NEW c \in Readers, NEW p \in UpPackets, Emit(c, p), KnownText(typed', c, p),
         c \in online \/ p.op # "join"
  PROVE  TextsInv'
<1>1. \A s \in Sockets : up[s] \in Seq(UpPackets) /\ DOMAIN up[s] = 1..Len(up[s])
                         /\ \A i \in 1..Len(up[s]) : KnownText(typed', s[1], up[s][i])
  <2> SUFFICES ASSUME NEW s \in Sockets
               PROVE  /\ up[s] \in Seq(UpPackets) /\ DOMAIN up[s] = 1..Len(up[s])
                      /\ \A i \in 1..Len(up[s]) : KnownText(typed', s[1], up[s][i])
    OBVIOUS
  <2>1. up[s] \in Seq(UpPackets) /\ DOMAIN up[s] = 1..Len(up[s])
    BY LenProperties DEF ServerTypes
  <2>2. \A i \in 1..Len(up[s]) : up[s][i] \in UpPackets /\ KnownText(typed, s[1], up[s][i])
    BY <2>1, ElementOfSeq DEF TextsInv
  <2> QED
    BY <2>1, <2>2, KnownStays
<1>2. \A d \in Readers : buffer[d] \in Seq(UpPackets) /\ DOMAIN buffer[d] = 1..Len(buffer[d])
         /\ \A i \in 1..Len(buffer[d]) : KnownText(typed', d, buffer[d][i]) /\ buffer[d][i].op # "join"
  <2> SUFFICES ASSUME NEW d \in Readers
               PROVE  /\ buffer[d] \in Seq(UpPackets) /\ DOMAIN buffer[d] = 1..Len(buffer[d])
                      /\ \A i \in 1..Len(buffer[d]) :
                            KnownText(typed', d, buffer[d][i]) /\ buffer[d][i].op # "join"
    OBVIOUS
  <2>1. buffer[d] \in Seq(UpPackets) /\ DOMAIN buffer[d] = 1..Len(buffer[d])
    BY LenProperties DEF PageTypes
  <2>2. \A i \in 1..Len(buffer[d]) : /\ buffer[d][i] \in UpPackets /\ KnownText(typed, d, buffer[d][i])
                                     /\ buffer[d][i].op # "join"
    BY <2>1, ElementOfSeq DEF TextsInv
  <2> QED
    BY <2>1, <2>2, KnownStays
<1>3. CASE c \in online
  <2>1. up' = [up EXCEPT ![Socket(c)] = Append(up[Socket(c)], p)] /\ buffer' = buffer
    BY <1>3 DEF Emit
  <2>2. Socket(c) \in Sockets /\ Socket(c)[1] = c
    BY <1>3, SocketOf
  <2> DEFINE q == up[Socket(c)]
             n == Append(q, p)
  <2>3. /\ DOMAIN n = 1..(Len(q) + 1) /\ n[Len(q) + 1] = p
        /\ \A i \in 1..Len(q) : n[i] = q[i]
        /\ Len(q) \in Nat
    BY <1>1, <2>2, Appended, LenProperties
  <2>4. \A i \in DOMAIN n : KnownText(typed', c, n[i])
    <3> SUFFICES ASSUME NEW i \in DOMAIN n PROVE KnownText(typed', c, n[i])
      OBVIOUS
    <3>1. CASE i = Len(q) + 1
      BY <2>3, <3>1
    <3>2. CASE i \in 1..Len(q)
      BY <1>1, <2>2, <2>3, <3>2
    <3> QED
      BY <2>3, <3>1, <3>2
  <2>5. \A s \in Sockets : up'[s] = IF s = Socket(c) THEN n ELSE up[s]
    BY <2>1 DEF ServerTypes
  <2> HIDE DEF n
  <2>6. \A s \in Sockets : \A i \in DOMAIN up'[s] : KnownText(typed', s[1], up'[s][i])
    BY <1>1, <2>2, <2>4, <2>5
  <2>7. \A d \in Readers : \A i \in DOMAIN buffer'[d] :
            KnownText(typed', d, buffer'[d][i]) /\ buffer'[d][i].op # "join"
    BY <1>2, <2>1
  <2> QED
    BY <2>6, <2>7 DEF TextsInv
<1>4. CASE c \notin online
  <2>1. buffer' = [buffer EXCEPT ![c] = Append(buffer[c], p)] /\ up' = up
    BY <1>4 DEF Emit
  <2> DEFINE q == buffer[c]
             n == Append(q, p)
  <2>3. /\ DOMAIN n = 1..(Len(q) + 1) /\ n[Len(q) + 1] = p
        /\ \A i \in 1..Len(q) : n[i] = q[i]
        /\ Len(q) \in Nat
    BY <1>2, Appended, LenProperties
  <2>4. \A i \in DOMAIN n : KnownText(typed', c, n[i]) /\ n[i].op # "join"
    <3> SUFFICES ASSUME NEW i \in DOMAIN n PROVE KnownText(typed', c, n[i]) /\ n[i].op # "join"
      OBVIOUS
    <3>1. CASE i = Len(q) + 1
      BY <1>4, <2>3, <3>1
    <3>2. CASE i \in 1..Len(q)
      BY <1>2, <2>3, <3>2
    <3> QED
      BY <2>3, <3>1, <3>2
  <2>5. \A d \in Readers : buffer'[d] = IF d = c THEN n ELSE buffer[d]
    BY <2>1 DEF PageTypes
  <2> HIDE DEF n
  <2>6. \A s \in Sockets : \A i \in DOMAIN up'[s] : KnownText(typed', s[1], up'[s][i])
    BY <1>1, <2>1
  <2>7. \A d \in Readers : \A i \in DOMAIN buffer'[d] :
            KnownText(typed', d, buffer'[d][i]) /\ buffer'[d][i].op # "join"
    BY <1>2, <2>4, <2>5
  <2> QED
    BY <2>6, <2>7 DEF TextsInv
<1> QED
  BY <1>3, <1>4

LEMMA TextsInvStep ==
  ASSUME PageTypes, ServerTypes, SocketInv, TextsInv, [Next]_vars PROVE TextsInv'
<1>1. \A s \in Sockets : up[s] \in Seq(UpPackets) /\ DOMAIN up[s] = 1..Len(up[s])
                         /\ Len(up[s]) \in Nat
                         /\ \A i \in 1..Len(up[s]) : KnownText(typed', s[1], up[s][i])
  <2> SUFFICES ASSUME NEW s \in Sockets
               PROVE  /\ up[s] \in Seq(UpPackets) /\ DOMAIN up[s] = 1..Len(up[s])
                      /\ Len(up[s]) \in Nat
                      /\ \A i \in 1..Len(up[s]) : KnownText(typed', s[1], up[s][i])
    OBVIOUS
  <2>1. up[s] \in Seq(UpPackets) /\ DOMAIN up[s] = 1..Len(up[s]) /\ Len(up[s]) \in Nat
    BY LenProperties DEF ServerTypes
  <2>2. \A i \in 1..Len(up[s]) : up[s][i] \in UpPackets /\ KnownText(typed, s[1], up[s][i])
    BY <2>1, ElementOfSeq DEF TextsInv
  <2> QED
    BY <2>1, <2>2, KnownStays
<1>2. \A d \in Readers : /\ buffer[d] \in Seq(UpPackets) /\ DOMAIN buffer[d] = 1..Len(buffer[d])
                         /\ Len(buffer[d]) \in Nat
                         /\ \A i \in 1..Len(buffer[d]) :
                               KnownText(typed', d, buffer[d][i]) /\ buffer[d][i].op # "join"
  <2> SUFFICES ASSUME NEW d \in Readers
               PROVE  /\ buffer[d] \in Seq(UpPackets) /\ DOMAIN buffer[d] = 1..Len(buffer[d])
                      /\ Len(buffer[d]) \in Nat
                      /\ \A i \in 1..Len(buffer[d]) :
                            KnownText(typed', d, buffer[d][i]) /\ buffer[d][i].op # "join"
    OBVIOUS
  <2>1. buffer[d] \in Seq(UpPackets) /\ DOMAIN buffer[d] = 1..Len(buffer[d])
        /\ Len(buffer[d]) \in Nat
    BY LenProperties DEF PageTypes
  <2>2. \A i \in 1..Len(buffer[d]) : /\ buffer[d][i] \in UpPackets /\ KnownText(typed, d, buffer[d][i])
                                     /\ buffer[d][i].op # "join"
    BY <2>1, ElementOfSeq DEF TextsInv
  <2> QED
    BY <2>1, <2>2, KnownStays
<1> DEFINE Ups == \A s \in Sockets : \A i \in DOMAIN up'[s] : KnownText(typed', s[1], up'[s][i])
           Buffers == \A d \in Readers : \A i \in DOMAIN buffer'[d] :
                          KnownText(typed', d, buffer'[d][i]) /\ buffer'[d][i].op # "join"
<1>3. Ups /\ Buffers => TextsInv'
  BY DEF TextsInv
<1>4. up' = up => Ups
  BY <1>1
<1>5. buffer' = buffer => Buffers
  BY <1>2
<1>6. ASSUME NEW s \in Sockets, up' = [up EXCEPT ![s] = Tail(up[s])], up[s] # <<>> PROVE Ups
  <2> DEFINE q == Tail(up[s])
  <2>1. /\ DOMAIN q = 1..(Len(up[s]) - 1)
        /\ \A i \in 1..(Len(up[s]) - 1) : q[i] = up[s][i + 1] /\ i + 1 \in 1..Len(up[s])
    BY <1>1, <1>6, Popped
  <2>2. \A i \in DOMAIN q : KnownText(typed', s[1], q[i])
    <3> HIDE DEF q
    <3> QED
      BY <1>1, <2>1
  <2>3. \A t \in Sockets : up'[t] = IF t = s THEN q ELSE up[t]
    BY <1>6 DEF ServerTypes
  <2> HIDE DEF q
  <2> QED
    BY <1>1, <2>2, <2>3
<1>7. ASSUME NEW s \in Sockets, Start(s) PROVE TextsInv'
  <2>1. up' = [up EXCEPT ![s] = Tail(up[s])] /\ up[s] # <<>>
    BY <1>7, Received DEF Start, OnJoin, OnLeave, OnMessage
  <2>2. buffer' = buffer
    BY <1>7, ServerStep DEF pageVars
  <2> QED
    BY <1>3, <1>5, <1>6, <2>1, <2>2
<1>8. ASSUME NEW s \in Sockets, Resume(s) \/ QueryStep(s) PROVE TextsInv'
  <2>1. up' = up
    BY <1>8 DEF Resume, QueryStep, JoinLeft, JoinJoined, LeaveDone, JoinRead, JoinAnswered,
                JoinFailed
  <2>2. buffer' = buffer
    BY <1>8, ServerStep DEF pageVars
  <2> QED
    BY <1>3, <1>4, <1>5, <2>1, <2>2
<1>9. ASSUME NEW c \in Readers, PageStep(c) PROVE TextsInv'
  <2>1. CASE Close(c)
    <3>1. KnownText(typed', c, Leave) /\ Leave.op # "join"
      BY DEF Leave, KnownText
    <3> QED
      BY <2>1, <3>1, EmitTexts, PacketTypes DEF Close
  <2>2. CASE Connect(c)
    <3> DEFINE tail == IF page[c].story # None THEN <<Join(page[c].story, page[c].visit)>> ELSE <<>>
               q == buffer[c] \o tail
               new == <<c, opened[c] + 1>>
    <3>1. page[c] \in Pages
      BY DEF PageTypes
    <3>2. page[c].story # None => Join(page[c].story, page[c].visit) \in UpPackets
      BY <3>1, PacketTypes DEF Pages
    <3>3. /\ tail \in Seq(UpPackets) /\ Len(tail) \in Nat /\ DOMAIN tail = 1..Len(tail)
          /\ \A i \in 1..Len(tail) : tail[i].op = "join"
      <4>1. CASE page[c].story = None
        <5>1. tail = <<>>
          BY <4>1
        <5> QED
          BY <5>1, EmptySeq, LenProperties
      <4>2. CASE page[c].story # None
        <5>1. tail = <<Join(page[c].story, page[c].visit)>>
          BY <4>2
        <5>2. Join(page[c].story, page[c].visit).op = "join"
          BY DEF Join
        <5> QED
          BY <3>2, <4>2, <5>1, <5>2
      <4> QED
        BY <4>1, <4>2
    <3>4. /\ q \in Seq(UpPackets) /\ Len(q) = Len(buffer[c]) + Len(tail) /\ DOMAIN q = 1..Len(q)
          /\ \A i \in 1..Len(q) :
                q[i] = IF i <= Len(buffer[c]) THEN buffer[c][i] ELSE tail[i - Len(buffer[c])]
      <4> HIDE DEF tail
      <4> QED
        BY <1>2, <3>3, ConcatProperties, LenProperties
    <3> HIDE DEF tail, q
    <3>5. \A i \in DOMAIN q : KnownText(typed', c, q[i])
      <4> SUFFICES ASSUME NEW i \in 1..Len(q) PROVE KnownText(typed', c, q[i])
        BY <3>4
      <4>1. CASE i <= Len(buffer[c])
        <5>1. i \in 1..Len(buffer[c])
          BY <1>2, <4>1
        <5> QED
          BY <1>2, <3>4, <4>1, <5>1
      <4>2. CASE ~(i <= Len(buffer[c]))
        <5>1. i - Len(buffer[c]) \in 1..Len(tail)
          BY <1>2, <3>3, <3>4, <4>2
        <5>2. q[i].op = "join"
          BY <3>3, <3>4, <4>2, <5>1
        <5> QED
          BY <5>2 DEF KnownText
      <4> QED
        BY <4>1, <4>2
    <3>6. new \in Sockets /\ new[1] = c /\ up' = [up EXCEPT ![new] = q]
      BY <2>2, ChatAssumption DEF Connect, PageTypes, Sockets, q, tail
    <3>7. Ups
      <4>1. \A s \in Sockets : up'[s] = IF s = new THEN q ELSE up[s]
        BY <3>6 DEF ServerTypes
      <4> QED
        BY <1>1, <3>5, <3>6, <4>1
    <3>8. Buffers
      <4>1. \A d \in Readers : buffer'[d] = IF d = c THEN <<>> ELSE buffer[d]
        BY <2>2 DEF Connect, PageTypes
      <4>2. DOMAIN <<>> = {}
        OBVIOUS
      <4> QED
        BY <1>2, <4>1, <4>2
    <3> QED
      BY <1>3, <3>7, <3>8
  <2>3. CASE Drop(c) \/ Deliver(c)
    BY <1>3, <1>4, <1>5, <2>3 DEF Drop, Deliver
  <2>4. ASSUME NEW r \in Stories, Open(c, r) PROVE TextsInv'
    <3>1. page[c].visit + 1 \in Nat
      BY DEF PageTypes, Pages
    <3>2. KnownText(typed', c, Join(r, page[c].visit + 1))
      BY DEF Join, KnownText
    <3>3. Join(r, page[c].visit + 1) \in UpPackets
      BY <3>1, PacketTypes
    <3>4. CASE c \in online
      BY <2>4, <3>2, <3>3, <3>4, EmitTexts DEF Open
    <3>5. CASE c \notin online
      BY <1>3, <1>4, <1>5, <2>4, <3>5 DEF Open
    <3> QED
      BY <3>4, <3>5
  <2>5. ASSUME NEW m \in Messages, Type(c, m) PROVE TextsInv'
    <3>1. page[c].story \in Stories
      BY <2>5 DEF Type, PageTypes, Pages
    <3>2. typed'[m] = <<c, page[c].story>>
      BY <2>5 DEF Type, PageTypes
    <3>3. Message(m).op = "message" /\ Message(m).msg = m
      BY DEF Message
    <3>4. KnownText(typed', c, Message(m))
      BY <3>1, <3>2, <3>3 DEF KnownText
    <3> QED
      BY <2>5, <3>3, <3>4, EmitTexts, PacketTypes DEF Type
  <2> QED
    BY <1>9, <2>1, <2>2, <2>3, <2>4, <2>5 DEF PageStep
<1>10. ASSUME NEW s \in Sockets, Disconnect(s) PROVE TextsInv'
  <2>1. up' = [up EXCEPT ![s] = <<>>] /\ buffer' = buffer
    BY <1>10 DEF Disconnect, pageVars
  <2>2. \A t \in Sockets : up'[t] = IF t = s THEN <<>> ELSE up[t]
    BY <2>1 DEF ServerTypes
  <2>3. DOMAIN <<>> = {}
    OBVIOUS
  <2>4. Ups
    BY <1>1, <2>2, <2>3
  <2> QED
    BY <1>3, <1>5, <2>1, <2>4
<1>11. CASE PostStep
  <2>1. up' = up /\ buffer' = buffer
    BY <1>11 DEF PostStep, Create, Publish, CreateFailed, pageVars
  <2> QED
    BY <1>3, <1>4, <1>5, <2>1
<1>12. CASE Restart
  <2>1. up' = [t \in Sockets |-> <<>>] /\ buffer' = buffer
    BY <1>12 DEF Restart
  <2>2. DOMAIN <<>> = {}
    OBVIOUS
  <2>3. Ups
    BY <2>1, <2>2
  <2> QED
    BY <1>3, <1>5, <2>1, <2>3
<1>13. CASE UNCHANGED vars
  BY <1>3, <1>4, <1>5, <1>13 DEF vars, pageVars
<1> QED
  BY <1>7, <1>8, <1>9, <1>10, <1>11, <1>12, <1>13, StepCases

LEMMA InitTextsInv ==
  ASSUME Init PROVE TextsInv
<1>1. DOMAIN <<>> = {}
  OBVIOUS
<1> QED
  BY <1>1 DEF Init, TextsInv

-------------------------------------------------------------------------------
(* The way of a socket through the threads *)

LEMMA CrossedGrows ==
  ASSUME [Next]_vars PROVE crossed \subseteq crossed'
<1>1. ASSUME NEW s \in Sockets, Start(s) PROVE crossed \subseteq crossed'
  BY <1>1 DEF Start, OnJoin, OnLeave, OnMessage, Meets
<1>2. ASSUME NEW s \in Sockets, Resume(s) \/ QueryStep(s) \/ Disconnect(s) PROVE crossed' = crossed
  BY <1>2 DEF Resume, QueryStep, JoinLeft, JoinJoined, LeaveDone, JoinRead, JoinAnswered,
              JoinFailed, Disconnect, history
<1>3. ASSUME NEW c \in Readers, PageStep(c) PROVE crossed' = crossed
  BY <1>3 DEF PageStep, Close, Connect, Drop, Deliver, Open, Type, history
<1>4. CASE PostStep \/ Restart
  BY <1>4 DEF PostStep, Create, Publish, CreateFailed, Restart, history
<1>5. CASE UNCHANGED vars
  BY <1>5 DEF vars, history
<1> QED
  BY <1>1, <1>2, <1>3, <1>4, <1>5, StepCases

\* The handlers that are mid-tick decide where a socket is.
LEMMA RoomKept ==
  ASSUME NEW s, rooms'[s] = rooms[s], room'[s] = room[s],
         \A h : Mid(h) => (h \in work'[s] <=> h \in work[s])
  PROVE  /\ InTick(s)' <=> InTick(s)
         /\ RoomInv(s) => RoomInv(s)'
         /\ \A t : At(s, t) => At(s, t)'
<1>1. InTick(s)' <=> InTick(s)
  BY DEF InTick, Mid
<1>2. \A h \in work'[s] : Mid(h) => h \in work[s]
  OBVIOUS
<1>3. RoomInv(s) => RoomInv(s)'
  BY <1>1, <1>2 DEF RoomInv, Mid
<1>4. \A t : At(s, t) => At(s, t)'
  BY <1>1, <1>2 DEF At, Mid
<1> QED
  BY <1>1, <1>3, <1>4

Contexts(n) == [0..n -> Stories \cup {None}]

\* The texts in a queue keep who typed them, and where.
LEMMA QueueKept ==
  ASSUME PageTypes, ServerTypes, TextsInv, [Next]_vars, NEW s \in Sockets
  PROVE  /\ up[s] \in Seq(UpPackets) /\ Len(up[s]) \in Nat
         /\ \A i \in 1..Len(up[s]) :
               /\ up[s][i] \in UpPackets
               /\ up[s][i].op = "message" =>
                     /\ typed[up[s][i].msg] \in Readers \X Stories
                     /\ typed'[up[s][i].msg] = typed[up[s][i].msg]
<1>1. up[s] \in Seq(UpPackets) /\ Len(up[s]) \in Nat /\ DOMAIN up[s] = 1..Len(up[s])
  BY LenProperties DEF ServerTypes
<1>2. \A i \in 1..Len(up[s]) : up[s][i] \in UpPackets /\ KnownText(typed, s[1], up[s][i])
  BY <1>1, ElementOfSeq DEF TextsInv
<1> QED
  BY <1>1, <1>2, TypedStays, UpFields DEF KnownText

\* Nothing happens to the queue.
LEMMA PathKept ==
  ASSUME PageTypes, ServerTypes, TextsInv, [Next]_vars, NEW s \in Sockets,
         up'[s] = up[s], rooms'[s] = rooms[s], room'[s] = room[s],
         \A h : Mid(h) => (h \in work'[s] <=> h \in work[s]),
         \A c \in online' : s = Socket(c)' =>
             c \in online /\ s = Socket(c) /\ page'[c].story = page[c].story,
         PathInv(s)
  PROVE  PathInv(s)'
<1>1. PICK ctx \in Contexts(Len(up[s])) : Path(s, ctx)
  BY DEF PathInv, Contexts
<1>2. At(s, ctx[0]) /\ Steps(s, up[s], ctx) /\ Carries(up[s], ctx)
      /\ \A c \in online : s = Socket(c) => ctx[Len(up[s])] = page[c].story
  BY <1>1 DEF Path
<1>3. At(s, ctx[0])' /\ (InTick(s)' <=> InTick(s))
  BY <1>2, RoomKept
<1>4. Steps(s, up[s], ctx)'
  BY <1>2, <1>3, QueueKept DEF Steps, Unmoved
<1>5. \A c \in online' : s = Socket(c)' => ctx[Len(up'[s])] = page'[c].story
  BY <1>2
<1>6. Path(s, ctx)'
  <2>1. Carries(up[s], ctx)'
    BY <1>2 DEF Carries
  <2> QED
    BY <1>3, <1>4, <1>5, <2>1 DEF Path
<1>7. ctx \in [0..Len(up'[s]) -> Stories \cup {None}]
  BY <1>1 DEF Contexts
<1> QED
  BY <1>6, <1>7 DEF PathInv

\* A packet is read.
LEMMA PathRead ==
  ASSUME PageTypes, ServerTypes, TextsInv, [Next]_vars, NEW s \in Sockets,
         up[s] # <<>>, up' = [up EXCEPT ![s] = Tail(up[s])], UNCHANGED pageVars,
         NEW ctx \in Contexts(Len(up[s])), Path(s, ctx),
         At(s, ctx[1])',
         \A i \in 1..(Len(up[s]) - 1) : Unmoved(s, ctx, i + 1) => room'[s] = None /\ ~InTick(s)'
  PROVE  PathInv(s)'
<1>0. PICK q, t, n : q = up[s] /\ t = Tail(up[s]) /\ n = [i \in 0..(Len(q) - 1) |-> ctx[i + 1]]
  OBVIOUS
<1>1. /\ Len(q) \in Nat \ {0} /\ Len(t) = Len(q) - 1 /\ up'[s] = t
      /\ \A i \in 1..(Len(q) - 1) : t[i] = q[i + 1] /\ i + 1 \in 1..Len(q)
  <2>1. q \in Seq(UpPackets) /\ q # <<>>
    BY <1>0 DEF ServerTypes
  <2>2. up'[s] = t
    BY <1>0 DEF ServerTypes
  <2> QED
    BY <1>0, <2>1, <2>2, Popped
<1>2. /\ Steps(s, q, ctx) /\ Carries(q, ctx)
      /\ \A c \in online : s = Socket(c) => ctx[Len(q)] = page[c].story
  BY <1>0 DEF Path
<1>3. /\ n \in Contexts(Len(t)) /\ n[0] = ctx[1] /\ n[Len(t)] = ctx[Len(q)]
      /\ \A i \in 0..(Len(q) - 1) : n[i] = ctx[i + 1]
  <2>1. ctx \in Contexts(Len(q))
    BY <1>0
  <2> QED
    BY <1>0, <1>1, <2>1 DEF Contexts
<1>4. \A i \in 1..Len(q) : q[i].op = "message" =>
          /\ typed[q[i].msg] \in Readers \X Stories
          /\ typed'[q[i].msg] = typed[q[i].msg]
  BY <1>0, QueueKept
<1>5. ASSUME NEW i \in 1..Len(t)
      PROVE  /\ t[i].op = "join" => n[i - 1] = None /\ n[i] = t[i].room
             /\ t[i].op = "leave" => n[i] = None
             /\ t[i].op = "message" =>
                   /\ n[i] = n[i - 1]
                   /\ n[i - 1] = typed'[t[i].msg][2] \/ Unmoved(s, n, i)'
  <2>1. /\ t[i] = q[i + 1] /\ i + 1 \in 1..Len(q) /\ n[i - 1] = ctx[i] /\ n[i] = ctx[i + 1]
        /\ (i + 1) - 1 = i /\ i \in 1..(Len(q) - 1)
    <3>1. /\ i - 1 \in 0..(Len(q) - 1) /\ (i - 1) + 1 = i /\ (i + 1) - 1 = i
          /\ i \in 1..(Len(q) - 1) /\ i \in 0..(Len(q) - 1)
      BY <1>1
    <3>2. n[i - 1] = ctx[(i - 1) + 1]
      BY <1>3, <3>1
    <3>3. n[i] = ctx[i + 1]
      BY <1>3, <3>1
    <3> QED
      BY <1>1, <3>1, <3>2, <3>3
  <2>2. /\ q[i + 1].op = "join" => ctx[i] = None /\ ctx[i + 1] = q[i + 1].room
        /\ q[i + 1].op = "leave" => ctx[i + 1] = None
        /\ q[i + 1].op = "message" =>
              /\ ctx[i + 1] = ctx[i]
              /\ ctx[i] = typed[q[i + 1].msg][2] \/ Unmoved(s, ctx, i + 1)
    BY <1>2, <2>1 DEF Steps
  <2>3. ASSUME Unmoved(s, ctx, i + 1) PROVE Unmoved(s, n, i)'
    <3>1. room'[s] = None /\ ~InTick(s)'
      BY <1>0, <2>1, <2>3
    <3>2. \A j \in 0..i : ctx[j] = None
      BY <2>1, <2>3 DEF Unmoved
    <3>3. \A j \in 0..(i - 1) : n[j] = None
      BY <1>1, <1>3, <3>2
    <3> QED
      BY <3>1, <3>3 DEF Unmoved
  <2> QED
    BY <1>4, <2>1, <2>2, <2>3
<1>6. Steps(s, up[s], n)'
  BY <1>1, <1>5 DEF Steps
<1>7. \A c \in online' : s = Socket(c)' => n[Len(up'[s])] = page'[c].story
  <2>1. online' = online /\ page' = page /\ opened' = opened
    BY DEF pageVars
  <2> QED
    BY <1>1, <1>2, <1>3, <2>1 DEF Socket
<1>8. At(s, n[0])'
  BY <1>3
<1>9. Path(s, n)'
  <2>1. Carries(t, n)
    <3> SUFFICES ASSUME NEW i \in 0..Len(t), NEW j \in i..Len(t),
                        \A k \in (i + 1)..j : t[k].op # "join"
                 PROVE  n[j] \in {n[i], None}
      BY DEF Carries
    <3>1. /\ i + 1 \in 0..Len(q) /\ j + 1 \in (i + 1)..Len(q)
          /\ n[i] = ctx[i + 1] /\ n[j] = ctx[j + 1]
      BY <1>1, <1>3
    <3>2. ASSUME NEW k \in ((i + 1) + 1)..(j + 1) PROVE q[k].op # "join"
      <4>1. k - 1 \in (i + 1)..j /\ k - 1 \in 1..(Len(q) - 1) /\ (k - 1) + 1 = k
        BY <1>1
      <4>2. t[k - 1] = q[(k - 1) + 1]
        BY <1>1, <4>1
      <4> QED
        BY <4>1, <4>2
    <3>3. ctx[j + 1] \in {ctx[i + 1], None}
      BY <1>2, <3>1, <3>2 DEF Carries
    <3> QED
      BY <3>1, <3>3
  <2>2. Carries(up[s], n)'
    BY <1>1, <2>1 DEF Carries
  <2> QED
    BY <1>6, <1>7, <1>8, <2>2 DEF Path
<1>10. n \in [0..Len(up'[s]) -> Stories \cup {None}]
  BY <1>1, <1>3 DEF Contexts
<1> QED
  BY <1>9, <1>10 DEF PathInv

\* The socket reads a join: it is in no thread, and nothing else is going on.
LEMMA JoinComes ==
  ASSUME PageTypes, ServerTypes, TextsInv, [Next]_vars, NEW s \in Sockets, OnJoin(s),
         s[1] \notin crossed', RoomInv(s), PathInv(s)
  PROVE  /\ RoomInv(s)' /\ PathInv(s)'
         /\ rooms' = [rooms EXCEPT ![s] = {Head(up[s]).room}] /\ rooms[s] = {}
         /\ JoinHandler(s).pc = "joining" /\ JoinHandler(s).room = Head(up[s]).room
<1> DEFINE j == JoinHandler(s)
           r == Head(up[s]).room
<1>1. PICK ctx \in Contexts(Len(up[s])) : Path(s, ctx)
  BY DEF PathInv, Contexts
<1>2. /\ ~InTick(s) /\ s \in live /\ up[s] # <<>> /\ up[s] \in Seq(UpPackets)
      /\ Head(up[s]).op = "join" /\ up' = [up EXCEPT ![s] = Tail(up[s])] /\ UNCHANGED pageVars
      /\ room' = room
  BY Received DEF OnJoin, Meets, Receive
<1>3. Len(up[s]) \in Nat \ {0} /\ Head(up[s]) = up[s][1]
  BY <1>2, Popped
<1>4. ctx[0] = room[s] /\ ctx[0] = None /\ ctx[1] = r
  <2>1. 1 \in 1..Len(up[s]) /\ 1 - 1 = 0
    BY <1>3
  <2>2. Steps(s, up[s], ctx) /\ At(s, ctx[0])
    BY <1>1 DEF Path
  <2> QED
    BY <1>2, <1>3, <2>1, <2>2 DEF Steps, At
<1>5. /\ r \in Stories /\ work' = [work EXCEPT ![s] = work[s] \cup {j}]
      /\ j.pc = "joining" /\ j.room = r
  <2>1. r \in Stories /\ work' = [work EXCEPT ![s] = work[s] \cup {j}]
    BY JoinStarts
  <2>2. room[s] = None
    BY <1>4
  <2> QED
    BY <2>1, <2>2 DEF JoinHandler
<1>6. rooms[s] = {} /\ rooms' = [rooms EXCEPT ![s] = {r}]
  <2>1. rooms[s] = {}
    BY <1>2, <1>4 DEF RoomInv
  <2>2. rooms' = [rooms EXCEPT ![s] = rooms[s] \cup {r}]
    BY <1>4 DEF OnJoin
  <2> QED
    BY <2>1, <2>2
<1>7. rooms'[s] = {r} /\ room'[s] = None /\ work'[s] = work[s] \cup {j}
  BY <1>2, <1>4, <1>5, <1>6 DEF ServerTypes
<1> HIDE DEF j, r
<1>8. \A h \in work'[s] : Mid(h) => h = j
  BY <1>2, <1>7 DEF InTick, Mid
<1>9. RoomInv(s)'
  <2>1. InTick(s)'
    BY <1>5, <1>7 DEF InTick
  <2> QED
    BY <1>5, <1>7, <1>8, <2>1 DEF RoomInv, Mid
<1>10. At(s, ctx[1])'
  <2>1. InTick(s)'
    BY <1>5, <1>7 DEF InTick
  <2> QED
    BY <1>4, <1>5, <1>8, <2>1 DEF At, Mid
<1>11. \A i \in 1..(Len(up[s]) - 1) : ~Unmoved(s, ctx, i + 1)
  <2>1. ctx[1] # None
    BY <1>4, <1>5, ChatAssumption
  <2> QED
    BY <1>3, <2>1 DEF Unmoved
<1>12. PathInv(s)'
  BY <1>1, <1>2, <1>10, <1>11, PathRead
<1> QED
  BY <1>5, <1>6, <1>9, <1>12 DEF j, r

LEMMA LeaveComes ==
  ASSUME PageTypes, ServerTypes, TextsInv, [Next]_vars, NEW s \in Sockets, OnLeave(s),
         s[1] \notin crossed', RoomInv(s), PathInv(s)
  PROVE  RoomInv(s)' /\ PathInv(s)' /\ ~InTick(s)
<1> DEFINE l == LeaveHandler(s)
<1>1. PICK ctx \in Contexts(Len(up[s])) : Path(s, ctx)
  BY DEF PathInv, Contexts
<1>2. /\ ~InTick(s) /\ s \in live /\ up[s] # <<>> /\ up[s] \in Seq(UpPackets)
      /\ Head(up[s]).op = "leave" /\ up' = [up EXCEPT ![s] = Tail(up[s])] /\ UNCHANGED pageVars
      /\ room' = room
  BY Received DEF OnLeave, Meets, Receive
<1>3. Len(up[s]) \in Nat \ {0} /\ Head(up[s]) = up[s][1]
  BY <1>2, Popped
<1>4. ctx[0] = room[s] /\ ctx[1] = None
  <2>1. 1 \in 1..Len(up[s])
    BY <1>3
  <2>2. Steps(s, up[s], ctx) /\ At(s, ctx[0])
    BY <1>1 DEF Path
  <2> QED
    BY <1>2, <1>3, <2>1, <2>2 DEF Steps, At
<1>5. CASE room[s] = None
  <2>1. UNCHANGED <<rooms, work>>
    BY <1>5, LeaveStarts, ChatAssumption
  <2>2. /\ InTick(s)' <=> InTick(s)
        /\ RoomInv(s)' /\ \A t : At(s, t) => At(s, t)'
    BY <1>2, <2>1, RoomKept
  <2>3. At(s, ctx[1])'
    BY <1>1, <1>4, <1>5, <2>2 DEF Path
  <2>4. room'[s] = None /\ ~InTick(s)'
    BY <1>2, <1>5, <2>2
  <2> QED
    BY <1>1, <1>2, <2>2, <2>3, <2>4, PathRead
<1>6. CASE room[s] # None
  <2>1. /\ room[s] \in Stories /\ rooms' = [rooms EXCEPT ![s] = rooms[s] \ {room[s]}]
        /\ work' = [work EXCEPT ![s] = work[s] \cup {l}]
    BY <1>6, LeaveStarts
  <2>2. l.pc = "left" /\ l.room = room[s]
    BY DEF LeaveHandler
  <2>3. rooms[s] = {room[s]} \ {None}
    BY <1>2 DEF RoomInv
  <2>4. rooms'[s] = {} /\ work'[s] = work[s] \cup {l} /\ room'[s] = room[s]
    BY <1>2, <2>1, <2>3 DEF ServerTypes
  <2> HIDE DEF l
  <2>5. \A h \in work'[s] : Mid(h) => h = l
    BY <1>2, <2>4 DEF InTick, Mid
  <2>6. InTick(s)'
    BY <2>2, <2>4 DEF InTick
  <2>7. RoomInv(s)'
    BY <2>2, <2>4, <2>5, <2>6 DEF RoomInv, Mid
  <2>8. At(s, ctx[1])'
    BY <1>4, <2>2, <2>5, <2>6 DEF At, Mid
  <2>9. \A i \in 1..(Len(up[s]) - 1) : ~Unmoved(s, ctx, i + 1)
    BY <1>6 DEF Unmoved
  <2> QED
    BY <1>1, <1>2, <2>7, <2>8, <2>9, PathRead
<1> QED
  BY <1>2, <1>5, <1>6

\* A message is read in the thread it was typed in, or in none.
LEMMA MessageComes ==
  ASSUME PageTypes, ServerTypes, TextsInv, [Next]_vars, NEW s \in Sockets, OnMessage(s),
         RoomInv(s), PathInv(s)
  PROVE  /\ RoomInv(s)' /\ PathInv(s)'
         /\ room[s] # None => typed[Head(up[s]).msg][2] = room[s]
<1>1. PICK ctx \in Contexts(Len(up[s])) : Path(s, ctx)
  BY DEF PathInv, Contexts
<1>2. /\ s \in live /\ up[s] # <<>> /\ up[s] \in Seq(UpPackets)
      /\ Head(up[s]).op = "message" /\ up' = [up EXCEPT ![s] = Tail(up[s])] /\ UNCHANGED pageVars
      /\ room' = room /\ rooms' = rooms /\ work' = work
  BY Received DEF OnMessage, Receive
<1>3. Len(up[s]) \in Nat \ {0} /\ Head(up[s]) = up[s][1]
  BY <1>2, Popped
<1>4. /\ At(s, ctx[0]) /\ ctx[1] = ctx[0]
      /\ ctx[0] = typed[Head(up[s]).msg][2] \/ (room[s] = None /\ ~InTick(s))
  <2>1. 1 \in 1..Len(up[s]) /\ 1 - 1 = 0
    BY <1>3
  <2>2. Steps(s, up[s], ctx) /\ At(s, ctx[0])
    BY <1>1 DEF Path
  <2> QED
    BY <1>2, <1>3, <2>1, <2>2 DEF Steps, Unmoved
<1>5. /\ InTick(s)' <=> InTick(s)
      /\ RoomInv(s)' /\ \A t : At(s, t) => At(s, t)'
  BY <1>2, RoomKept
<1>6. At(s, ctx[1])'
  BY <1>4, <1>5
<1>7. \A i \in 1..(Len(up[s]) - 1) : Unmoved(s, ctx, i + 1) => room'[s] = None /\ ~InTick(s)'
  BY <1>2, <1>5 DEF Unmoved
<1>8. PathInv(s)'
  BY <1>1, <1>2, <1>6, <1>7, PathRead
<1>9. ASSUME room[s] # None PROVE typed[Head(up[s]).msg][2] = room[s]
  <2>1. ctx[0] = typed[Head(up[s]).msg][2]
    BY <1>4, <1>9
  <2>2. typed[Head(up[s]).msg][2] \in Stories
    <3>1. typed[up[s][1].msg] \in Readers \X Stories
      BY <1>2, <1>3, QueueKept
    <3> QED
      BY <1>3, <3>1
  <2>3. \A h \in work[s] : ~Mid(h)
    <3>1. ASSUME NEW h \in work[s], Mid(h) PROVE FALSE
      <4>1. h.pc \in {"joining", "left"}
        BY <3>1 DEF RoomInv, Mid
      <4>2. h.pc # "joining"
        BY <1>9 DEF RoomInv
      <4>3. ctx[0] = None
        BY <1>4, <4>1, <4>2 DEF At
      <4> QED
        BY <2>1, <2>2, <4>3, ChatAssumption
    <3> QED
      BY <3>1
  <2>4. ~InTick(s)
    BY <2>3 DEF InTick, Mid
  <2> QED
    BY <1>4, <2>1, <2>4 DEF At
<1> QED
  BY <1>5, <1>8, <1>9

\* The room of a socket is set, or given up, at the end of a tick.
LEMMA TickEnds ==
  ASSUME PageTypes, ServerTypes, TextsInv, [Next]_vars, NEW s \in Sockets, Resume(s),
         RoomInv(s), PathInv(s)
  PROVE  RoomInv(s)' /\ PathInv(s)' /\ UNCHANGED rooms /\ ~InTick(s)'
<1>1. PICK ctx \in Contexts(Len(up[s])) : Path(s, ctx)
  BY DEF PathInv, Contexts
<1>2. PICK h \in work[s] : JoinJoined(s, h) \/ LeaveDone(s, h)
  BY DEF Resume, RoomInv, JoinLeft
<1> DEFINE r == IF h.pc = "joining" THEN h.room ELSE None
<1>3. /\ up' = up /\ rooms' = rooms /\ UNCHANGED pageVars /\ h.pc \in {"joining", "left"}
      /\ room' = [room EXCEPT ![s] = r]
  <2>1. CASE JoinJoined(s, h)
    <3>1. h.pc = "joining"
      BY <2>1 DEF JoinJoined
    <3>2. room' = [room EXCEPT ![s] = h.room]
      BY <2>1 DEF JoinJoined
    <3>3. up' = up /\ rooms' = rooms /\ UNCHANGED pageVars
      BY <2>1 DEF JoinJoined
    <3> QED
      BY <3>1, <3>2, <3>3
  <2>2. CASE LeaveDone(s, h)
    <3>1. h.pc = "left"
      BY <2>2 DEF LeaveDone
    <3>2. room' = [room EXCEPT ![s] = None]
      BY <2>2 DEF LeaveDone
    <3>3. up' = up /\ rooms' = rooms /\ UNCHANGED pageVars
      BY <2>2 DEF LeaveDone
    <3> QED
      BY <3>1, <3>2, <3>3
  <2> QED
    BY <1>2, <2>1, <2>2
<1>4. \A g \in work'[s] : ~Mid(g)
  <2>1. \A g \in work[s] : Mid(g) => g = h
    BY <1>3 DEF RoomInv, Mid
  <2>2. work \in [Sockets -> SUBSET Handlers]
    BY DEF ServerTypes
  <2>3. \A g \in work'[s] : (g \in work[s] /\ g # h) \/ g.pc = "reading"
    BY <1>2, <2>2, HandlerShapes, HandlerSteps
  <2> QED
    BY <2>1, <2>3 DEF Mid
<1>5. room'[s] = r
  BY <1>3 DEF ServerTypes
<1>6. InTick(s) /\ ~InTick(s)'
  BY <1>3, <1>4 DEF InTick, Mid
<1>7. rooms[s] = {r} \ {None} /\ ctx[0] = r
  <2>1. At(s, ctx[0])
    BY <1>1 DEF Path
  <2>2. h.room # None
    BY HandlerSteps, ChatAssumption
  <2> QED
    BY <1>3, <2>1, <2>2 DEF RoomInv, At
<1> HIDE DEF r
<1>8. RoomInv(s)'
  BY <1>3, <1>4, <1>5, <1>7 DEF RoomInv, Mid
<1>9. At(s, ctx[0])'
  BY <1>4, <1>5, <1>7 DEF At, Mid
<1>10. Steps(s, up[s], ctx)'
  <2>1. Steps(s, up[s], ctx)
    BY <1>1 DEF Path
  <2> QED
    BY <1>3, <1>6, <2>1, QueueKept DEF Steps, Unmoved
<1>11. \A c \in online' : s = Socket(c)' => ctx[Len(up'[s])] = page'[c].story
  BY <1>1, <1>3 DEF Path, Socket, pageVars
<1>12. Path(s, ctx)'
  <2>1. Carries(up[s], ctx)'
    BY <1>1, <1>3 DEF Path, Carries
  <2> QED
    BY <1>9, <1>10, <1>11, <2>1 DEF Path
<1>13. ctx \in [0..Len(up'[s]) -> Stories \cup {None}]
  BY <1>1, <1>3 DEF Contexts
<1> QED
  BY <1>3, <1>6, <1>8, <1>12, <1>13 DEF PathInv

\* A page sends a packet to its socket.
LEMMA PathSent ==
  ASSUME PageTypes, ServerTypes, TextsInv, SocketInv, [Next]_vars, PageTypes', NEW c \in online,
         NEW p \in UpPackets, up' = [up EXCEPT ![Socket(c)] = Append(up[Socket(c)], p)],
         UNCHANGED <<online, opened, rooms, room, work>>, PathInv(Socket(c)),
         p.op = "join" => page[c].story = None /\ page'[c].story = p.room,
         p.op = "leave" => page'[c].story = None,
         p.op = "message" => /\ page'[c].story = page[c].story
                             /\ typed'[p.msg][2] = page[c].story
  PROVE  PathInv(Socket(c))'
<1>0. PICK s, q, n : s = Socket(c) /\ q = up[s] /\ n = Append(q, p)
  OBVIOUS
<1>1. s \in Sockets /\ s[1] = c /\ Socket(c)' = s
  BY <1>0, SocketOf DEF Socket
<1>2. PICK ctx \in Contexts(Len(q)) : Path(s, ctx)
  BY <1>0 DEF PathInv, Contexts
<1>3. /\ Len(q) \in Nat /\ Len(n) = Len(q) + 1 /\ n[Len(q) + 1] = p
      /\ \A i \in 1..Len(q) : n[i] = q[i]
      /\ up'[s] = n
  <2>1. q \in Seq(UpPackets)
    BY <1>0, <1>1 DEF ServerTypes
  <2>2. up'[s] = n
    BY <1>0, <1>1 DEF ServerTypes
  <2> QED
    BY <1>0, <2>1, <2>2, Appended, LenProperties
<1>4. PICK last : last = page'[c].story
  OBVIOUS
<1>5. PICK new : new = [i \in 0..Len(n) |-> IF i = Len(n) THEN last ELSE ctx[i]]
  OBVIOUS
<1>6. /\ new \in Contexts(Len(n)) /\ new[Len(n)] = last
      /\ \A i \in 0..Len(q) : new[i] = ctx[i]
  <2>1. last \in Stories \cup {None}
    BY <1>4 DEF PageTypes, Pages
  <2> QED
    BY <1>2, <1>3, <1>5, <2>1 DEF Contexts
<1>7. /\ At(s, ctx[0]) /\ Steps(s, q, ctx) /\ ctx[Len(q)] = page[c].story
      /\ Carries(q, ctx)
  BY <1>0, <1>2 DEF Path
<1>8. /\ InTick(s)' <=> InTick(s)
      /\ \A t : At(s, t) => At(s, t)'
  BY RoomKept
<1>9. At(s, new[0])'
  <2>1. new[0] = ctx[0]
    BY <1>3, <1>6
  <2> QED
    BY <1>7, <1>8, <2>1
<1>10. ASSUME NEW i \in 1..Len(n)
       PROVE  /\ n[i].op = "join" => new[i - 1] = None /\ new[i] = n[i].room
              /\ n[i].op = "leave" => new[i] = None
              /\ n[i].op = "message" =>
                    /\ new[i] = new[i - 1]
                    /\ new[i - 1] = typed'[n[i].msg][2] \/ Unmoved(s, new, i)'
  <2>1. CASE i = Len(n)
    <3>1. i - 1 = Len(q) /\ n[i] = p /\ i - 1 \in 0..Len(q)
      BY <1>3, <2>1
    <3>2. new[i - 1] = page[c].story /\ new[i] = page'[c].story
      BY <1>4, <1>6, <1>7, <2>1, <3>1
    <3> QED
      BY <3>1, <3>2
  <2>2. CASE i # Len(n)
    <3>1. i \in 1..Len(q) /\ i \in 0..Len(q) /\ i - 1 \in 0..Len(q)
      BY <1>3, <2>2
    <3>2. n[i] = q[i] /\ new[i - 1] = ctx[i - 1] /\ new[i] = ctx[i]
      BY <1>3, <1>6, <3>1
    <3>3. Unmoved(s, ctx, i) => Unmoved(s, new, i)'
      <4>1. \A j \in 0..(i - 1) : new[j] = ctx[j]
        BY <1>3, <1>6, <3>1
      <4> QED
        BY <1>8, <4>1 DEF Unmoved
    <3>4. q[i].op = "message" => typed'[q[i].msg] = typed[q[i].msg]
      BY <1>0, <1>1, <3>1, QueueKept
    <3> QED
      BY <1>7, <3>1, <3>2, <3>3, <3>4 DEF Steps
  <2> QED
    BY <2>1, <2>2
<1>11. Steps(s, up[s], new)'
  BY <1>3, <1>10 DEF Steps
<1>12. \A d \in online' : s = Socket(d)' => new[Len(up'[s])] = page'[d].story
  <2>1. \A d \in online' : s = Socket(d)' => d = c
    BY <1>1 DEF Socket
  <2> QED
    BY <1>3, <1>4, <1>6, <2>1
<1>13. Path(s, new)'
  <2>1. Carries(n, new)
    <3> SUFFICES ASSUME NEW i \in 0..Len(n), NEW j \in i..Len(n),
                        \A k \in (i + 1)..j : n[k].op # "join"
                 PROVE  new[j] \in {new[i], None}
      BY DEF Carries
    <3>1. CASE i = Len(n)
      BY <1>3, <3>1
    <3>2. CASE j <= Len(q)
      <4>1. i \in 0..Len(q) /\ j \in i..Len(q)
        BY <1>3, <3>2
      <4>2. \A k \in (i + 1)..j : q[k].op # "join"
        BY <1>3, <4>1
      <4>3. new[i] = ctx[i] /\ new[j] = ctx[j]
        BY <1>3, <1>6, <4>1
      <4> QED
        BY <1>7, <4>1, <4>2, <4>3 DEF Carries
    <3>3. CASE i # Len(n) /\ ~(j <= Len(q))
      <4>1. /\ i \in 0..Len(q) /\ j = Len(n) /\ Len(q) \in i..Len(q)
            /\ j \in (i + 1)..j
        BY <1>3, <3>3
      <4>2. n[Len(n)].op # "join" /\ \A k \in (i + 1)..Len(q) : q[k].op # "join"
        BY <1>3, <4>1
      <4>3. ctx[Len(q)] \in {ctx[i], None}
        BY <1>7, <4>1, <4>2 DEF Carries
      <4>4. last \in {ctx[Len(q)], None}
        BY <1>3, <1>4, <1>7, <4>2, UpFields
      <4> QED
        BY <1>6, <4>1, <4>3, <4>4
    <3> QED
      BY <1>3, <3>1, <3>2, <3>3
  <2>2. Carries(up[s], new)'
    <3>1. up'[s] = n
      BY <1>3
    <3> QED
      BY <2>1, <3>1 DEF Carries
  <2> QED
    BY <1>9, <1>11, <1>12, <2>2 DEF Path
<1>14. new \in [0..Len(up'[s]) -> Stories \cup {None}]
  BY <1>3, <1>6 DEF Contexts
<1>15. PathInv(s)'
  BY <1>13, <1>14 DEF PathInv
<1> QED
  BY <1>1, <1>15

\* A new socket gets what was kept, of which it makes nothing, and a join.
LEMMA PathNew ==
  ASSUME PageTypes, ServerTypes, TextsInv, SocketInv, [Next]_vars, NEW c \in Readers, Connect(c),
         NEW s, s = <<c, opened[c] + 1>>
  PROVE  s \in Sockets /\ s \notin live /\ RoomInv(s)' /\ PathInv(s)'
<1>1. s \in Sockets /\ s[1] = c /\ s[2] = opened[c] + 1 /\ opened[c] \in Nat
  BY ChatAssumption DEF Connect, PageTypes, Sockets
<1>2. s \notin live /\ room[s] = None /\ work[s] = {} /\ rooms[s] = {}
  BY <1>1 DEF SocketInv
<1>3. PICK story : story = page[c].story
  OBVIOUS
<1>4. PICK q, b, t : /\ b = buffer[c] /\ q = b \o t
                     /\ t = IF story # None THEN <<Join(story, page[c].visit)>> ELSE <<>>
  OBVIOUS
<1>5. /\ up'[s] = q /\ rooms'[s] = {} /\ room'[s] = None /\ work'[s] = {}
      /\ online' = online \cup {c} /\ opened' = [opened EXCEPT ![c] = opened[c] + 1]
      /\ page' = page
  BY <1>1, <1>2, <1>3, <1>4 DEF Connect, ServerTypes
<1>6. page[c] \in Pages /\ story \in Stories \cup {None}
  BY <1>3 DEF PageTypes, Pages
<1>7. /\ t \in Seq(UpPackets) /\ Len(t) = (IF story # None THEN 1 ELSE 0)
      /\ story # None => t[1].op = "join" /\ t[1].room = story
  <2>1. CASE story = None
    BY <1>4, <2>1, EmptySeq
  <2>2. CASE story # None
    <3>1. Join(story, page[c].visit) \in UpPackets
      BY <1>6, <2>2, PacketTypes DEF Pages
    <3>2. Join(story, page[c].visit).op = "join" /\ Join(story, page[c].visit).room = story
      BY DEF Join
    <3>3. t = <<Join(story, page[c].visit)>>
      BY <1>4, <2>2
    <3> QED
      BY <2>2, <3>1, <3>2, <3>3
  <2> QED
    BY <2>1, <2>2
<1>8. /\ b \in Seq(UpPackets) /\ Len(b) \in Nat /\ \A i \in 1..Len(b) : b[i].op # "join"
  <2>1. b \in Seq(UpPackets) /\ Len(b) \in Nat /\ DOMAIN b = 1..Len(b)
    BY <1>4, LenProperties DEF PageTypes
  <2> QED
    BY <1>4, <2>1 DEF TextsInv
<1>9. /\ Len(q) = Len(b) + Len(t)
      /\ \A i \in 1..Len(q) : q[i] = IF i <= Len(b) THEN b[i] ELSE t[i - Len(b)]
  <2>1. q = b \o t /\ b \in Seq(UpPackets) /\ t \in Seq(UpPackets)
    BY <1>4, <1>7, <1>8
  <2>2. /\ Len(b \o t) = Len(b) + Len(t)
        /\ \A i \in 1..(Len(b) + Len(t)) :
              (b \o t)[i] = IF i <= Len(b) THEN b[i] ELSE t[i - Len(b)]
    BY <2>1, ConcatProperties
  <2> QED
    BY <2>1, <2>2
<1>10. PICK ctx : ctx = [i \in 0..Len(q) |-> IF i = Len(q) THEN story ELSE None]
  OBVIOUS
<1>11. /\ ctx \in Contexts(Len(q)) /\ ctx[Len(q)] = story
       /\ \A i \in 0..Len(b) : ctx[i] = None
  <2>1. Len(q) \in Nat
    BY <1>7, <1>8, <1>9
  <2>2. \A i \in 0..Len(b) : i = Len(q) => story = None
    BY <1>7, <1>8, <1>9
  <2> QED
    BY <1>6, <1>7, <1>8, <1>9, <1>10, <2>1, <2>2 DEF Contexts
<1>12. ~InTick(s)'
  BY <1>5 DEF InTick
<1>13. RoomInv(s)'
  BY <1>5 DEF RoomInv
<1>14. At(s, ctx[0])'
  <2>1. ctx[0] = None
    BY <1>8, <1>11
  <2> QED
    BY <1>5, <2>1 DEF At
<1>15. ASSUME NEW i \in 1..Len(q)
       PROVE  /\ q[i].op = "join" => ctx[i - 1] = None /\ ctx[i] = q[i].room
              /\ q[i].op = "leave" => ctx[i] = None
              /\ q[i].op = "message" => ctx[i] = ctx[i - 1] /\ Unmoved(s, ctx, i)'
  <2>1. i - 1 \in 0..Len(b)
    BY <1>7, <1>8, <1>9
  <2>2. ctx[i - 1] = None
    BY <1>11, <2>1
  <2>3. Unmoved(s, ctx, i)'
    <3>1. \A j \in 0..(i - 1) : ctx[j] = None
      BY <1>8, <1>11, <2>1
    <3> QED
      BY <1>5, <1>12, <3>1 DEF Unmoved
  <2>4. CASE i <= Len(b)
    <3>1. i \in 0..Len(b) /\ i \in 1..Len(b)
      BY <1>8, <2>4
    <3>2. ctx[i] = None /\ q[i] = b[i] /\ b[i].op # "join"
      BY <1>8, <1>9, <1>11, <2>4, <3>1
    <3> QED
      BY <2>2, <2>3, <3>2
  <2>5. CASE ~(i <= Len(b))
    <3>1. i - Len(b) = 1 /\ i = Len(q) /\ story # None
      BY <1>7, <1>8, <1>9, <2>5
    <3>2. q[i] = t[1] /\ ctx[i] = story
      BY <1>9, <1>11, <2>5, <3>1
    <3> QED
      BY <1>7, <2>2, <3>1, <3>2
  <2> QED
    BY <2>4, <2>5
<1>16. Steps(s, up[s], ctx)'
  BY <1>5, <1>15 DEF Steps
<1>17. \A d \in online' : s = Socket(d)' => ctx[Len(up'[s])] = page'[d].story
  <2>1. \A d \in online' : s = Socket(d)' => d = c
    BY <1>1 DEF Socket
  <2> QED
    BY <1>3, <1>5, <1>11, <2>1
<1>18. Path(s, ctx)'
  <2>1. Carries(q, ctx)
    <3> SUFFICES ASSUME NEW i \in 0..Len(q), NEW j \in i..Len(q),
                        \A k \in (i + 1)..j : q[k].op # "join"
                 PROVE  ctx[j] \in {ctx[i], None}
      BY DEF Carries
    <3>1. CASE j <= Len(b)
      BY <1>8, <1>11, <3>1
    <3>2. CASE ~(j <= Len(b)) /\ i = j
      BY <3>2
    <3>3. CASE ~(j <= Len(b)) /\ i # j
      <4>1. j \in (i + 1)..j /\ j \in 1..Len(q) /\ j - Len(b) = 1 /\ story # None
        BY <1>7, <1>8, <1>9, <3>3
      <4>2. q[j] = t[1]
        BY <1>9, <3>3, <4>1
      <4> QED
        BY <1>7, <4>1, <4>2
    <3> QED
      BY <3>1, <3>2, <3>3
  <2>2. Carries(up[s], ctx)'
    BY <1>5, <2>1 DEF Carries
  <2> QED
    BY <1>14, <1>16, <1>17, <2>2 DEF Path
<1>19. ctx \in [0..Len(up'[s]) -> Stories \cup {None}]
  BY <1>5, <1>11 DEF Contexts
<1> QED
  BY <1>1, <1>2, <1>13, <1>18, <1>19 DEF PathInv

LEMMA ThreadInvStep ==
  ASSUME PageTypes, ServerTypes, DownTypes, SocketInv, TextsInv, ThreadInv, [Next]_vars
  PROVE  ThreadInv'
<1> SUFFICES ASSUME NEW s \in live', s[1] \notin crossed' PROVE RoomInv(s)' /\ PathInv(s)'
  BY DEF ThreadInv
<1>0. s[1] \notin crossed /\ s \in Sockets /\ PageTypes'
  BY CrossedGrows, RoomTypesStep, PageTypesStep
<1>1. s \in live => RoomInv(s) /\ PathInv(s)
  BY <1>0 DEF ThreadInv
\* Nothing that matters to s happens.
<1>2. ASSUME s \in live, up'[s] = up[s], rooms'[s] = rooms[s], room'[s] = room[s],
             \A h : Mid(h) => (h \in work'[s] <=> h \in work[s]),
             \A c \in online' : s = Socket(c)' =>
                 c \in online /\ s = Socket(c) /\ page'[c].story = page[c].story
      PROVE  RoomInv(s)' /\ PathInv(s)'
  BY <1>0, <1>1, <1>2, RoomKept, PathKept
<1>3. ASSUME NEW t \in Sockets, Start(t) \/ (Resume(t) /\ InTick(t)) PROVE RoomInv(s)' /\ PathInv(s)'
  <2>1. live' = live /\ UNCHANGED pageVars
    BY <1>3, Elsewhere
  <2>2. CASE t # s
    <3>1. up'[s] = up[s] /\ rooms'[s] = rooms[s] /\ room'[s] = room[s] /\ work'[s] = work[s]
      BY <1>0, <1>3, <2>2, Elsewhere
    <3>2. \A c \in online' : s = Socket(c)' =>
              c \in online /\ s = Socket(c) /\ page'[c].story = page[c].story
      BY <2>1 DEF pageVars, Socket
    <3> QED
      BY <1>2, <2>1, <3>1, <3>2
  <2>3. CASE t = s /\ Start(s)
    BY <1>0, <1>1, <2>1, <2>3, JoinComes, LeaveComes, MessageComes DEF Start
  <2>4. CASE t = s /\ Resume(s)
    BY <1>0, <1>1, <2>1, <2>4, TickEnds
  <2> QED
    BY <1>3, <2>2, <2>3, <2>4
<1>4. ASSUME NEW t \in Sockets, QueryStep(t), Calm PROVE RoomInv(s)' /\ PathInv(s)'
  <2>1. live' = live /\ UNCHANGED pageVars /\ UNCHANGED <<up, rooms, room>>
    BY <1>4, Elsewhere, AtWork DEF roomVars
  <2>2. ~InTick(s) /\ ~InTick(s)'
    <3>1. t # s => work'[s] = work[s]
      BY <1>0, <1>4, Elsewhere
    <3>2. t = s => ~InTick(s)'
      BY <1>4, AtWork DEF Calm
    <3> QED
      BY <1>0, <1>4, <3>1, <3>2 DEF Calm, InTick
  <2>3. \A h : Mid(h) => (h \in work'[s] <=> h \in work[s])
    BY <2>2 DEF InTick, Mid
  <2>4. \A c \in online' : s = Socket(c)' =>
            c \in online /\ s = Socket(c) /\ page'[c].story = page[c].story
    BY <2>1 DEF pageVars, Socket
  <2> QED
    BY <1>2, <2>1, <2>3, <2>4
<1>5. ASSUME NEW c \in Readers, PageStep(c) PROVE RoomInv(s)' /\ PathInv(s)'
  <2>0. UNCHANGED <<rooms, room, work>>
    BY <1>5, PageShapes
  \* A packet is sent, or kept.
  <2>1. ASSUME NEW p \in UpPackets, Emit(c, p), UNCHANGED <<online, opened, live>>,
               \A d \in Readers : d # c => page'[d].story = page[d].story,
               p.op = "join" => page[c].story = None /\ page'[c].story = p.room,
               p.op = "leave" => page'[c].story = None,
               p.op = "message" => /\ page'[c].story = page[c].story
                                   /\ typed'[p.msg][2] = page[c].story
        PROVE  RoomInv(s)' /\ PathInv(s)'
    <3>1. CASE c \in online /\ s = Socket(c)
      <4>1. up' = [up EXCEPT ![Socket(c)] = Append(up[Socket(c)], p)]
        BY <2>1, <3>1 DEF Emit
      <4>2. PathInv(Socket(c)) /\ RoomInv(s)
        BY <1>1, <2>1, <3>1
      <4>3. PathInv(Socket(c))'
        BY <1>0, <2>0, <2>1, <3>1, <4>1, <4>2, PathSent
      <4>4. Socket(c)' = s
        BY <2>1, <3>1 DEF Socket
      <4>5. RoomInv(s)'
        BY <2>0, <4>2, RoomKept
      <4> QED
        BY <4>3, <4>4, <4>5
    <3>2. CASE ~(c \in online /\ s = Socket(c))
      <4>1. up'[s] = up[s]
        BY <1>0, <2>1, <3>2 DEF Emit, ServerTypes
      <4>2. \A d \in online' : s = Socket(d)' =>
                d \in online /\ s = Socket(d) /\ page'[d].story = page[d].story
        BY <2>1, <3>2 DEF Socket, PageTypes
      <4> QED
        BY <1>2, <2>0, <2>1, <4>1, <4>2
    <3> QED
      BY <3>1, <3>2
  <2>2. CASE Close(c)
    <3>1. /\ Emit(c, Leave) /\ UNCHANGED <<online, opened, live>> /\ Leave \in UpPackets
          /\ Leave.op = "leave"
      BY <2>2, PacketTypes DEF Close, Leave, roomVars
    <3>2. page'[c].story = None /\ \A d \in Readers : d # c => page'[d].story = page[d].story
      BY <2>2 DEF Close, PageTypes, Pages
    <3> QED
      BY <2>1, <3>1, <3>2
  <2>3. CASE Connect(c)
    <3>1. PICK t : t = <<c, opened[c] + 1>>
      OBVIOUS
    <3>2. t \in Sockets /\ t \notin live /\ RoomInv(t)' /\ PathInv(t)' /\ live' = live \cup {t}
      BY <2>3, <3>1, PathNew DEF Connect
    <3>3. CASE s # t
      <4>1. s \in live /\ up'[s] = up[s]
        BY <1>0, <2>3, <3>1, <3>2, <3>3 DEF Connect, ServerTypes
      <4>2. \A d \in online' : s = Socket(d)' =>
                d \in online /\ s = Socket(d) /\ page'[d].story = page[d].story
        <5>1. /\ online' = online \cup {c} /\ page' = page
              /\ \A d \in Readers : opened'[d] = IF d = c THEN opened[c] + 1 ELSE opened[d]
          BY <2>3 DEF Connect, PageTypes
        <5> QED
          BY <3>1, <3>3, <5>1 DEF Socket, PageTypes
      <4> QED
        BY <1>2, <2>0, <4>1, <4>2
    <3> QED
      BY <3>2, <3>3
  <2>4. CASE Drop(c) \/ Deliver(c)
    <3>1. live' = live /\ up' = up /\ opened' = opened /\ online' \subseteq online
      BY <2>4 DEF Drop, Deliver, roomVars
    <3>2. \A d \in Readers : page'[d].story = page[d].story
      BY <2>4, DeliverTypes DEF Drop
    <3>3. \A d \in online' : s = Socket(d)' =>
              d \in online /\ s = Socket(d) /\ page'[d].story = page[d].story
      BY <3>1, <3>2 DEF Socket, PageTypes
    <3> QED
      BY <1>2, <2>0, <3>1, <3>3
  <2>5. ASSUME NEW r \in Stories, Open(c, r) PROVE RoomInv(s)' /\ PathInv(s)'
    <3>1. page[c].visit + 1 \in Nat
      BY DEF PageTypes, Pages
    <3>2. PICK p : p = Join(r, page[c].visit + 1)
      OBVIOUS
    <3>3. p \in UpPackets /\ p.op = "join" /\ p.room = r
      BY <3>1, <3>2, PacketTypes DEF Join
    <3>4. /\ UNCHANGED <<online, opened, live>> /\ page[c].story = None
          /\ \A d \in Readers : d # c => page'[d].story = page[d].story
          /\ page'[c].story = r
      BY <2>5 DEF Open, roomVars, PageTypes
    <3>5. CASE c \in online
      <4>1. Emit(c, p)
        BY <2>5, <3>2, <3>5 DEF Open
      <4> QED
        BY <2>1, <3>3, <3>4, <4>1
    <3>6. CASE c \notin online
      <4>1. up' = up
        BY <2>5, <3>6 DEF Open
      <4>2. \A d \in online' : s = Socket(d)' =>
                d \in online /\ s = Socket(d) /\ page'[d].story = page[d].story
        BY <3>4, <3>6 DEF Socket, PageTypes
      <4> QED
        BY <1>2, <2>0, <3>4, <4>1, <4>2
    <3> QED
      BY <3>5, <3>6
  <2>6. ASSUME NEW m \in Messages, Type(c, m) PROVE RoomInv(s)' /\ PathInv(s)'
    <3>1. PICK p : p = Message(m)
      OBVIOUS
    <3>2. p \in UpPackets /\ p.op = "message" /\ p.msg = m
      BY <3>1, PacketTypes DEF Message
    <3>3. Emit(c, p) /\ UNCHANGED <<online, opened, live>> /\ page' = page
      BY <2>6, <3>1 DEF Type, roomVars
    <3>4. typed'[m][2] = page[c].story
      BY <2>6 DEF Type, PageTypes
    <3> QED
      BY <2>1, <3>2, <3>3, <3>4
  <2> QED
    BY <1>5, <2>2, <2>3, <2>4, <2>5, <2>6 DEF PageStep
<1>6. ASSUME NEW t \in Sockets, Disconnect(t) PROVE RoomInv(s)' /\ PathInv(s)'
  <2>1. /\ live' = live \ {t} /\ UNCHANGED <<pageVars, room, work>>
        /\ rooms' = [rooms EXCEPT ![t] = {}] /\ up' = [up EXCEPT ![t] = <<>>]
    BY <1>6 DEF Disconnect
  <2>2. s \in live /\ up'[s] = up[s] /\ rooms'[s] = rooms[s]
    BY <1>0, <2>1 DEF ServerTypes
  <2>3. \A c \in online' : s = Socket(c)' =>
            c \in online /\ s = Socket(c) /\ page'[c].story = page[c].story
    BY <2>1 DEF pageVars, Socket
  <2> QED
    BY <1>2, <2>1, <2>2, <2>3
<1>7. CASE PostStep \/ UNCHANGED vars
  <2>1. UNCHANGED <<pageVars, up, roomVars, work>>
    BY <1>7 DEF PostStep, Create, Publish, CreateFailed, vars
  <2>2. \A c \in online' : s = Socket(c)' =>
            c \in online /\ s = Socket(c) /\ page'[c].story = page[c].story
    BY <2>1 DEF pageVars, Socket
  <2> QED
    BY <1>2, <2>1, <2>2 DEF roomVars
<1>8. CASE Restart
  BY <1>8 DEF Restart
<1> QED
  BY <1>3, <1>4, <1>5, <1>6, <1>7, <1>8, StepCases

-------------------------------------------------------------------------------
(* Where texts end up *)

LEMMA HomeStays ==
  ASSUME PageTypes, [Next]_vars, NEW m \in Messages, NEW r, HomeOf(m, r) PROVE HomeOf(m, r)'
BY TypedStays, CrossedGrows DEF HomeOf

LEMMA PlacesInvStep ==
  ASSUME PageTypes, ServerTypes, TextsInv, ThreadInv, PlacesInv, [Next]_vars PROVE PlacesInv'
<1>1. \A p \in posts : p.msg \in Messages /\ p.room \in Stories /\ HomeOf(p.msg, p.room)
  BY DEF PlacesInv, ServerTypes, Posts
<1>2. \A r \in Stories : /\ thread[r] \in Seq(Messages) /\ Len(thread[r]) \in Nat
                         /\ DOMAIN thread[r] = 1..Len(thread[r])
                         /\ \A i \in 1..Len(thread[r]) :
                               thread[r][i] \in Messages /\ HomeOf(thread[r][i], r)
  <2> SUFFICES ASSUME NEW r \in Stories
               PROVE  /\ thread[r] \in Seq(Messages) /\ Len(thread[r]) \in Nat
                      /\ DOMAIN thread[r] = 1..Len(thread[r])
                      /\ \A i \in 1..Len(thread[r]) :
                            thread[r][i] \in Messages /\ HomeOf(thread[r][i], r)
    OBVIOUS
  <2>1. /\ thread[r] \in Seq(Messages) /\ Len(thread[r]) \in Nat
        /\ DOMAIN thread[r] = 1..Len(thread[r])
    BY LenProperties DEF ServerTypes
  <2> QED
    BY <2>1, ElementOfSeq DEF PlacesInv
<1>3. ASSUME NEW m \in Messages, NEW r \in Stories, HomeOf(m, r)
      PROVE  /\ typed'[m] \in Readers \X Stories
             /\ typed'[m][1] \in crossed' \/ typed'[m][2] = r
  BY <1>3, HomeStays DEF HomeOf
<1> DEFINE Home(m, r) == /\ typed'[m] \in Readers \X Stories
                         /\ typed'[m][1] \in crossed' \/ typed'[m][2] = r
<1>4. ASSUME \A p \in posts' : Home(p.msg, p.room),
             \A r \in Stories : \A i \in DOMAIN thread'[r] : Home(thread'[r][i], r)
      PROVE  PlacesInv'
  BY <1>4 DEF PlacesInv, HomeOf
<1>5. ASSUME posts' \subseteq posts PROVE \A p \in posts' : Home(p.msg, p.room)
  BY <1>1, <1>3, <1>5
<1>6. ASSUME thread' = thread
      PROVE  \A r \in Stories : \A i \in DOMAIN thread'[r] : Home(thread'[r][i], r)
  BY <1>2, <1>3, <1>6
<1>7. ASSUME NEW s \in Sockets, Start(s) PROVE PlacesInv'
  <2>1. thread' = thread
    BY <1>7 DEF Start, OnJoin, OnLeave, OnMessage, tableVars
  <2>2. CASE OnMessage(s)
    <3>1. PICK m, q : m = Head(up[s]).msg /\ q = [room |-> room[s], msg |-> m, pc |-> "creating"]
      OBVIOUS
    <3>2. posts' = posts \/ (room[s] # None /\ posts' = posts \cup {q})
      BY <2>2, <3>1 DEF OnMessage, Receive
    <3>3. ASSUME room[s] # None PROVE Home(m, room[s])
      <4>1. /\ up[s] # <<>> /\ up[s] \in Seq(UpPackets) /\ s \in live
            /\ Head(up[s]).op = "message"
        BY <2>2, Received DEF OnMessage
      <4>2. Head(up[s]) = up[s][1] /\ 1 \in DOMAIN up[s]
        BY <4>1, Popped
      <4>3. typed[m] \in Readers \X Stories /\ typed[m][1] = s[1] /\ m \in Messages
        <5>1. Head(up[s]) \in UpPackets
          BY <4>1, Popped
        <5>2. KnownText(typed, s[1], up[s][1])
          BY <4>2 DEF TextsInv
        <5> QED
          BY <3>1, <4>1, <4>2, <5>1, <5>2, UpFields DEF KnownText
      <4>4. typed'[m] = typed[m]
        BY <4>3, TypedStays
      <4>5. CASE s[1] \in crossed
        BY <4>3, <4>4, <4>5, CrossedGrows
      <4>6. CASE s[1] \notin crossed
        <5>1. RoomInv(s) /\ PathInv(s)
          BY <4>1, <4>6 DEF ThreadInv
        <5>2. typed[m][2] = room[s]
          BY <2>2, <3>1, <3>3, <5>1, MessageComes
        <5> QED
          BY <4>3, <4>4, <5>2
      <4> QED
        BY <4>5, <4>6
    <3>4. \A p \in posts' : Home(p.msg, p.room)
      <4>1. q.msg = m /\ q.room = room[s]
        BY <3>1
      <4>2. \A p \in posts : Home(p.msg, p.room)
        BY <1>1, <1>3
      <4> HIDE DEF Home
      <4> QED
        BY <3>2, <3>3, <4>1, <4>2
    <3> QED
      BY <1>4, <1>6, <2>1, <3>4
  <2>3. CASE OnJoin(s) \/ OnLeave(s)
    <3>1. posts' = posts
      BY <2>3 DEF OnJoin, OnLeave, tableVars
    <3> QED
      BY <1>4, <1>5, <1>6, <2>1, <3>1
  <2> QED
    BY <1>7, <2>2, <2>3 DEF Start
<1>8. ASSUME NEW p \in posts, Create(p) PROVE PlacesInv'
  <2>1. PICK q : q = [p EXCEPT !.pc = "created"]
    OBVIOUS
  <2>2. p \in Posts /\ Home(p.msg, p.room)
    BY <1>1, <1>3 DEF ServerTypes
  <2>3. q.msg = p.msg /\ q.room = p.room /\ posts' = (posts \ {p}) \cup {q}
    BY <1>8, <2>1, <2>2 DEF Create, Posts
  <2>4. \A o \in posts' : Home(o.msg, o.room)
    <3>1. \A o \in posts : Home(o.msg, o.room)
      BY <1>1, <1>3
    <3> HIDE DEF Home
    <3> QED
      BY <2>2, <2>3, <3>1
  <2>5. PICK n : n = Append(thread[p.room], p.msg)
    OBVIOUS
  <2>6. thread' = [thread EXCEPT ![p.room] = n] /\ p.room \in Stories /\ p.msg \in Messages
    BY <1>1, <1>8, <2>5 DEF Create
  <2>7. \A i \in DOMAIN n : Home(n[i], p.room)
    <3>1. /\ DOMAIN n = 1..(Len(thread[p.room]) + 1) /\ Len(thread[p.room]) \in Nat
          /\ n[Len(thread[p.room]) + 1] = p.msg
          /\ \A i \in 1..Len(thread[p.room]) : n[i] = thread[p.room][i]
      BY <1>2, <2>5, <2>6, Appended
    <3>2. \A i \in 1..Len(thread[p.room]) : Home(thread[p.room][i], p.room)
      BY <1>2, <1>3, <2>6
    <3> HIDE DEF Home
    <3> QED
      BY <2>2, <3>1, <3>2
  <2>8. \A r \in Stories : thread'[r] = IF r = p.room THEN n ELSE thread[r]
    BY <2>6 DEF ServerTypes
  <2>9. \A r \in Stories : \A i \in DOMAIN thread[r] : Home(thread[r][i], r)
    BY <1>2, <1>3
  <2>10. \A r \in Stories : \A i \in DOMAIN thread'[r] : Home(thread'[r][i], r)
    <3> HIDE DEF Home
    <3> QED
      BY <2>7, <2>8, <2>9
  <2> QED
    BY <1>4, <2>4, <2>10
<1>9. ASSUME posts' \subseteq posts, thread' = thread PROVE PlacesInv'
  BY <1>4, <1>5, <1>6, <1>9
<1>10. CASE PostStep
  BY <1>8, <1>9, <1>10 DEF PostStep, Publish, CreateFailed
<1>11. CASE \E s \in Sockets : Resume(s) \/ QueryStep(s) \/ Disconnect(s)
  <2>1. UNCHANGED tableVars
    BY <1>11 DEF Resume, QueryStep, JoinLeft, JoinJoined, LeaveDone, JoinRead, JoinAnswered,
                 JoinFailed, Disconnect
  <2> QED
    BY <1>9, <2>1 DEF tableVars
<1>12. CASE \E c \in Readers : PageStep(c)
  <2>1. UNCHANGED tableVars
    BY <1>12 DEF PageStep, Close, Connect, Drop, Deliver, Open, Type
  <2> QED
    BY <1>9, <2>1 DEF tableVars
<1>13. CASE Restart
  BY <1>9, <1>13 DEF Restart
<1>14. CASE UNCHANGED vars
  BY <1>9, <1>14 DEF vars, tableVars
<1> QED
  BY <1>7, <1>10, <1>11, <1>12, <1>13, <1>14, StepCases

-------------------------------------------------------------------------------
(* Visits *)

LEMMA VisitedStays ==
  ASSUME PageTypes, DownTypes, SocketInv, [Next]_vars,
         NEW s \in Sockets, NEW v \in Nat, NEW r, Visited(s, v, r)
  PROVE  Visited(s, v, r)'
<1>0. s[1] \in Readers /\ page[s[1]].visit \in Nat
  BY DEF Sockets, PageTypes, Pages
<1>1. ASSUME page'[s[1]].visit = page[s[1]].visit,
             page'[s[1]].story = page[s[1]].story \/ page'[s[1]].story = None
      PROVE  Visited(s, v, r)'
  BY <1>1 DEF Visited
<1>2. ASSUME NEW c \in Readers, PageStep(c) PROVE Visited(s, v, r)'
  <2>1. CASE Close(c)
    <3>1. \A d \in Readers : /\ page'[d].visit = page[d].visit
                             /\ page'[d].story = page[d].story \/ page'[d].story = None
      BY <2>1 DEF Close, PageTypes, Pages
    <3> QED
      BY <1>0, <1>1, <3>1
  <2>2. CASE Connect(c) \/ Drop(c) \/ \E m \in Messages : Type(c, m)
    BY <1>1, <2>2 DEF Connect, Drop, Type
  <2>3. CASE Deliver(c)
    BY <1>0, <1>1, <2>3, DeliverTypes
  <2>4. ASSUME NEW q \in Stories, Open(c, q) PROVE Visited(s, v, r)'
    <3>1. page' = [page EXCEPT ![c] =
              [story |-> q, visit |-> page[c].visit + 1, shown |-> <<>>, told |-> None]]
      BY <2>4 DEF Open
    <3>2. CASE c = s[1]
      <4>1. page'[s[1]].visit = page[s[1]].visit + 1
        BY <1>0, <3>1, <3>2 DEF PageTypes
      <4> QED
        BY <1>0, <4>1 DEF Visited
    <3>3. CASE c # s[1]
      <4>1. page'[s[1]] = page[s[1]]
        BY <1>0, <3>1, <3>3 DEF PageTypes
      <4> QED
        BY <1>1, <4>1
    <3> QED
      BY <3>2, <3>3
  <2> QED
    BY <1>2, <2>1, <2>2, <2>3, <2>4 DEF PageStep
<1>3. CASE UNCHANGED pageVars
  BY <1>1, <1>3 DEF pageVars
<1>4. CASE Restart
  BY <1>1, <1>4 DEF Restart
<1> QED
  BY <1>2, <1>3, <1>4, StepCases, ServerStep DEF vars

\* What is on the way was on the way, was kept, or is a packet of the page.
LEMMA UpShapes ==
  ASSUME PageTypes, ServerTypes, SocketInv, TextsInv, [Next]_vars, NEW s \in Sockets,
         NEW i \in DOMAIN up'[s], up'[s][i].op = "join"
  PROVE  \/ \E j \in DOMAIN up[s] : up'[s][i] = up[s][j]
         \/ up'[s][i].visit = page'[s[1]].visit /\ up'[s][i].room = page'[s[1]].story
<1> DEFINE G == \/ \E j \in DOMAIN up[s] : up'[s][i] = up[s][j]
                \/ up'[s][i].visit = page'[s[1]].visit /\ up'[s][i].room = page'[s[1]].story
<1>0. up \in [Sockets -> Seq(UpPackets)] /\ up[s] \in Seq(UpPackets)
  BY DEF ServerTypes
<1>1. CASE up'[s] = up[s]
  BY <1>1
<1>2. ASSUME NEW t \in Sockets, Start(t) PROVE G
  <2>1. up' = [up EXCEPT ![t] = Tail(up[t])] /\ up[t] # <<>>
    BY <1>2, Received DEF Start, OnJoin, OnLeave, OnMessage
  <2>2. CASE t = s
    <3>1. up'[s] = Tail(up[s]) /\ up[s] # <<>>
      BY <1>0, <2>1, <2>2
    <3>2. /\ DOMAIN up[s] = 1..Len(up[s]) /\ DOMAIN Tail(up[s]) = 1..(Len(up[s]) - 1)
          /\ \A k \in 1..(Len(up[s]) - 1) : Tail(up[s])[k] = up[s][k + 1] /\ k + 1 \in 1..Len(up[s])
      BY <1>0, <3>1, Popped
    <3>3. up'[s][i] = up[s][i + 1] /\ i + 1 \in DOMAIN up[s]
      BY <3>1, <3>2
    <3> QED
      BY <3>3
  <2> QED
    BY <1>0, <1>1, <2>1, <2>2
<1>3. ASSUME NEW t \in Sockets, Resume(t) \/ QueryStep(t) PROVE G
  BY <1>1, <1>3 DEF Resume, QueryStep, JoinLeft, JoinJoined, LeaveDone, JoinRead, JoinAnswered,
                    JoinFailed
<1>4. ASSUME NEW c \in Readers, NEW p \in UpPackets, Emit(c, p),
             p.op = "join" => p.visit = page'[c].visit /\ p.room = page'[c].story
      PROVE  G
  <2>1. CASE c \in online /\ s = Socket(c)
    <3>1. up'[s] = Append(up[s], p) /\ s[1] = c
      BY <1>0, <1>4, <2>1, SocketOf DEF Emit
    <3>2. /\ DOMAIN up'[s] = 1..(Len(up[s]) + 1) /\ up'[s][Len(up[s]) + 1] = p
          /\ Len(up[s]) \in Nat /\ DOMAIN up[s] = 1..Len(up[s])
          /\ \A j \in 1..Len(up[s]) : up'[s][j] = up[s][j]
      BY <1>0, <3>1, Appended, LenProperties
    <3>3. CASE i = Len(up[s]) + 1
      BY <1>4, <3>1, <3>2, <3>3
    <3>4. CASE i \in 1..Len(up[s])
      BY <3>2, <3>4
    <3> QED
      BY <3>2, <3>3, <3>4
  <2>2. CASE ~(c \in online /\ s = Socket(c))
    BY <1>0, <1>1, <1>4, <2>2 DEF Emit
  <2> QED
    BY <2>1, <2>2
<1>5. ASSUME NEW c \in Readers, PageStep(c) PROVE G
  <2>1. CASE Close(c)
    <3>1. Emit(c, Leave) /\ Leave \in UpPackets /\ Leave.op # "join"
      BY <2>1, PacketTypes DEF Close, Leave
    <3> QED
      BY <1>4, <3>1
  <2>2. CASE Connect(c)
    <3>1. PICK new, b, t : /\ new = <<c, opened[c] + 1>> /\ b = buffer[c]
                           /\ t = IF page[c].story # None
                                  THEN <<Join(page[c].story, page[c].visit)>> ELSE <<>>
      OBVIOUS
    <3>2. up' = [up EXCEPT ![new] = b \o t] /\ page' = page
      BY <2>2, <3>1 DEF Connect
    <3>3. /\ t \in Seq(UpPackets)
          /\ \A k \in 1..Len(t) : t[k].visit = page[c].visit /\ t[k].room = page[c].story
      <4>1. CASE page[c].story = None
        <5>1. t = <<>>
          BY <3>1, <4>1
        <5> QED
          BY <5>1, EmptySeq
      <4>2. CASE page[c].story # None
        <5>1. PICK p : p = Join(page[c].story, page[c].visit)
          OBVIOUS
        <5>2. page[c] \in Pages
          BY DEF PageTypes
        <5>3. p \in UpPackets /\ p.room = page[c].story /\ p.visit = page[c].visit
          BY <4>2, <5>1, <5>2, PacketTypes DEF Pages, Join
        <5>4. t = <<p>>
          BY <3>1, <4>2, <5>1
        <5> QED
          BY <5>3, <5>4
      <4> QED
        BY <4>1, <4>2
    <3>4. /\ b \in Seq(UpPackets) /\ Len(b) \in Nat
          /\ \A k \in 1..Len(b) : b[k].op # "join"
      <4>1. b \in Seq(UpPackets) /\ Len(b) \in Nat /\ DOMAIN b = 1..Len(b)
        BY <3>1, LenProperties DEF PageTypes
      <4> QED
        BY <3>1, <4>1 DEF TextsInv
    <3>5. /\ b \o t \in Seq(UpPackets) /\ Len(b \o t) = Len(b) + Len(t)
          /\ \A k \in 1..(Len(b) + Len(t)) : (b \o t)[k] = IF k <= Len(b) THEN b[k] ELSE t[k - Len(b)]
      BY <3>3, <3>4, ConcatProperties
    <3>6. DOMAIN (b \o t) = 1..(Len(b) + Len(t)) /\ Len(t) \in Nat
      BY <3>3, <3>5, LenProperties
    <3>7. CASE s = new
      <4>1. up'[s] = b \o t /\ s[1] = c
        BY <1>0, <3>1, <3>2, <3>7
      <4>2. i \in 1..(Len(b) + Len(t))
        BY <3>6, <4>1
      <4>3. ~(i <= Len(b))
        BY <3>4, <3>5, <4>1, <4>2
      <4>4. up'[s][i] = t[i - Len(b)] /\ i - Len(b) \in 1..Len(t)
        BY <3>4, <3>5, <3>6, <4>1, <4>2, <4>3
      <4> QED
        BY <3>2, <3>3, <4>1, <4>4
    <3>8. CASE s # new
      BY <1>0, <1>1, <3>2, <3>8
    <3> QED
      BY <3>7, <3>8
  <2>3. CASE Drop(c) \/ Deliver(c)
    BY <1>1, <2>3 DEF Drop, Deliver
  <2>4. ASSUME NEW r \in Stories, Open(c, r) PROVE G
    <3>1. PICK v : v = page[c].visit + 1
      OBVIOUS
    <3>2. v \in Nat
      BY <3>1 DEF PageTypes, Pages
    <3>3. page'[c].story = r /\ page'[c].visit = v
      BY <2>4, <3>1 DEF Open, PageTypes
    <3>4. Join(r, v) \in UpPackets /\ Join(r, v).room = r /\ Join(r, v).visit = v
      BY <3>2, PacketTypes DEF Join
    <3>5. Emit(c, Join(r, v)) \/ up' = up
      BY <2>4, <3>1 DEF Open
    <3> QED
      BY <1>1, <1>4, <3>3, <3>4, <3>5
  <2>5. ASSUME NEW m \in Messages, Type(c, m) PROVE G
    <3>1. Emit(c, Message(m)) /\ Message(m) \in UpPackets /\ Message(m).op # "join"
      BY <2>5, PacketTypes DEF Type, Message
    <3> QED
      BY <1>4, <3>1
  <2> QED
    BY <1>5, <2>1, <2>2, <2>3, <2>4, <2>5 DEF PageStep
<1>6. ASSUME NEW t \in Sockets, Disconnect(t) PROVE G
  <2>1. up'[s] = up[s] \/ up'[s] = <<>>
    BY <1>0, <1>6 DEF Disconnect
  <2>2. DOMAIN <<>> = {}
    OBVIOUS
  <2> QED
    BY <1>1, <2>1, <2>2
<1>7. CASE PostStep
  BY <1>1, <1>7 DEF PostStep, Create, Publish, CreateFailed
<1>8. CASE Restart
  <2>1. up'[s] = <<>>
    BY <1>8 DEF Restart
  <2>2. DOMAIN <<>> = {}
    OBVIOUS
  <2> QED
    BY <2>1, <2>2
<1>9. CASE UNCHANGED vars
  BY <1>1, <1>9 DEF vars
<1> QED
  BY <1>2, <1>3, <1>5, <1>6, <1>7, <1>8, <1>9, StepCases

LEMMA VisitInvStep ==
  ASSUME PageTypes, ServerTypes, DownTypes, SocketInv, TextsInv, VisitInv, [Next]_vars,
         PageTypes', ServerTypes'
  PROVE  VisitInv'
<1>1. ASSUME NEW s \in Sockets, NEW i \in DOMAIN up'[s], up'[s][i].op = "join"
      PROVE  Visited(s, up[s][i].visit, up[s][i].room)'
  <2>1. PICK v, r : v = up'[s][i].visit /\ r = up'[s][i].room
    OBVIOUS
  <2>2. ASSUME NEW j \in DOMAIN up[s], up'[s][i] = up[s][j] PROVE Visited(s, v, r)'
    <3>1. up[s][j] \in UpPackets
      <4>1. up[s] \in Seq(UpPackets) /\ DOMAIN up[s] = 1..Len(up[s])
        BY LenProperties DEF ServerTypes
      <4> QED
        BY <4>1, ElementOfSeq
    <3>2. v \in Nat
      BY <1>1, <2>1, <2>2, <3>1, UpFields
    <3>3. Visited(s, v, r)
      BY <1>1, <2>1, <2>2 DEF VisitInv
    <3> QED
      BY <3>2, <3>3, VisitedStays
  <2>3. ASSUME v = page'[s[1]].visit, r = page'[s[1]].story PROVE Visited(s, v, r)'
    <3>1. page'[s[1]].visit \in Nat
      BY DEF PageTypes, Pages, Sockets
    <3> QED
      BY <2>3, <3>1 DEF Visited
  <2>4. Visited(s, v, r)'
    BY <1>1, <2>1, <2>2, <2>3, UpShapes
  <2> QED
    BY <2>1, <2>4 DEF Visited
<1>2. ASSUME NEW s \in Sockets, NEW g \in work'[s], g.pc # "left" PROVE Visited(s, g.visit, g.room)'
  <2>1. ASSUME NEW h \in work[s], h.pc # "left", g.visit = h.visit, g.room = h.room
        PROVE  Visited(s, g.visit, g.room)'
    <3>1. h.visit \in Nat /\ Visited(s, h.visit, h.room)
      BY <2>1 DEF VisitInv, ServerTypes, Handlers
    <3> QED
      BY <2>1, <3>1, VisitedStays
  <2>2. CASE g \in work[s]
    BY <1>2, <2>1, <2>2
  <2>3. CASE OnJoin(s) /\ g = JoinHandler(s)
    <3>1. /\ up[s] # <<>> /\ up[s] \in Seq(UpPackets) /\ Head(up[s]).op = "join"
      BY <2>3, Received DEF OnJoin
    <3>2. Head(up[s]) = up[s][1] /\ 1 \in DOMAIN up[s] /\ Head(up[s]) \in UpPackets
      BY <3>1, Popped
    <3>3. PICK v, r : v = up[s][1].visit /\ r = up[s][1].room
      OBVIOUS
    <3>4. v \in Nat /\ Visited(s, v, r)
      BY <3>1, <3>2, <3>3, UpFields DEF VisitInv
    <3>5. g.visit = v /\ g.room = r
      BY <2>3, <3>2, <3>3 DEF JoinHandler
    <3> QED
      BY <3>4, <3>5, VisitedStays
  <2>4. CASE OnLeave(s) /\ g = LeaveHandler(s)
    BY <1>2, <2>4 DEF LeaveHandler
  <2>5. ASSUME NEW h \in work[s], \/ JoinLeft(s, h) /\ g = JoiningOf(h)
                                  \/ JoinJoined(s, h) /\ g = ReadingOf(h)
                                  \/ JoinRead(s, h) /\ g = ReadOf(h)
        PROVE  Visited(s, g.visit, g.room)'
    <3>1. h.pc # "left"
      BY <2>5 DEF JoinLeft, JoinJoined, JoinRead
    <3>2. g.visit = h.visit /\ g.room = h.room
      <4>1. h \in Handlers
        BY HandlerSteps
      <4> QED
        BY <2>5, <4>1 DEF Handlers, JoiningOf, ReadingOf, ReadOf
    <3> QED
      BY <2>1, <3>1, <3>2
  <2> QED
    BY <2>2, <2>3, <2>4, <2>5, WhoWorks
<1>3. \A s \in Sockets : \A i \in DOMAIN up'[s] : up'[s][i].op = "join" =>
          Visited(s, up[s][i].visit, up[s][i].room)'
  BY <1>1
<1>4. \A s \in Sockets : \A g \in work'[s] : g.pc # "left" => Visited(s, g.visit, g.room)'
  BY <1>2
<1> QED
  BY <1>3, <1>4 DEF VisitInv

LEMMA InitVisitInv ==
  ASSUME Init PROVE VisitInv
<1>1. DOMAIN <<>> = {}
  OBVIOUS
<1> QED
  BY <1>1 DEF Init, VisitInv

-------------------------------------------------------------------------------
(* Presence *)

LEMMA LastTells ==
  ASSUME NEW p, NEW n, NEW i, i \in DOMAIN n, Telling(p, n[i]),
         \A j \in DOMAIN n : j > i => ~Telling(p, n[j])
  PROVE  Tells(p, n, n[i].fans)
BY DEF Tells

LEMMA TellsLast ==
  ASSUME NEW p, NEW q \in Seq(DownPackets), NEW e \in DownPackets, Telling(p, e)
  PROVE  Tells(p, Append(q, e), e.fans)
<1>1. /\ DOMAIN Append(q, e) = 1..(Len(q) + 1) /\ Append(q, e)[Len(q) + 1] = e
      /\ Len(q) \in Nat
  BY Appended, LenProperties
<1>2. PICK i, n : i = Len(q) + 1 /\ n = Append(q, e)
  OBVIOUS
<1>3. i \in DOMAIN n /\ n[i] = e /\ \A j \in DOMAIN n : ~(j > i)
  BY <1>1, <1>2
<1>4. Tells(p, n, n[i].fans)
  BY <1>3, LastTells
<1> QED
  BY <1>2, <1>3, <1>4

LEMMA TellsOn ==
  ASSUME NEW p, NEW q \in Seq(DownPackets), NEW e \in DownPackets, ~Telling(p, e),
         NEW k, Tells(p, q, k)
  PROVE  Tells(p, Append(q, e), k)
<1>1. PICK n, l : n = Append(q, e) /\ l = Len(q)
  OBVIOUS
<1>2. /\ DOMAIN n = 1..(l + 1) /\ n[l + 1] = e /\ l \in Nat /\ DOMAIN q = 1..l
      /\ \A j \in 1..l : n[j] = q[j]
  BY <1>1, Appended, LenProperties
<1>3. CASE (\A i \in DOMAIN q : ~Telling(p, q[i])) /\ p.told = k
  <2>1. \A i \in DOMAIN n : ~Telling(p, n[i])
    <3>1. \A i \in DOMAIN n : i = l + 1 \/ (i \in DOMAIN q /\ n[i] = q[i])
      BY <1>2
    <3> QED
      BY <1>2, <1>3, <3>1
  <2> QED
    BY <1>1, <1>3, <2>1 DEF Tells
<1>4. ASSUME NEW i \in DOMAIN q, Telling(p, q[i]), q[i].fans = k,
             \A j \in DOMAIN q : j > i => ~Telling(p, q[j])
      PROVE  Tells(p, n, k)
  <2>1. i \in DOMAIN n /\ n[i] = q[i]
    BY <1>2
  <2>2. \A j \in DOMAIN n : j > i => ~Telling(p, n[j])
    <3>1. \A j \in DOMAIN n : j = l + 1 \/ (j \in DOMAIN q /\ n[j] = q[j])
      BY <1>2
    <3> QED
      BY <1>2, <1>4, <3>1
  <2>3. Telling(p, n[i]) /\ n[i].fans = k
    BY <1>4, <2>1
  <2> QED
    BY <2>1, <2>2, <2>3, LastTells
<1> QED
  BY <1>1, <1>3, <1>4 DEF Tells

\* The first packet is delivered: it is shown, and the others are as they were.
LEMMA TellsRest ==
  ASSUME NEW p, NEW o, NEW q \in Seq(DownPackets), q # <<>>, NEW k, Tells(p, q, k),
         o.visit = p.visit,
         Telling(p, q[1]) => o.told = q[1].fans,
         ~Telling(p, q[1]) => o.told = p.told
  PROVE  Tells(o, Tail(q), k)
<1>1. PICK t, l : t = Tail(q) /\ l = Len(q)
  OBVIOUS
<1>2. /\ DOMAIN t = 1..(l - 1) /\ l \in Nat \ {0} /\ DOMAIN q = 1..l
      /\ \A j \in 1..(l - 1) : t[j] = q[j + 1] /\ j + 1 \in 1..l
  BY <1>1, Popped
<1>3. \A e : Telling(o, e) <=> Telling(p, e)
  BY DEF Telling
<1>4. CASE (\A i \in DOMAIN q : ~Telling(p, q[i])) /\ p.told = k
  <2>1. \A i \in DOMAIN t : ~Telling(o, t[i])
    BY <1>2, <1>3, <1>4
  <2>2. o.told = k
    BY <1>2, <1>4
  <2> QED
    BY <1>1, <2>1, <2>2 DEF Tells
<1>5. ASSUME NEW i \in DOMAIN q, Telling(p, q[i]), q[i].fans = k,
             \A j \in DOMAIN q : j > i => ~Telling(p, q[j])
      PROVE  Tells(o, t, k)
  <2>1. CASE i = 1
    <3>1. \A j \in DOMAIN t : ~Telling(o, t[j])
      <4> SUFFICES ASSUME NEW j \in DOMAIN t PROVE ~Telling(o, t[j])
        OBVIOUS
      <4>1. j + 1 \in DOMAIN q /\ j + 1 > i /\ t[j] = q[j + 1]
        BY <1>2, <2>1
      <4> QED
        BY <1>3, <1>5, <4>1
    <3>2. o.told = k
      BY <1>5, <2>1
    <3> QED
      BY <3>1, <3>2 DEF Tells
  <2>2. CASE i # 1
    <3>1. PICK h : h = i - 1
      OBVIOUS
    <3>2. h \in DOMAIN t /\ t[h] = q[i] /\ h + 1 = i
      BY <1>2, <2>2, <3>1
    <3>3. \A j \in DOMAIN t : j > h => ~Telling(o, t[j])
      <4> SUFFICES ASSUME NEW j \in DOMAIN t, j > h PROVE ~Telling(o, t[j])
        OBVIOUS
      <4>1. j + 1 \in DOMAIN q /\ j + 1 > i /\ t[j] = q[j + 1]
        BY <1>2, <3>2
      <4> QED
        BY <1>3, <1>5, <4>1
    <3>4. Telling(o, t[h]) /\ t[h].fans = k
      BY <1>3, <1>5, <3>2
    <3> QED
      BY <3>2, <3>3, <3>4, LastTells
  <2> QED
    BY <2>1, <2>2
<1> QED
  BY <1>1, <1>4, <1>5 DEF Tells

\* A page that waits for no join is in its thread.
LEMMA JoinedPlace ==
  ASSUME PageTypes, ServerTypes, SocketInv, ThreadInv, NEW c \in online, c \notin crossed,
         Joined(c), NEW s, s = Socket(c), NEW r, r = page[c].story
  PROVE  /\ r \in Stories /\ s \in Sockets /\ s \in live /\ RoomInv(s) /\ rooms[s] = {r}
         /\ \A h \in work[s] : h.pc # "left" /\ (h.pc = "joining" => h.room = r)
         /\ ~InTick(s) => room[s] = r
<1>1. s \in Sockets /\ s \in live /\ r \in Stories
  BY SocketOf DEF Joined, PageTypes, Pages
<1>2. RoomInv(s) /\ PathInv(s)
  BY <1>1, SocketOf DEF ThreadInv
<1>3. PICK ctx \in Contexts(Len(up[s])) : Path(s, ctx)
  BY <1>2 DEF PathInv, Contexts
<1>4. up[s] \in Seq(UpPackets) /\ Len(up[s]) \in Nat /\ DOMAIN up[s] = 1..Len(up[s])
  BY <1>1, LenProperties DEF ServerTypes
<1>5. At(s, ctx[0]) /\ Carries(up[s], ctx) /\ ctx[Len(up[s])] = r
  BY <1>3 DEF Path
<1>6. \A k \in (0 + 1)..Len(up[s]) : up[s][k].op # "join"
  BY <1>4 DEF Joined
<1>7. 0 \in 0..Len(up[s]) /\ Len(up[s]) \in 0..Len(up[s])
  BY <1>4
<1>8. ctx[0] = r
  <2>1. ctx[Len(up[s])] \in {ctx[0], None}
    BY <1>5, <1>6, <1>7 DEF Carries
  <2> QED
    BY <1>1, <1>5, <2>1, ChatAssumption
<1>9. \A h \in work[s] : h.pc # "left" /\ (h.pc = "joining" => h.room = r)
  BY <1>1, <1>5, <1>8, ChatAssumption DEF At
<1>10. ~InTick(s) => room[s] = r
  BY <1>5, <1>8 DEF At
<1>11. rooms[s] = {r}
  <2>1. CASE InTick(s)
    <3>1. PICK h \in work[s] : h.pc \in {"leaving", "joining", "left"}
      BY <2>1 DEF InTick
    <3>2. h.pc = "joining" /\ h.room = r
      BY <1>2, <1>9, <3>1 DEF RoomInv
    <3> QED
      BY <1>2, <3>2 DEF RoomInv
  <2>2. CASE ~InTick(s)
    BY <1>1, <1>2, <1>10, <2>2, ChatAssumption DEF RoomInv
  <2> QED
    BY <2>1, <2>2
<1> QED
  BY <1>1, <1>2, <1>9, <1>10, <1>11

\* After its last join is read, the page is in the thread of that join.
LEMMA LastJoin ==
  ASSUME PageTypes, ServerTypes, SocketInv, ThreadInv, crossed = {}, NEW c \in online,
         OnJoin(Socket(c)), Joined(c)'
  PROVE  page[c].story = Head(up[Socket(c)]).room
<1>1. PICK s, r : s = Socket(c) /\ r = page[c].story
  OBVIOUS
<1>2. s \in Sockets /\ s \in live
  BY <1>1, SocketOf
<1>3. PathInv(s)
  BY <1>2 DEF ThreadInv
<1>4. PICK ctx \in Contexts(Len(up[s])) : Path(s, ctx)
  BY <1>3 DEF PathInv, Contexts
<1>5. /\ up[s] \in Seq(UpPackets) /\ up[s] # <<>> /\ Head(up[s]).op = "join"
      /\ up' = [up EXCEPT ![s] = Tail(up[s])] /\ UNCHANGED pageVars
  BY <1>1, <1>2, Received DEF OnJoin, Receive
<1>6. PICK q, t, l : q = up[s] /\ t = Tail(up[s]) /\ l = Len(up[s])
  OBVIOUS
<1>7. /\ l \in Nat \ {0} /\ Head(q) = q[1] /\ DOMAIN t = 1..(l - 1) /\ l = Len(q)
      /\ \A i \in 1..(l - 1) : t[i] = q[i + 1]
  BY <1>5, <1>6, Popped
<1>8. up'[s] = t /\ Socket(c)' = s /\ page'[c].story = r
  BY <1>1, <1>2, <1>5, <1>6 DEF ServerTypes, pageVars, Socket
<1>9. r # None /\ \A i \in 1..(l - 1) : t[i].op # "join"
  BY <1>7, <1>8 DEF Joined
<1>10. \A k \in (1 + 1)..l : q[k].op # "join"
  <2> SUFFICES ASSUME NEW k \in (1 + 1)..l PROVE q[k].op # "join"
    OBVIOUS
  <2>1. k - 1 \in 1..(l - 1) /\ (k - 1) + 1 = k
    BY <1>7
  <2>2. t[k - 1] = q[(k - 1) + 1]
    BY <1>7, <2>1
  <2> QED
    BY <1>9, <2>1, <2>2
<1>11. Carries(q, ctx) /\ Steps(s, q, ctx) /\ ctx[l] = r
  BY <1>1, <1>4, <1>6 DEF Path
<1>12. ctx[l] \in {ctx[1], None}
  <2>1. 1 \in 0..Len(q) /\ l \in 1..Len(q)
    BY <1>7
  <2> QED
    BY <1>10, <1>11, <2>1 DEF Carries
<1>13. ctx[1] = q[1].room
  <2>1. 1 \in 1..Len(q)
    BY <1>7
  <2> QED
    BY <1>5, <1>6, <1>7, <1>11, <2>1 DEF Steps
<1> QED
  BY <1>1, <1>6, <1>7, <1>9, <1>11, <1>12, <1>13

\* The room has the readers it had, and the page is told nothing else.
LEMMA PresenceKept ==
  ASSUME DownTypes, PresenceInv, crossed = {}, NEW c \in online, Socket(c) \in Sockets,
         NEW r, r = page[c].story,
         Joined(c), Quiet(r), page'[c] = page[c], Socket(c)' = Socket(c),
         \A t \in Sockets : r \in rooms'[t] <=> r \in rooms[t],
         \/ down'[Socket(c)] = down[Socket(c)]
         \/ \E e \in DownPackets : /\ ~Telling(page[c], e)
                                   /\ down'[Socket(c)] = Append(down[Socket(c)], e)
  PROVE  Tells(page[c], down[Socket(c)], RoomSize(page[c].story, rooms))'
<1>1. PICK s, p, q, n : /\ s = Socket(c) /\ p = page[c] /\ q = down[s] /\ n = RoomSize(r, rooms)
  OBVIOUS
<1>2. Tells(p, q, n)
  BY <1>1 DEF PresenceInv
<1>3. RoomSize(r, rooms') = n
  BY <1>1 DEF RoomSize
<1>4. q \in Seq(DownPackets)
  BY <1>1 DEF DownTypes
<1>5. Tells(p, down'[s], n)
  <2>1. CASE down'[s] = q
    BY <1>2, <2>1
  <2>2. ASSUME NEW e \in DownPackets, ~Telling(p, e), down'[s] = Append(q, e)
        PROVE  Tells(p, down'[s], n)
    BY <1>2, <1>4, <2>2, TellsOn
  <2> QED
    BY <1>1, <2>1, <2>2
<1>6. page'[c] = p /\ Socket(c)' = s /\ page'[c].story = r
  BY <1>1
<1> QED
  BY <1>3, <1>5, <1>6

-------------------------------------------------------------------------------
(* Presence, step by step *)

\* What page c will show is how many are in the room of its story.
Told(c) == Tells(page[c], down[Socket(c)], RoomSize(page[c].story, rooms))

\* What the room of the story of c is told after a change reaches c.
LEMMA ToldNow ==
  ASSUME DownTypes, NEW c \in online, Socket(c) \in Sockets, NEW r, r = page[c].story,
         NEW in, r \in in[Socket(c)]
  PROVE  Tells(page[c], BroadcastPresence(r, in)[Socket(c)], RoomSize(r, in))
<1>1. PICK s, p, e, n : s = Socket(c) /\ p = page[c] /\ n = RoomSize(r, in) /\ e = Presence(n)
  OBVIOUS
<1>2. s \in Heard /\ down[s] \in Seq(DownPackets) /\ n \in Nat
  BY <1>1, RoomSizeIsNat DEF Heard, DownTypes
<1>3. e \in DownPackets /\ e.fans = n /\ Telling(p, e)
  BY <1>1, <1>2, PacketTypes DEF Presence, Telling
<1>4. BroadcastPresence(r, in)[s] = Append(down[s], e)
  BY <1>1, <1>2 DEF BroadcastPresence, ToRoom
<1>5. Tells(p, Append(down[s], e), n)
  BY <1>2, <1>3, TellsLast
<1> QED
  BY <1>1, <1>4, <1>5

LEMMA PresenceOnStart ==
  ASSUME PageTypes, ServerTypes, DownTypes, SocketInv, TextsInv, ThreadInv, PresenceInv,
         [Next]_vars, NEW t \in Sockets, Start(t), NEW c \in online, crossed' = {}, crossed = {},
         Joined(c)', NEW r, r = page[c].story, Quiet(r)'
  PROVE  Told(c)'
<1>1. /\ Socket(c) \in Sockets /\ t \in live /\ live' = live /\ UNCHANGED pageVars
      /\ UNCHANGED <<room, failed, down>>
  <2>1. UNCHANGED <<room, failed, down>>
    BY DEF Start, OnJoin, OnLeave, OnMessage, Receive
  <2> QED
    BY <2>1, SocketOf, AtWork, Elsewhere
<1>2. page' = page /\ Socket(c)' = Socket(c)
  BY <1>1 DEF pageVars, Socket
<1>3. RoomInv(t) /\ PathInv(t) /\ t[1] \notin crossed'
  BY <1>1 DEF ThreadInv
<1>4. \A u \in Sockets : work[u] \subseteq work'[u]
  <2>1. UNCHANGED work \/ work' = [work EXCEPT ![t] = work[t] \cup {JoinHandler(t)}]
                       \/ work' = [work EXCEPT ![t] = work[t] \cup {LeaveHandler(t)}]
    BY JoinStarts, LeaveStarts DEF Start, OnMessage
  <2> QED
    BY <2>1 DEF ServerTypes
<1>5. Quiet(r)
  BY <1>1, <1>4 DEF Quiet, Owes, ServerTypes
<1>6. ASSUME NEW q, OnJoin(t) => q # Head(up[t]).room, OnLeave(t) => q # room[t]
      PROVE  \A u \in Sockets : q \in rooms'[u] <=> q \in rooms[u]
  <2>1. CASE OnJoin(t)
    <3>1. rooms' = [rooms EXCEPT ![t] = {Head(up[t]).room}] /\ rooms[t] = {}
      BY <1>3, <2>1, JoinComes
    <3> QED
      BY <1>6, <2>1, <3>1 DEF ServerTypes
  <2>2. CASE OnLeave(t)
    <3>1. rooms' = rooms \/ rooms' = [rooms EXCEPT ![t] = rooms[t] \ {room[t]}]
      BY <2>2, LeaveStarts
    <3> QED
      BY <1>6, <2>2, <3>1 DEF ServerTypes
  <2>3. CASE OnMessage(t)
    BY <2>3 DEF OnMessage
  <2> QED
    BY <2>1, <2>2, <2>3 DEF Start
<1>7. OnJoin(t) => r # Head(up[t]).room
  <2> SUFFICES ASSUME OnJoin(t) PROVE r # Head(up[t]).room
    OBVIOUS
  <2>1. JoinHandler(t).pc = "joining" /\ JoinHandler(t).room = Head(up[t]).room
    BY <1>3, JoinComes
  <2>2. JoinHandler(t) \in work'[t]
    BY JoinStarts DEF ServerTypes
  <2>3. ~Owes(t, r)'
    BY <1>1 DEF Quiet
  <2> QED
    BY <2>1, <2>2, <2>3 DEF Owes
<1>8. OnLeave(t) => r # room[t]
  <2> SUFFICES ASSUME OnLeave(t), r = room[t] PROVE FALSE
    OBVIOUS
  <2>1. r # None
    BY <1>2 DEF Joined
  <2>2. LeaveHandler(t) \in work'[t] /\ LeaveHandler(t).room = r /\ LeaveHandler(t).pc = "left"
    BY <2>1, LeaveStarts DEF ServerTypes, LeaveHandler
  <2>3. ~Owes(t, r)'
    BY <1>1 DEF Quiet
  <2> QED
    BY <2>2, <2>3 DEF Owes
<1>9. Joined(c)
  <2>1. CASE t # Socket(c)
    <3>1. up'[Socket(c)] = up[Socket(c)]
      BY <1>1, <2>1, Elsewhere
    <3> QED
      BY <1>2, <3>1 DEF Joined
  <2>2. CASE t = Socket(c)
    <3>1. ~OnJoin(t)
      BY <1>7, <2>2, LastJoin
    <3>2. /\ up[t] \in Seq(UpPackets) /\ up[t] # <<>> /\ Head(up[t]).op # "join"
          /\ up' = [up EXCEPT ![t] = Tail(up[t])]
      BY <3>1, Received DEF Start, OnLeave, OnMessage
    <3>3. PICK q, n, l : q = up[t] /\ n = Tail(up[t]) /\ l = Len(up[t])
      OBVIOUS
    <3>4. /\ DOMAIN q = 1..l /\ DOMAIN n = 1..(l - 1) /\ Head(q) = q[1] /\ l \in Nat \ {0}
          /\ \A i \in 1..(l - 1) : n[i] = q[i + 1]
      BY <3>2, <3>3, Popped
    <3>5. up'[Socket(c)'] = n
      BY <1>2, <2>2, <3>2, <3>3 DEF ServerTypes
    <3>6. page[c].story # None /\ \A i \in DOMAIN n : n[i].op # "join"
      BY <1>2, <3>5 DEF Joined
    <3>7. \A i \in DOMAIN q : q[i].op # "join"
      <4> SUFFICES ASSUME NEW i \in DOMAIN q PROVE q[i].op # "join"
        OBVIOUS
      <4>1. CASE i = 1
        BY <3>2, <3>3, <3>4, <4>1
      <4>2. CASE i # 1
        <5>1. i - 1 \in 1..(l - 1) /\ (i - 1) + 1 = i
          BY <3>4, <4>2
        <5>2. n[i - 1] = q[(i - 1) + 1] /\ i - 1 \in DOMAIN n
          BY <3>4, <5>1
        <5> QED
          BY <3>6, <5>1, <5>2
      <4> QED
        BY <4>1, <4>2
    <3> QED
      BY <2>2, <3>3, <3>6, <3>7 DEF Joined
  <2> QED
    BY <2>1, <2>2
<1>10. \A u \in Sockets : r \in rooms'[u] <=> r \in rooms[u]
  BY <1>6, <1>7, <1>8
<1> QED
  BY <1>1, <1>2, <1>5, <1>9, <1>10, PresenceKept DEF Told
\* A room is told nothing when another one is.
LEMMA ToldElsewhere ==
  ASSUME DownTypes, PresenceInv, crossed = {}, NEW c \in online, Socket(c) \in Sockets,
         NEW r, r = page[c].story, Joined(c), Quiet(r),
         page'[c] = page[c], Socket(c)' = Socket(c), UNCHANGED rooms,
         NEW q, q \notin rooms[Socket(c)], down' = BroadcastPresence(q, rooms)
  PROVE  Told(c)'
<1>1. down'[Socket(c)] = down[Socket(c)]
  BY DEF BroadcastPresence, ToRoom
<1> QED
  BY <1>1, PresenceKept DEF Told

LEMMA PresenceOnResume ==
  ASSUME PageTypes, ServerTypes, DownTypes, SocketInv, TextsInv, ThreadInv, PresenceInv,
         [Next]_vars, NEW t \in Sockets, Resume(t), InTick(t), NEW c \in online,
         crossed' = {}, crossed = {}, Joined(c)', NEW r, r = page[c].story, Quiet(r)'
  PROVE  Told(c)'
<1>1. /\ Socket(c) \in Sockets /\ t \in live /\ live' = live /\ UNCHANGED pageVars
      /\ UNCHANGED <<up, failed>>
  <2>1. UNCHANGED <<up, failed>>
    BY DEF Resume, JoinLeft, JoinJoined, LeaveDone, history
  <2> QED
    BY <2>1, SocketOf, AtWork, Elsewhere
<1>2. page' = page /\ Socket(c)' = Socket(c) /\ up' = up
  BY <1>1 DEF pageVars, Socket
<1>3. RoomInv(t) /\ PathInv(t)
  BY <1>1 DEF ThreadInv
<1>4. UNCHANGED rooms
  BY <1>3, TickEnds
<1>5. Joined(c) /\ r \in Stories /\ rooms[Socket(c)] = {r}
  <2>1. Joined(c)
    BY <1>2 DEF Joined
  <2> QED
    BY <2>1, JoinedPlace
<1>6. PICK h \in work[t] : JoinJoined(t, h) \/ LeaveDone(t, h)
  BY <1>3 DEF Resume, RoomInv, JoinLeft
<1>7. /\ Mid(h) /\ h.pc \in {"joining", "left"} /\ h.room \in Stories
      /\ \A g \in work[t] : Mid(g) => g = h
      /\ h.pc = "joining" => room[t] = None
      /\ h.pc = "left" => room[t] = h.room
  BY <1>3, <1>6, HandlerSteps DEF JoinJoined, LeaveDone, RoomInv, Mid
<1>8. \A u \in Sockets : u # t => work'[u] = work[u] /\ room'[u] = room[u]
  BY Elsewhere
<1>9. CASE JoinJoined(t, h)
  <2>0. room'[t] = h.room /\ down' = down /\ h.pc = "joining"
    BY <1>9 DEF JoinJoined, ServerTypes
  <2>1. work'[t] = (work[t] \ {h}) \cup {ReadingOf(h)}
    BY <1>9, HandlerShapes DEF ServerTypes
  <2>2. Owes(t, r) => Owes(t, r)'
    <3> SUFFICES ASSUME Owes(t, r) PROVE Owes(t, r)'
      OBVIOUS
    <3>1. room[t] # r
      BY <1>5, <1>7, <2>0, ChatAssumption
    <3>2. PICK g \in work[t] : g.room = r /\ g.pc \in {"joining", "left"}
      BY <3>1 DEF Owes
    <3>3. h.room = r
      BY <1>7, <3>2 DEF Mid
    <3>4. ReadingOf(h) \in work'[t] /\ ReadingOf(h).room = r /\ room'[t] = r
      BY <2>0, <2>1, <3>3, HandlerSteps
    <3> QED
      BY <3>4 DEF Owes
  <2>3. \A u \in Sockets : u # t => (Owes(u, r) => Owes(u, r)')
    BY <1>1, <1>8 DEF Owes
  <2>4. Quiet(r)
    BY <1>1, <2>2, <2>3 DEF Quiet, ServerTypes
  <2> QED
    BY <1>1, <1>2, <1>4, <1>5, <2>0, <2>4, PresenceKept DEF Told
<1>10. CASE LeaveDone(t, h)
  <2>0. down' = BroadcastPresence(h.room, rooms) /\ h.pc = "left"
    BY <1>10 DEF LeaveDone
  <2>1. work'[t] = work[t] \ {h}
    BY <1>10, HandlerShapes DEF ServerTypes
  <2>2. CASE r = h.room
    <3>1. Tells(page[c], down'[Socket(c)], RoomSize(r, rooms))
      BY <1>1, <1>5, <2>0, <2>2, ToldNow
    <3>2. /\ page'[c] = page[c] /\ Socket(c)' = Socket(c) /\ rooms' = rooms
          /\ page'[c].story = r
      BY <1>2, <1>4
    <3> QED
      BY <3>1, <3>2 DEF Told
  <2>3. CASE r # h.room
    <3>1. ~Owes(t, r)
      <4>1. room[t] # r
        BY <1>7, <2>0, <2>3
      <4>2. \A g \in work[t] : ~(g.room = r /\ g.pc \in {"joining", "left"})
        BY <1>7, <2>3 DEF Mid
      <4> QED
        BY <4>1, <4>2 DEF Owes
    <3>2. \A u \in Sockets : u # t => (Owes(u, r) => Owes(u, r)')
      BY <1>1, <1>8 DEF Owes
    <3>3. Quiet(r)
      BY <1>1, <3>1, <3>2 DEF Quiet, ServerTypes
    <3>4. h.room \notin rooms[Socket(c)]
      BY <1>5, <2>3
    <3> QED
      BY <1>1, <1>2, <1>4, <1>5, <2>0, <3>3, <3>4, ToldElsewhere
  <2> QED
    BY <2>2, <2>3
<1> QED
  BY <1>6, <1>9, <1>10
LEMMA PresenceOnAnswer ==
  ASSUME PageTypes, ServerTypes, DownTypes, SeenInv, SocketInv, VisitInv, PresenceInv,
         NEW t \in Sockets, NEW h \in work[t], JoinAnswered(t, h), NEW c \in online,
         crossed = {}, Joined(c), NEW r \in Stories, r = page[c].story,
         rooms[Socket(c)] = {r}, r # h.room => Quiet(r)
  PROVE  Told(c)'
<1>1. Socket(c) \in Sockets /\ Socket(c)[1] = c /\ UNCHANGED <<pageVars, rooms>> /\ h.pc = "read"
  BY SocketOf DEF JoinAnswered, roomVars
<1>2. page' = page /\ Socket(c)' = Socket(c) /\ rooms' = rooms
  BY <1>1 DEF pageVars, Socket
<1>3. PICK told, answer, s, p, n : /\ told = BroadcastPresence(h.room, rooms) /\ answer = Answer(h)
                                   /\ s = Socket(c) /\ p = page[c] /\ n = RoomSize(r, rooms)
  OBVIOUS
<1>4. /\ answer \in DownPackets /\ answer.op = "ack" /\ answer.visit = h.visit
      /\ answer.fans = RoomSize(h.room, rooms)
      /\ told \in [Sockets -> Seq(DownPackets)] /\ s \in Sockets
  BY <1>1, <1>3, AnswerTypes, PresenceTypes
<1>5. down' = IF t \in Heard THEN [told EXCEPT ![t] = Append(told[t], answer)] ELSE told
  BY <1>3 DEF JoinAnswered, Answer
<1>6. down'[s] = IF s = t THEN Append(told[s], answer) ELSE told[s]
  <2>1. s \in Heard
    BY <1>3 DEF Heard
  <2> QED
    BY <1>4, <1>5, <2>1
<1>7. CASE r = h.room
  <2>1. Tells(p, told[s], n)
    BY <1>1, <1>3, <1>7, ToldNow
  <2>2. Tells(p, Append(told[s], answer), n)
    <3>1. told[s] \in Seq(DownPackets) /\ answer.fans = n
      BY <1>3, <1>4, <1>7
    <3>2. CASE Telling(p, answer)
      BY <1>4, <3>1, <3>2, TellsLast
    <3>3. CASE ~Telling(p, answer)
      BY <1>4, <2>1, <3>1, <3>3, TellsOn
    <3> QED
      BY <3>2, <3>3
  <2>3. Tells(p, down'[s], n)
    BY <1>6, <2>1, <2>2
  <2>4. page'[c] = p /\ Socket(c)' = s /\ page'[c].story = r /\ RoomSize(r, rooms') = n
    BY <1>2, <1>3
  <2> QED
    BY <2>3, <2>4 DEF Told
<1>8. CASE r # h.room
  <2>1. told[s] = down[s]
    BY <1>3, <1>4, <1>8 DEF BroadcastPresence, ToRoom
  <2>2. s = t => ~Telling(p, answer)
    <3> SUFFICES ASSUME s = t PROVE ~Telling(p, answer)
      OBVIOUS
    <3>1. Visited(t, h.visit, h.room) /\ t[1] = c
      BY <1>1, <1>3 DEF VisitInv
    <3>2. h.visit # page[c].visit
      BY <1>8, <3>1 DEF Visited, Joined
    <3> QED
      BY <1>3, <1>4, <3>2 DEF Telling
  <2>3. \/ down'[s] = down[s]
        \/ \E e \in DownPackets : ~Telling(p, e) /\ down'[s] = Append(down[s], e)
    BY <1>4, <1>6, <2>1, <2>2
  <2> QED
    BY <1>1, <1>2, <1>3, <1>8, <2>3, PresenceKept DEF Told
<1> QED
  BY <1>7, <1>8

LEMMA PresenceOnQuery ==
  ASSUME PageTypes, ServerTypes, DownTypes, SeenInv, SocketInv, ThreadInv, VisitInv, PresenceInv,
         [Next]_vars, Calm, NEW t \in Sockets, QueryStep(t), NEW c \in online,
         crossed' = {}, crossed = {}, Joined(c)', NEW r, r = page[c].story, Quiet(r)'
  PROVE  Told(c)'
<1>1. Socket(c) \in Sockets /\ UNCHANGED <<pageVars, up, roomVars>>
  BY SocketOf, AtWork, ServerStep
<1>2. /\ page' = page /\ Socket(c)' = Socket(c) /\ up' = up /\ rooms' = rooms /\ room' = room
      /\ live' = live
  BY <1>1 DEF pageVars, roomVars, Socket
<1>3. Joined(c) /\ r \in Stories /\ rooms[Socket(c)] = {r}
  <2>1. Joined(c)
    BY <1>2 DEF Joined
  <2> QED
    BY <2>1, JoinedPlace
<1>4. PICK h \in work[t] : JoinRead(t, h) \/ JoinAnswered(t, h) \/ JoinFailed(t, h)
  BY DEF QueryStep
<1>5. \A u \in Sockets : u # t => work'[u] = work[u]
  BY Elsewhere
<1>6. ASSUME NEW u \in Sockets, Owes(u, r)
      PROVE  \/ \E g \in work[u] : g.room = r /\ room[u] = r
             \/ u \in failed /\ room[u] = r
  BY <1>6 DEF Calm, InTick, Owes
<1>7. ASSUME failed \subseteq failed',
             \A g \in work[t] : g.room = r /\ room[t] = r => Owes(t, r)'
      PROVE  Quiet(r)
  <2>1. ASSUME NEW u \in Sockets, Owes(u, r) PROVE Owes(u, r)'
    <3>1. CASE u \in failed /\ room[u] = r
      BY <1>2, <1>7, <3>1 DEF Owes
    <3>2. ASSUME NEW g \in work[u], g.room = r, room[u] = r PROVE Owes(u, r)'
      <4>1. CASE u = t
        BY <1>7, <3>2, <4>1
      <4>2. CASE u # t
        BY <1>2, <1>5, <3>2, <4>2 DEF Owes
      <4> QED
        BY <4>1, <4>2
    <3> QED
      BY <1>6, <2>1, <3>1, <3>2
  <2> QED
    BY <1>2, <2>1 DEF Quiet, ServerTypes
<1>8. ASSUME UNCHANGED down, Quiet(r) PROVE Told(c)'
  BY <1>1, <1>2, <1>3, <1>8, PresenceKept DEF Told
<1>9. CASE JoinRead(t, h)
  <2>1. UNCHANGED <<down, failed>>
    BY <1>9 DEF JoinRead, history
  <2>2. work'[t] = (work[t] \ {h}) \cup {ReadOf(h)} /\ ReadOf(h).room = h.room
    BY <1>9, HandlerShapes, HandlerSteps DEF ServerTypes
  <2>3. ASSUME NEW g \in work[t], g.room = r, room[t] = r PROVE Owes(t, r)'
    BY <1>2, <2>2, <2>3 DEF Owes
  <2> QED
    BY <1>7, <1>8, <2>1, <2>3
<1>10. CASE JoinFailed(t, h)
  <2>1. down' = down /\ failed' = failed \cup {t}
    BY <1>10 DEF JoinFailed
  <2>2. ASSUME NEW g \in work[t], g.room = r, room[t] = r PROVE Owes(t, r)'
    BY <1>2, <2>1, <2>2 DEF Owes
  <2> QED
    BY <1>7, <1>8, <2>1, <2>2
<1>11. CASE JoinAnswered(t, h)
  <2>1. failed' = failed
    BY <1>11 DEF JoinAnswered
  <2>2. work'[t] = work[t] \ {h}
    BY <1>11, HandlerShapes DEF ServerTypes
  <2>3. r # h.room => Quiet(r)
    <3> SUFFICES ASSUME r # h.room PROVE Quiet(r)
      OBVIOUS
    <3>1. ASSUME NEW g \in work[t], g.room = r, room[t] = r PROVE Owes(t, r)'
      BY <1>2, <2>2, <3>1 DEF Owes
    <3> QED
      BY <1>7, <2>1, <3>1
  <2> QED
    BY <1>3, <1>11, <2>3, PresenceOnAnswer
<1> QED
  BY <1>4, <1>9, <1>10, <1>11
LEMMA PresenceOnDisconnect ==
  ASSUME PageTypes, ServerTypes, DownTypes, SocketInv, ThreadInv, PresenceInv,
         Calm, NEW t \in Sockets, Disconnect(t), NEW c \in online,
         crossed = {}, Joined(c)', NEW r, r = page[c].story, Quiet(r)'
  PROVE  Told(c)'
<1>1. /\ t \in live /\ t \notin Heard /\ live' = live \ {t} /\ UNCHANGED <<pageVars, room, work, failed>>
      /\ rooms' = [rooms EXCEPT ![t] = {}] /\ up' = [up EXCEPT ![t] = <<>>]
      /\ down' = IF room[t] = None THEN down ELSE BroadcastPresence(room[t], rooms')
  BY DEF Disconnect, history
<1>2. page' = page /\ Socket(c)' = Socket(c) /\ room' = room /\ work' = work
  BY <1>1 DEF pageVars, Socket
<1>3. Socket(c) \in Sockets /\ Socket(c) # t
  BY <1>1, SocketOf DEF Heard
<1>4. up'[Socket(c)] = up[Socket(c)] /\ rooms'[Socket(c)] = rooms[Socket(c)]
  BY <1>1, <1>3 DEF ServerTypes
<1>5. Joined(c)
  BY <1>2, <1>4 DEF Joined
<1>6. r \in Stories /\ rooms[Socket(c)] = {r}
  BY <1>5, JoinedPlace
<1>7. rooms[t] = {room[t]} \ {None} /\ ~InTick(t) /\ rooms'[t] = {}
  BY <1>1 DEF ThreadInv, RoomInv, Calm, ServerTypes
<1>8. CASE room[t] = r
  <2>1. PICK in : in = rooms'
    OBVIOUS
  <2>2. down' = BroadcastPresence(r, in) /\ r \in in[Socket(c)]
    BY <1>1, <1>4, <1>6, <1>8, <2>1, ChatAssumption
  <2>3. Tells(page[c], down'[Socket(c)], RoomSize(r, in))
    BY <1>3, <2>2, ToldNow
  <2>4. page'[c] = page[c] /\ page'[c].story = r
    BY <1>2
  <2> QED
    BY <1>2, <2>1, <2>3, <2>4 DEF Told
<1>9. CASE room[t] # r
  <2>1. ~Owes(t, r)
    BY <1>7, <1>9 DEF Owes, InTick
  <2>2. \A u \in Sockets : Owes(u, r) => Owes(u, r)'
    BY <1>1, <1>2 DEF Owes
  <2>3. Quiet(r)
    BY <1>1, <2>1, <2>2 DEF Quiet, ServerTypes
  <2>4. \A u \in Sockets : r \in rooms'[u] <=> r \in rooms[u]
    BY <1>1, <1>7, <1>9 DEF ServerTypes
  <2>5. down'[Socket(c)] = down[Socket(c)]
    <3>1. room[t] \notin rooms'[Socket(c)]
      BY <1>4, <1>6, <1>9
    <3> QED
      BY <1>1, <1>3, <3>1 DEF BroadcastPresence, ToRoom
  <2> QED
    BY <1>2, <1>3, <1>5, <2>3, <2>4, <2>5, PresenceKept DEF Told
<1> QED
  BY <1>8, <1>9

LEMMA PresenceOnPost ==
  ASSUME PageTypes, ServerTypes, DownTypes, SocketInv, PresenceInv, PostStep, NEW c \in online,
         crossed = {}, Joined(c)', NEW r, r = page[c].story, Quiet(r)'
  PROVE  Told(c)'
<1>1. UNCHANGED <<pageVars, up, roomVars, work, failed>>
  BY DEF PostStep, Create, Publish, CreateFailed, history
<1>2. /\ page' = page /\ Socket(c)' = Socket(c) /\ up' = up /\ rooms' = rooms /\ Socket(c) \in Sockets
      /\ live' = live /\ room' = room /\ work' = work /\ failed' = failed
  BY <1>1, SocketOf DEF pageVars, roomVars, Socket
<1>3. Joined(c) /\ Quiet(r)
  BY <1>2 DEF Joined, Quiet, Owes
<1>4. PICK p \in posts : Create(p) \/ Publish(p) \/ CreateFailed(p)
  BY DEF PostStep
<1>5. CASE Publish(p)
  <2>1. PICK e : e = Broadcast(p.msg)
    OBVIOUS
  <2>2. e \in DownPackets /\ ~Telling(page[c], e)
    <3>1. p.msg \in Messages
      BY DEF ServerTypes, Posts
    <3> QED
      BY <2>1, <3>1, PacketTypes DEF Broadcast, Telling
  <2>3. down' = ToRoom(p.room, rooms, e)
    BY <1>5, <2>1 DEF Publish
  <2>4. down'[Socket(c)] = down[Socket(c)] \/ down'[Socket(c)] = Append(down[Socket(c)], e)
    BY <1>2, <2>3 DEF ToRoom
  <2> QED
    BY <1>2, <1>3, <2>2, <2>4, PresenceKept DEF Told
<1>6. CASE Create(p) \/ CreateFailed(p)
  <2>1. down' = down
    BY <1>6 DEF Create, CreateFailed
  <2> QED
    BY <1>2, <1>3, <2>1, PresenceKept DEF Told
<1> QED
  BY <1>4, <1>5, <1>6

LEMMA PresenceOnDelivery ==
  ASSUME PageTypes, DownTypes, SocketInv, PresenceInv, NEW c \in online, Deliver(c), crossed = {},
         Joined(c)', NEW r, r = page[c].story, Quiet(r)'
  PROVE  Told(c)'
<1>1. PICK p, q, s, e, n : /\ p = page[c] /\ s = Socket(c) /\ q = down[s] /\ e = Head(q)
                           /\ n = RoomSize(r, rooms)
  OBVIOUS
<1>2. /\ UNCHANGED <<online, opened, up, roomVars, work, history>> /\ q # <<>>
      /\ s \in Sockets /\ c \in Readers /\ p \in Pages
  BY <1>1, SocketOf DEF Deliver, PageTypes
<1>3. /\ Socket(c)' = s /\ up' = up /\ rooms' = rooms /\ live' = live /\ room' = room
      /\ work' = work /\ failed' = failed
  BY <1>1, <1>2 DEF roomVars, history, Socket
<1>4. page'[c].story = p.story /\ page'[c].visit = p.visit
  BY <1>1, <1>2, DeliverTypes
<1>5. Joined(c) /\ Quiet(r) /\ p.story # None
  BY <1>1, <1>3, <1>4 DEF Joined, Quiet, Owes
<1>6. Tells(p, q, n)
  BY <1>1, <1>5 DEF PresenceInv
<1>7. q \in Seq(DownPackets) /\ down'[s] = Tail(q)
  BY <1>1, <1>2 DEF Deliver, DownTypes
<1>8. e \in DownPackets /\ q[1] = e
  BY <1>1, <1>2, <1>7, Popped
<1>9. page'[c] =
        CASE e.op = "presence" -> [p EXCEPT !.told = e.fans]
          [] e.op = "message" -> [p EXCEPT !.shown = LastOf(Append(p.shown, e.msg), ShownSize)]
          [] e.op = "ack" -> IF e.visit = p.visit
                             THEN [p EXCEPT !.shown = e.history, !.told = e.fans] ELSE p
  BY <1>1, <1>2, <1>5 DEF Deliver, PageTypes
<1>10. Telling(p, e) => page'[c].told = e.fans
  BY <1>2, <1>9 DEF Telling, Pages
<1>11. ~Telling(p, e) => page'[c].told = p.told
  <2> SUFFICES ASSUME ~Telling(p, e) PROVE page'[c].told = p.told
    OBVIOUS
  <2>1. CASE e.op = "message"
    <3>1. PICK x : x = LastOf(Append(p.shown, e.msg), ShownSize)
      OBVIOUS
    <3>2. page'[c] = [p EXCEPT !.shown = x]
      BY <1>9, <2>1, <3>1
    <3> QED
      BY <1>2, <3>2 DEF Pages
  <2>2. CASE e.op = "ack"
    BY <1>9, <2>2 DEF Telling
  <2> QED
    BY <1>8, <2>1, <2>2, DownFields DEF Telling
<1>12. PICK o : o = page'[c]
  OBVIOUS
<1>13. Tells(o, Tail(q), n)
  BY <1>2, <1>4, <1>6, <1>7, <1>8, <1>10, <1>11, <1>12, TellsRest
<1>14. /\ page'[c] = o /\ down'[Socket(c)'] = Tail(q) /\ page'[c].story = r
       /\ RoomSize(r, rooms') = n
  BY <1>1, <1>3, <1>4, <1>7, <1>12
<1> QED
  BY <1>13, <1>14 DEF Told
LEMMA PresenceOnPage ==
  ASSUME PageTypes, ServerTypes, DownTypes, SocketInv, PresenceInv, PageTypes', SocketInv',
         NEW d \in Readers, PageStep(d), NEW c \in online', crossed = {},
         Joined(c)', NEW r, r = page'[c].story, Quiet(r)'
  PROVE  Told(c)'
<1>1. /\ UNCHANGED <<rooms, room, work, failed>> /\ live \subseteq live' /\ c \in Readers
      /\ up \in [Sockets -> Seq(UpPackets)]
  <2>1. UNCHANGED failed
    BY DEF PageStep, Close, Connect, Drop, Deliver, Open, Type, history
  <2>2. live \subseteq live'
    BY PageShapes
  <2> QED
    BY <2>1, <2>2, PageShapes DEF PageTypes, ServerTypes
<1>2. Quiet(r)
  BY <1>1 DEF Quiet, Owes
<1>3. ASSUME c \in online, page'[c] = page[c], Socket(c)' = Socket(c), Joined(c),
             down'[Socket(c)] = down[Socket(c)]
      PROVE  Told(c)'
  BY <1>1, <1>2, <1>3, SocketOf, PresenceKept DEF Told
<1>4. ASSUME c \in online, page'[c] = page[c], Socket(c)' = Socket(c),
             up'[Socket(c)] = up[Socket(c)], down'[Socket(c)] = down[Socket(c)]
      PROVE  Told(c)'
  BY <1>3, <1>4 DEF Joined
<1>5. CASE c # d
  <2>1. c \in online /\ page'[c] = page[c] /\ opened'[c] = opened[c]
    <3>1. page'[c] = page[c]
      <4>1. CASE Close(d)
        <5>1. \A u \in Readers : u # d => page'[u] = page[u]
          BY <4>1 DEF Close, PageTypes
        <5> QED
          BY <1>1, <1>5, <5>1
      <4>2. CASE Connect(d) \/ Drop(d) \/ \E m \in Messages : Type(d, m)
        BY <4>2 DEF Connect, Drop, Type
      <4>3. CASE Deliver(d)
        BY <1>1, <1>5, <4>3 DEF Deliver, PageTypes
      <4>4. ASSUME NEW q \in Stories, Open(d, q) PROVE page'[c] = page[c]
        BY <1>1, <1>5, <4>4 DEF Open, PageTypes
      <4> QED
        BY <4>1, <4>2, <4>3, <4>4 DEF PageStep
    <3>2. c \in online
      BY <1>5, PageShapes
    <3>3. opened'[c] = opened[c]
      <4>1. opened' = opened \/ opened' = [opened EXCEPT ![d] = opened[d] + 1]
        BY PageShapes
      <4> QED
        BY <1>1, <1>5, <4>1 DEF PageTypes
    <3> QED
      BY <3>1, <3>2, <3>3
  <2>2. Socket(c)' = Socket(c) /\ Socket(c) # Socket(d) /\ Socket(c) # <<d, opened[d] + 1>>
        /\ Socket(c) \in Sockets
    BY <1>5, <2>1, SocketOf DEF Socket
  <2>3. up'[Socket(c)] = up[Socket(c)] /\ down'[Socket(c)] = down[Socket(c)]
    <3>1. CASE Close(d)
      BY <1>1, <2>2, <3>1 DEF Close, Emit, DownTypes
    <3>2. CASE Connect(d)
      BY <1>1, <2>2, <3>2 DEF Connect, DownTypes
    <3>3. CASE Drop(d) \/ Deliver(d)
      BY <1>1, <2>2, <3>3 DEF Drop, Deliver, DownTypes
    <3>4. ASSUME NEW q \in Stories, Open(d, q)
          PROVE  up'[Socket(c)] = up[Socket(c)] /\ down'[Socket(c)] = down[Socket(c)]
      BY <1>1, <2>2, <3>4 DEF Open, Emit, DownTypes
    <3>5. ASSUME NEW m \in Messages, Type(d, m)
          PROVE  up'[Socket(c)] = up[Socket(c)] /\ down'[Socket(c)] = down[Socket(c)]
      BY <1>1, <2>2, <3>5 DEF Type, Emit, DownTypes
    <3> QED
      BY <3>1, <3>2, <3>3, <3>4, <3>5 DEF PageStep
  <2> QED
    BY <1>4, <2>1, <2>2, <2>3
<1>6. CASE c = d
  <2>1. ~Close(c)
    BY <1>1 DEF Close, Joined, PageTypes, Pages
  <2>2. ~Drop(c)
    BY DEF Drop
  <2>3. ~Connect(c)
    <3> SUFFICES ASSUME Connect(c) PROVE FALSE
      OBVIOUS
    <3>1. PICK s, b, e : /\ s = <<c, opened[c] + 1>> /\ b = buffer[c]
                         /\ e = Join(page[c].story, page[c].visit)
      OBVIOUS
    <3>2. page' = page /\ opened' = [opened EXCEPT ![c] = opened[c] + 1]
          /\ up' = [up EXCEPT ![s] = b \o IF page[c].story # None THEN <<e>> ELSE <<>>]
      BY <3>1 DEF Connect
    <3>3. page[c].story # None
      BY <3>2 DEF Joined
    <3>4. Socket(c)' = s /\ s \in Sockets
      <4>1. Socket(c)' = s
        BY <1>1, <3>1, <3>2 DEF Socket, PageTypes
      <4>2. Socket(c)' \in Sockets
        BY DEF SocketInv, Sockets, Socket, PageTypes
      <4> QED
        BY <4>1, <4>2
    <3>5. b \in Seq(UpPackets) /\ e \in UpPackets /\ e.op = "join"
      <4>1. page[c] \in Pages /\ b \in Seq(UpPackets)
        BY <1>1, <3>1 DEF PageTypes
      <4> QED
        BY <3>1, <3>3, <4>1, PacketTypes DEF Pages, Join
    <3>6. up'[s] = b \o <<e>>
      BY <1>1, <3>2, <3>3, <3>4
    <3>7. Len(b) \in Nat /\ Len(<<e>>) = 1 /\ <<e>> \in Seq(UpPackets) /\ <<e>>[1] = e
      BY <3>5, LenProperties
    <3>8. Len(b) + 1 \in DOMAIN (b \o <<e>>) /\ (b \o <<e>>)[Len(b) + 1] = e
      <4>1. /\ b \o <<e>> \in Seq(UpPackets) /\ Len(b \o <<e>>) = Len(b) + 1
            /\ \A k \in 1..(Len(b) + 1) :
                  (b \o <<e>>)[k] = IF k <= Len(b) THEN b[k] ELSE <<e>>[k - Len(b)]
        BY <3>5, <3>7, ConcatProperties
      <4>2. DOMAIN (b \o <<e>>) = 1..(Len(b) + 1)
        BY <4>1, LenProperties
      <4>3. Len(b) + 1 \in 1..(Len(b) + 1) /\ ~(Len(b) + 1 <= Len(b)) /\ (Len(b) + 1) - Len(b) = 1
        BY <3>7
      <4> QED
        BY <3>7, <4>1, <4>2, <4>3
    <3>9. PICK z, k : z = b \o <<e>> /\ k = Len(b) + 1
      OBVIOUS
    <3>10. up'[Socket(c)'] = z /\ k \in DOMAIN z /\ z[k] = e
      BY <3>4, <3>6, <3>8, <3>9
    <3> QED
      BY <3>5, <3>10 DEF Joined
  <2>4. c \in online /\ Socket(c)' = Socket(c) /\ Socket(c) \in Sockets
    <3>1. online' = online /\ opened' = opened
      BY <1>6, <2>1, <2>2, <2>3 DEF PageStep, Deliver, Open, Type
    <3>2. c \in online
      BY <3>1
    <3> QED
      BY <3>1, <3>2, SocketOf DEF Socket
  <2>5. ASSUME NEW e \in UpPackets, Emit(c, e)
        PROVE  up'[Socket(c)'] = Append(up[Socket(c)], e)
    BY <1>1, <2>4, <2>5 DEF Emit
  <2>6. up[Socket(c)] \in Seq(UpPackets)
    BY <1>1, <2>4
  <2>7. ASSUME NEW q \in Stories, Open(c, q) PROVE FALSE
    <3>1. PICK e, b, v : e = Join(q, v) /\ b = up[Socket(c)] /\ v = page[c].visit + 1
      OBVIOUS
    <3>2. e \in UpPackets /\ e.op = "join"
      <4>1. page[c] \in Pages
        BY <1>1 DEF PageTypes
      <4>2. page[c].visit \in Nat
        BY <4>1 DEF Pages
      <4> QED
        BY <3>1, <4>2, PacketTypes DEF Join
    <3>3. Emit(c, e)
      BY <2>4, <2>7, <3>1 DEF Open
    <3>4. PICK z, k : z = Append(b, e) /\ k = Len(b) + 1
      OBVIOUS
    <3>5. up'[Socket(c)'] = z /\ k \in DOMAIN z /\ z[k] = e
      <4>1. b \in Seq(UpPackets) /\ Len(b) \in Nat
        BY <2>6, <3>1, LenProperties
      <4>2. DOMAIN z = 1..k /\ z[k] = e /\ k \in 1..k
        BY <3>2, <3>4, <4>1, Appended
      <4> QED
        BY <2>5, <3>1, <3>2, <3>3, <3>4, <4>2
    <3> QED
      BY <3>2, <3>5 DEF Joined
  <2>8. ASSUME NEW m \in Messages, Type(c, m) PROVE Told(c)'
    <3>1. page' = page /\ down' = down /\ Emit(c, Message(m))
      BY <2>8 DEF Type
    <3>2. PICK b, z : b = up[Socket(c)] /\ z = Append(b, Message(m))
      OBVIOUS
    <3>3. up'[Socket(c)'] = z
      BY <2>5, <3>1, <3>2, PacketTypes
    <3>4. \A i \in DOMAIN b : i \in DOMAIN z /\ z[i] = b[i]
      <4>1. b \in Seq(UpPackets) /\ Message(m) \in UpPackets /\ Len(b) \in Nat
        BY <2>6, <3>2, PacketTypes, LenProperties
      <4>2. DOMAIN b = 1..Len(b) /\ DOMAIN z = 1..(Len(b) + 1) /\ \A i \in 1..Len(b) : z[i] = b[i]
        BY <3>2, <4>1, Appended
      <4> QED
        BY <4>1, <4>2
    <3>5. page[c].story # None /\ \A i \in DOMAIN z : z[i].op # "join"
      BY <3>1, <3>3 DEF Joined
    <3>6. Joined(c)
      BY <3>2, <3>4, <3>5 DEF Joined
    <3> QED
      BY <1>3, <2>4, <3>1, <3>6
  <2>9. CASE Deliver(c)
    <3>1. r = page[c].story
      BY <1>1, <2>9, DeliverTypes
    <3> QED
      BY <2>4, <2>9, <3>1, PresenceOnDelivery
  <2> QED
    BY <1>6, <2>1, <2>2, <2>3, <2>7, <2>8, <2>9 DEF PageStep
<1> QED
  BY <1>5, <1>6

LEMMA PresenceInvStep ==
  ASSUME PageTypes, ServerTypes, DownTypes, SeenInv, SocketInv, TextsInv, ThreadInv, VisitInv,
         PresenceInv, [Next]_vars, PageTypes', SocketInv'
  PROVE  PresenceInv'
<1> SUFFICES ASSUME crossed' = {}, NEW c \in online', Joined(c)', Quiet(page[c].story)'
             PROVE  Told(c)'
  BY DEF PresenceInv, Told
<1>1. crossed = {}
  BY CrossedGrows
<1>2. PICK r : r = page'[c].story
  OBVIOUS
<1>3. Quiet(r)'
  BY <1>2
<1>4. UNCHANGED pageVars => c \in online /\ r = page[c].story
  BY <1>2 DEF pageVars
<1>5. CASE \E s \in Sockets : Start(s)
  BY <1>1, <1>3, <1>4, <1>5, ServerStep, PresenceOnStart
<1>6. CASE \E s \in Sockets : Resume(s) /\ InTick(s)
  BY <1>1, <1>3, <1>4, <1>6, ServerStep, PresenceOnResume
<1>7. CASE \E d \in Readers : PageStep(d)
  BY <1>1, <1>2, <1>3, <1>7, PresenceOnPage
<1>8. ASSUME Calm, NEW s \in Sockets, QueryStep(s) PROVE Told(c)'
  BY <1>1, <1>3, <1>4, <1>8, ServerStep, PresenceOnQuery
<1>9. ASSUME Calm, NEW s \in Sockets, Disconnect(s) PROVE Told(c)'
  BY <1>1, <1>3, <1>4, <1>9, ServerStep, PresenceOnDisconnect
<1>10. CASE PostStep
  BY <1>1, <1>3, <1>4, <1>10, ServerStep, PresenceOnPost
<1>11. CASE Restart
  BY <1>11 DEF Restart
<1>12. CASE UNCHANGED vars
  <2>1. /\ page' = page /\ online' = online /\ opened' = opened /\ up' = up /\ down' = down
        /\ live' = live /\ rooms' = rooms /\ room' = room /\ work' = work /\ failed' = failed
    BY <1>12 DEF vars, pageVars, roomVars, history
  <2>2. Joined(c) /\ Quiet(page[c].story) /\ (Told(c)' <=> Told(c))
    BY <2>1 DEF Joined, Quiet, Owes, Told, Socket
  <2> QED
    BY <1>1, <2>1, <2>2 DEF PresenceInv, Told
<1> QED
  BY <1>5, <1>6, <1>7, <1>8, <1>9, <1>10, <1>11, <1>12, StepCases
-------------------------------------------------------------------------------
(* What the invariants say *)

\* Where a settled socket is.
LEMMA SettledPlace ==
  ASSUME PageTypes, ServerTypes, SocketInv, ThreadInv, NEW c \in Readers, Settled(c), c \notin crossed
  PROVE  rooms[Socket(c)] = {page[c].story} \ {None}
<1>1. c \in online /\ up[Socket(c)] = <<>> /\ work[Socket(c)] = {}
  BY DEF Settled
<1>2. Socket(c) \in live /\ Socket(c)[1] = c
  BY <1>1, SocketOf
<1>3. RoomInv(Socket(c)) /\ PathInv(Socket(c)) /\ ~InTick(Socket(c))
  BY <1>1, <1>2 DEF ThreadInv, InTick
<1>4. PICK ctx \in Contexts(Len(up[Socket(c)])) : Path(Socket(c), ctx)
  BY <1>3 DEF PathInv, Contexts
<1>5. ctx[0] = room[Socket(c)] /\ ctx[Len(up[Socket(c)])] = page[c].story
  BY <1>1, <1>3, <1>4 DEF Path, At
<1>6. Len(up[Socket(c)]) = 0
  BY <1>1
<1>7. room[Socket(c)] = page[c].story
  BY <1>5, <1>6
<1> QED
  BY <1>3, <1>7 DEF RoomInv

\* The sockets in a room are those of the readers of its story.
LEMMA RoomIsItsReaders ==
  ASSUME PageTypes, SocketInv, live = Heard, NEW r \in Stories,
         \A d \in online : rooms[Socket(d)] = {page[d].story} \ {None}
  PROVE  RoomSize(r, rooms) = Cardinality({d \in online : page[d].story = r})
<1> DEFINE A == {d \in online : page[d].story = r}
           B == {s \in Sockets : r \in rooms[s]}
           f == [d \in A |-> Socket(d)]
<1>1. \A d \in online : Socket(d) \in Sockets /\ Socket(d)[1] = d
  BY SocketOf
<1>2. f \in [A -> B]
  <2> SUFFICES ASSUME NEW d \in A PROVE Socket(d) \in B
    OBVIOUS
  <2> QED
    BY <1>1, ChatAssumption
<1>3. \A d \in A : \A e \in A : f[d] = f[e] => d = e
  BY <1>1
<1>4. \A s \in B : \E d \in A : f[d] = s
  <2> SUFFICES ASSUME NEW s \in B PROVE \E d \in A : f[d] = s
    OBVIOUS
  <2>1. s \in Heard
    BY DEF SocketInv
  <2>2. PICK d \in online : s = Socket(d)
    BY <2>1 DEF Heard
  <2>3. d \in A
    BY <2>2
  <2> QED
    BY <2>2, <2>3
<1>5. IsFiniteSet(A)
  <2>1. IsFiniteSet(Readers) /\ A \in SUBSET Readers
    BY ChatAssumption DEF PageTypes
  <2> QED
    BY <2>1, FS_Subset
<1>6. f \in Bijection(A, B)
  <2>1. f \in Injection(A, B)
    BY <1>2, <1>3 DEF Injection, IsInjective
  <2>2. f \in Surjection(A, B)
    BY <1>2, <1>4 DEF Surjection
  <2> QED
    BY <2>1, <2>2 DEF Bijection
<1>7. Cardinality(B) = Cardinality(A)
  <2>1. ExistsBijection(A, B)
    BY <1>6 DEF ExistsBijection
  <2> HIDE DEF A, B
  <2> QED
    BY <1>5, <2>1, FS_Bijection
<1> QED
  BY <1>7 DEF RoomSize

LEMMA PresenceInvSays ==
  ASSUME PageTypes, ServerTypes, SocketInv, ThreadInv, PresenceInv
  PROVE  PresenceIsHonest
<1> SUFFICES ASSUME crossed = {}, failed \cap live = {}, live = Heard,
                    \A d \in online : Settled(d), \A s \in Sockets : work[s] = {},
                    NEW c \in online, page[c].story # None
             PROVE  page[c].told = Cardinality({d \in online : page[d].story = page[c].story})
  BY DEF PresenceIsHonest
<1>1. PICK r : r = page[c].story
  OBVIOUS
<1>2. r \in Stories /\ c \in Readers
  BY <1>1 DEF PageTypes, Pages
<1>3. up[Socket(c)] = <<>> /\ down[Socket(c)] = <<>> /\ DOMAIN <<>> = {}
  BY DEF Settled
<1>4. Joined(c)
  BY <1>3 DEF Joined
<1>5. Quiet(r)
  BY DEF Quiet, Owes, ServerTypes
<1>6. Tells(page[c], <<>>, RoomSize(r, rooms))
  BY <1>1, <1>3, <1>4, <1>5 DEF PresenceInv
<1>7. page[c].told = RoomSize(r, rooms)
  BY <1>3, <1>6 DEF Tells
<1>8. \A d \in online : rooms[Socket(d)] = {page[d].story} \ {None}
  BY SettledPlace DEF PageTypes
<1>9. RoomSize(r, rooms) = Cardinality({d \in online : page[d].story = r})
  BY <1>2, <1>8, RoomIsItsReaders
<1> QED
  BY <1>1, <1>7, <1>9

LEMMA PlacesInvSays ==
  ASSUME ServerTypes, PlacesInv PROVE PostedWhereTyped
<1> SUFFICES ASSUME NEW r \in Stories, NEW m \in ToSet(thread[r])
             PROVE  typed[m][1] \in crossed \/ typed[m][2] = r
  BY DEF PostedWhereTyped
<1>1. PICK i \in DOMAIN thread[r] : m = thread[r][i]
  BY DEF ToSet
<1> QED
  BY <1>1 DEF PlacesInv, HomeOf

-------------------------------------------------------------------------------
(* Whole threads *)

PendingOf(ps) == {p.msg : p \in ps}
RacedOf(s, rc) == {m \in Messages : <<s, m>> \in rc}

\* A join of visit v is in queue q, or one of the handlers w answers it.
Awaited(q, w, v) ==
    \/ \E i \in DOMAIN q : q[i].op = "join" /\ q[i].visit = v
    \/ \E h \in w : h.pc # "left" /\ h.visit = v

\* The page of c has sent a join that is not answered.
Awaits(c) == Awaited(up[Socket(c)], work[Socket(c)], page[c].visit)

\* Of the joins in q, if any, the last is of visit v.
JoinsLast(q, v) ==
    \A i \in DOMAIN q : q[i].op = "join" =>
        \E j \in DOMAIN q : j >= i /\ q[j].op = "join" /\ q[j].visit = v

\* The last join that a page has on the way is its own.
JoinsInv == \A c \in online : page[c].story # None => JoinsLast(up[Socket(c)], page[c].visit)

AckOf(p, e) == e.op = "ack" /\ e.visit = p.visit

\* Packet i of q, which comes after packet k, brings message m.
Brings(q, k, i, m) == i \in DOMAIN q /\ i > k /\ q[i].op = "message" /\ q[i].msg = m

\* A page that starts from messages b gets m, or has it.
Has(b, q, k, m) == (\E i \in DOMAIN b : b[i] = m) \/ \E i \in DOMAIN q : Brings(q, k, i, m)

Once(b, q, k, m) ==
    /\ \A i \in DOMAIN b : \A j \in DOMAIN b : b[i] = m /\ b[j] = m => i = j
    /\ \A i \in DOMAIN q : \A j \in DOMAIN q : Brings(q, k, i, m) /\ Brings(q, k, j, m) => i = j
    /\ \A i \in DOMAIN b : \A j \in DOMAIN q : ~(b[i] = m /\ Brings(q, k, j, m))

\* What a page gets that starts from b, of a thread t where messages ps are not yet
\* sent out and messages rs were while a join read.
Complete(t, ps, rs, b, q, k) ==
    /\ Len(b) <= ShownSize
    /\ \A m \in Messages : Has(b, q, k, m) => m \in ToSet(t)
    /\ \A m \in Messages \ rs :
        /\ Once(b, q, k, m)
        /\ Has(b, q, k, m) => m \notin ps
        /\ m \in ToSet(LastOf(t, HistorySize)) \ ps => Has(b, q, k, m) \/ Len(b) = ShownSize

\* Page p starts from the answer to its join, the last one in q, or from what it shows.
Starts(p, q, k) == (k = 0 \/ AckOf(p, q[k])) /\ \A j \in DOMAIN q : j > k => ~AckOf(p, q[j])
Base(p, q, k) == IF k = 0 THEN p.shown ELSE q[k].history

Whole(p, q, t, ps, rs) ==
    \E k \in 0..Len(q) : Starts(p, q, k) /\ Complete(t, ps, rs, Base(p, q, k), q, k)

WholeInv ==
    \A c \in online :
        page[c].story # None /\ c \notin crossed /\ Socket(c) \notin failed /\ ~Awaits(c) =>
            Whole(page[c], down[Socket(c)], thread[page[c].story], PendingOf(posts),
                  RacedOf(Socket(c), raced))

\* The places of the last n.
LEMMA LastOfFields ==
  ASSUME NEW S, NEW q \in Seq(S), NEW n \in Nat
  PROVE  \E d \in 0..Len(q) :
            /\ Len(LastOf(q, n)) = Len(q) - d /\ DOMAIN LastOf(q, n) = 1..(Len(q) - d)
            /\ \A i \in 1..(Len(q) - d) : LastOf(q, n)[i] = q[d + i]
            /\ Len(q) - d <= n /\ (d > 0 => Len(q) - d = n)
<1>1. PICK l, d, x : l = Len(q) /\ d = (IF l > n THEN l - n ELSE 0) /\ x = LastOf(q, n)
  OBVIOUS
<1>2. l \in Nat /\ d \in 0..l /\ l - d <= n /\ (d > 0 => l - d = n)
  BY <1>1, LenProperties
<1>3. PICK a : a = d + 1
  OBVIOUS
<1>4. a \in Int /\ l \in Int /\ (IF l > n THEN l - n + 1 ELSE 1) = a
  BY <1>1, <1>2, <1>3
<1>5. x = SubSeq(q, a, l)
  BY <1>1, <1>4 DEF LastOf
<1>6. \A i \in a..l : q[i] \in S
  BY <1>1, <1>2, <1>3, ElementOfSeq
<1>7. /\ x \in Seq(S) /\ Len(x) = (IF a <= l THEN l - a + 1 ELSE 0)
      /\ \A i \in 1..(l - a + 1) : x[i] = q[a + i - 1]
  BY <1>4, <1>5, <1>6, SubSeqProperties
<1>8. Len(x) = l - d /\ \A i \in 1..(l - d) : x[i] = q[d + i]
  <2>1. Len(x) = l - d
    BY <1>2, <1>3, <1>7
  <2>2. ASSUME NEW i \in 1..(l - d) PROVE x[i] = q[d + i]
    <3>1. i \in 1..(l - a + 1) /\ a + i - 1 = d + i
      BY <1>2, <1>3
    <3> QED
      BY <1>7, <3>1
  <2> QED
    BY <2>1, <2>2
<1>9. DOMAIN x = 1..(l - d)
  BY <1>7, <1>8, LenProperties
<1> QED
  BY <1>1, <1>2, <1>8, <1>9

\* One more packet.
LEMMA BringsMore ==
  ASSUME NEW q \in Seq(DownPackets), NEW e \in DownPackets, NEW k \in 0..Len(q), NEW m
  PROVE  \A i : Brings(Append(q, e), k, i, m) <=>
                  \/ Brings(q, k, i, m)
                  \/ i = Len(q) + 1 /\ e.op = "message" /\ e.msg = m
<1>1. PICK n, l : n = Append(q, e) /\ l = Len(q)
  OBVIOUS
<1>2. /\ DOMAIN n = 1..(l + 1) /\ n[l + 1] = e /\ l \in Nat /\ DOMAIN q = 1..l
      /\ \A j \in 1..l : n[j] = q[j]
  BY <1>1, Appended, LenProperties
<1>3. k \in 0..l
  BY <1>1
<1> SUFFICES ASSUME NEW i
             PROVE  Brings(n, k, i, m) <=>
                      Brings(q, k, i, m) \/ (i = l + 1 /\ e.op = "message" /\ e.msg = m)
  BY <1>1
<1>4. CASE i \in 1..l
  BY <1>2, <1>4 DEF Brings
<1>5. CASE i = l + 1
  BY <1>2, <1>3, <1>5 DEF Brings
<1>6. CASE i \notin 1..(l + 1)
  BY <1>2, <1>6 DEF Brings
<1> QED
  BY <1>2, <1>4, <1>5, <1>6

LEMMA HasMore ==
  ASSUME NEW q \in Seq(DownPackets), NEW e \in DownPackets, NEW k \in 0..Len(q), NEW b, NEW m
  PROVE  /\ Has(b, Append(q, e), k, m) <=> Has(b, q, k, m) \/ (e.op = "message" /\ e.msg = m)
         /\ Once(b, q, k, m) /\ ((e.op = "message" /\ e.msg = m) => ~Has(b, q, k, m))
              => Once(b, Append(q, e), k, m)
<1>1. PICK n, l : n = Append(q, e) /\ l = Len(q)
  OBVIOUS
<1>2. l \in Nat /\ l + 1 \in DOMAIN n
  BY <1>1, Appended, LenProperties
<1>3. PICK new \in BOOLEAN : new <=> (e.op = "message" /\ e.msg = m)
  OBVIOUS
<1>4. \A i : Brings(n, k, i, m) <=> Brings(q, k, i, m) \/ (i = l + 1 /\ new)
  BY <1>1, <1>3, BringsMore
<1>5. \A i : Brings(q, k, i, m) => i \in DOMAIN q
  BY DEF Brings
<1>6. \A i : Brings(n, k, i, m) => i \in DOMAIN n
  BY DEF Brings
<1>7. Has(b, n, k, m) <=> Has(b, q, k, m) \/ new
  BY <1>2, <1>4, <1>5, <1>6 DEF Has
<1>8. ASSUME Once(b, q, k, m), new => ~Has(b, q, k, m) PROVE Once(b, n, k, m)
  <2>1. \A i \in DOMAIN n : \A j \in DOMAIN n : Brings(n, k, i, m) /\ Brings(n, k, j, m) => i = j
    BY <1>4, <1>5, <1>8 DEF Once, Has
  <2>2. \A i \in DOMAIN b : \A j \in DOMAIN n : ~(b[i] = m /\ Brings(n, k, j, m))
    BY <1>4, <1>5, <1>8 DEF Once, Has
  <2> QED
    BY <1>8, <2>1, <2>2 DEF Once
<1> QED
  BY <1>1, <1>3, <1>7, <1>8

\* One packet less, which brought no m, or nothing that counts.
LEMMA BringsLess ==
  ASSUME NEW q \in Seq(DownPackets), q # <<>>, NEW k \in 0..Len(q), NEW o \in Nat,
         o = (IF k = 0 THEN 0 ELSE k - 1), NEW m, ~Brings(q, k, 1, m)
  PROVE  /\ \A i : Brings(Tail(q), o, i, m) => i \in Nat /\ Brings(q, k, i + 1, m)
         /\ \A i : Brings(q, k, i, m) => i \in Nat /\ Brings(Tail(q), o, i - 1, m)
<1>1. PICK t, l : t = Tail(q) /\ l = Len(q)
  OBVIOUS
<1>2. /\ DOMAIN t = 1..(l - 1) /\ l \in Nat \ {0} /\ DOMAIN q = 1..l
      /\ \A j \in 1..(l - 1) : t[j] = q[j + 1] /\ j + 1 \in 1..l
  BY <1>1, Popped
<1>3. k \in 0..l
  BY <1>1
<1>4. ASSUME NEW i, Brings(t, o, i, m) PROVE i \in Nat /\ Brings(q, k, i + 1, m)
  <2>1. i \in 1..(l - 1) /\ i > o /\ t[i].op = "message" /\ t[i].msg = m
    BY <1>2, <1>4 DEF Brings
  <2>2. t[i] = q[i + 1] /\ i + 1 \in DOMAIN q /\ i + 1 > k /\ i \in Nat
    BY <1>2, <1>3, <2>1
  <2> QED
    BY <2>1, <2>2 DEF Brings
<1>5. ASSUME NEW i, Brings(q, k, i, m) PROVE i \in Nat /\ Brings(t, o, i - 1, m)
  <2>1. i \in 1..l /\ i > k /\ q[i].op = "message" /\ q[i].msg = m /\ i # 1
    BY <1>2, <1>5 DEF Brings
  <2>2. PICK j : j = i - 1
    OBVIOUS
  <2>3. j \in 1..(l - 1) /\ j + 1 = i /\ j > o /\ i \in Nat
    BY <1>2, <1>3, <2>1, <2>2
  <2>4. t[j] = q[i]
    BY <1>2, <2>3
  <2> QED
    BY <1>2, <2>1, <2>2, <2>3, <2>4 DEF Brings
<1> QED
  BY <1>1, <1>4, <1>5

LEMMA HasLess ==
  ASSUME NEW q \in Seq(DownPackets), q # <<>>, NEW k \in 0..Len(q), NEW o \in Nat,
         o = (IF k = 0 THEN 0 ELSE k - 1), NEW b, NEW m, ~Brings(q, k, 1, m)
  PROVE  /\ Has(b, Tail(q), o, m) <=> Has(b, q, k, m)
         /\ Once(b, q, k, m) => Once(b, Tail(q), o, m)
<1>1. PICK t : t = Tail(q)
  OBVIOUS
<1>2. /\ \A i : Brings(t, o, i, m) => i \in Nat /\ Brings(q, k, i + 1, m)
      /\ \A i : Brings(q, k, i, m) => i \in Nat /\ Brings(t, o, i - 1, m)
  BY <1>1, BringsLess
<1>3. /\ \A i : Brings(t, o, i, m) => i \in DOMAIN t
      /\ \A i : Brings(q, k, i, m) => i \in DOMAIN q
  BY DEF Brings
<1>4. Has(b, t, o, m) <=> Has(b, q, k, m)
  BY <1>2, <1>3 DEF Has
<1>5. ASSUME Once(b, q, k, m) PROVE Once(b, t, o, m)
  <2>1. ASSUME NEW i, NEW j, Brings(t, o, i, m), Brings(t, o, j, m) PROVE i = j
    <3>1. i \in Nat /\ j \in Nat /\ Brings(q, k, i + 1, m) /\ Brings(q, k, j + 1, m)
      BY <1>2, <2>1
    <3>2. i + 1 = j + 1
      BY <1>3, <1>5, <3>1 DEF Once
    <3> QED
      BY <3>1, <3>2
  <2>2. ASSUME NEW i \in DOMAIN b, NEW j, b[i] = m, Brings(t, o, j, m) PROVE FALSE
    <3>1. Brings(q, k, j + 1, m)
      BY <1>2, <2>2
    <3> QED
      BY <1>3, <1>5, <2>2, <3>1 DEF Once
  <2> QED
    BY <1>5, <2>1, <2>2 DEF Once
<1> QED
  BY <1>1, <1>4, <1>5

\* The places of what a page keeps.
LEMMA LastPlaces ==
  ASSUME NEW a \in Seq(Messages), NEW c, c = LastOf(a, ShownSize), NEW l, Len(a) = l
  PROVE  \E d \in 0..l : /\ Len(c) = l - d /\ DOMAIN c = 1..(l - d)
                         /\ \A i \in 1..(l - d) : c[i] = a[d + i]
                         /\ l - d <= ShownSize /\ (d > 0 => l - d = ShownSize)
<1>1. ShownSize \in Nat
  BY ChatAssumption
<1> QED
  BY <1>1, LastOfFields

\* A delivered message: it is shown, and a full page drops its first.
LEMMA ShownMore ==
  ASSUME NEW b \in Seq(Messages), Len(b) <= ShownSize, NEW n \in Messages, NEW c,
         c = LastOf(Append(b, n), ShownSize), NEW q \in Seq(DownPackets), q # <<>>,
         q[1].op = "message", q[1].msg = n, NEW m
  PROVE  /\ Has(c, Tail(q), 0, m) => Has(b, q, 0, m)
         /\ Once(b, q, 0, m) => Once(c, Tail(q), 0, m)
         /\ Has(b, q, 0, m) => Has(c, Tail(q), 0, m) \/ Len(c) = ShownSize
         /\ Len(c) <= ShownSize /\ (Len(b) = ShownSize => Len(c) = ShownSize)
<1>1. PICK a, t, l, u : a = Append(b, n) /\ t = Tail(q) /\ l = Len(b) /\ u = Len(q)
  OBVIOUS
<1>0. /\ Len(q) \in Nat \ {0} /\ DOMAIN q = 1..Len(q) /\ DOMAIN Tail(q) = 1..(Len(q) - 1)
      /\ \A j \in 1..(Len(q) - 1) : Tail(q)[j] = q[j + 1] /\ j + 1 \in 1..Len(q)
  BY Popped
<1>2. /\ a \in Seq(Messages) /\ Len(a) = l + 1 /\ a[l + 1] = n /\ l \in Nat
      /\ DOMAIN b = 1..l /\ \A i \in 1..l : a[i] = b[i]
  BY <1>1, Appended, LenProperties
<1>3. ShownSize \in Nat /\ l <= ShownSize
  BY <1>1, ChatAssumption
<1>14. PICK z : z = l + 1
  OBVIOUS
<1>4. PICK d \in 0..z : /\ Len(c) = z - d /\ DOMAIN c = 1..(z - d)
                        /\ \A i \in 1..(z - d) : c[i] = a[d + i]
                        /\ z - d <= ShownSize /\ (d > 0 => z - d = ShownSize)
  <2>1. c = LastOf(a, ShownSize)
    BY <1>1
  <2>2. Len(a) = z /\ a \in Seq(Messages)
    BY <1>2, <1>14
  <2> QED
    BY <2>1, <2>2, LastPlaces
<1>5. /\ DOMAIN t = 1..(u - 1) /\ u \in Nat \ {0} /\ DOMAIN q = 1..u
      /\ \A j \in 1..(u - 1) : t[j] = q[j + 1] /\ j + 1 \in 1..u
  <2>1. u = Len(q) /\ t = Tail(q)
    BY <1>1
  <2> QED
    BY <1>0, <2>1
<1>6. Brings(q, 0, 1, m) <=> m = n
  BY <1>5 DEF Brings
<1>7. ASSUME NEW i, Brings(t, 0, i, m) PROVE i \in Nat \ {0} /\ Brings(q, 0, i + 1, m)
  <2>1. i \in 1..(u - 1) /\ t[i].op = "message" /\ t[i].msg = m
    BY <1>5, <1>7 DEF Brings
  <2>2. t[i] = q[i + 1] /\ i + 1 \in DOMAIN q /\ i + 1 > 0 /\ i \in Nat \ {0}
    BY <1>5, <2>1
  <2> QED
    BY <2>1, <2>2 DEF Brings
<1>8. ASSUME NEW i, Brings(q, 0, i, m), i # 1 PROVE \E j \in DOMAIN t : Brings(t, 0, j, m)
  <2>1. i \in 1..u /\ q[i].op = "message" /\ q[i].msg = m
    BY <1>5, <1>8 DEF Brings
  <2>2. PICK j : j = i - 1
    OBVIOUS
  <2>3. j \in 1..(u - 1) /\ j + 1 = i /\ j > 0
    BY <1>5, <1>8, <2>1, <2>2
  <2>4. t[j] = q[i]
    BY <1>5, <2>3
  <2> QED
    BY <1>5, <2>1, <2>3, <2>4 DEF Brings
<1>9. ASSUME NEW i \in DOMAIN c
      PROVE  /\ d + i \in 1..z /\ i \in Nat
             /\ d + i \in 1..l => c[i] = b[d + i] /\ d + i \in DOMAIN b
             /\ d + i \notin 1..l => c[i] = n /\ d + i = z
  <2>1. d + i \in 1..z /\ i \in Nat /\ c[i] = a[d + i]
    BY <1>2, <1>14, <1>4, <1>9
  <2>2. d + i \in 1..l => a[d + i] = b[d + i] /\ d + i \in DOMAIN b
    BY <1>2
  <2>3. d + i \notin 1..l => d + i = z /\ a[d + i] = n
    BY <1>2, <1>14, <2>1
  <2> QED
    BY <2>1, <2>2, <2>3
<1>10. ASSUME Has(c, t, 0, m) PROVE Has(b, q, 0, m)
  <2>1. CASE \E i \in DOMAIN t : Brings(t, 0, i, m)
    <3>1. PICK i : Brings(q, 0, i, m)
      BY <1>7, <2>1
    <3> QED
      BY <3>1 DEF Has, Brings
  <2>2. ASSUME NEW i \in DOMAIN c, c[i] = m PROVE Has(b, q, 0, m)
    <3>1. CASE d + i \in 1..l
      BY <1>9, <2>2, <3>1 DEF Has
    <3>2. CASE d + i \notin 1..l
      <4>1. Brings(q, 0, 1, m)
        BY <1>6, <1>9, <2>2, <3>2
      <4> QED
        BY <4>1 DEF Has, Brings
    <3> QED
      BY <3>1, <3>2
  <2> QED
    BY <1>10, <2>1, <2>2 DEF Has
<1>11. ASSUME Once(b, q, 0, m) PROVE Once(c, t, 0, m)
  <2>0. \A i : Brings(q, 0, i, m) => i \in DOMAIN q
    BY DEF Brings
  <2>1. ASSUME NEW i \in DOMAIN c, NEW j \in DOMAIN c, c[i] = m, c[j] = m PROVE i = j
    <3>1. CASE d + i \in 1..l /\ d + j \in 1..l
      <4>1. b[d + i] = m /\ b[d + j] = m /\ d + i \in DOMAIN b /\ d + j \in DOMAIN b
        BY <1>9, <2>1, <3>1
      <4>2. d + i = d + j
        BY <1>11, <4>1 DEF Once
      <4> QED
        BY <1>9, <4>2
    <3>2. CASE d + i \notin 1..l /\ d + j \notin 1..l
      BY <1>9, <3>2
    <3>3. ASSUME NEW x \in DOMAIN c, NEW y \in DOMAIN c, c[x] = m, c[y] = m,
                 d + x \in 1..l, d + y \notin 1..l
          PROVE  FALSE
      <4>1. b[d + x] = m /\ d + x \in DOMAIN b /\ m = n
        BY <1>9, <3>3
      <4> QED
        BY <1>6, <1>11, <2>0, <4>1 DEF Once
    <3> QED
      BY <2>1, <3>1, <3>2, <3>3
  <2>2. ASSUME NEW i \in DOMAIN t, NEW j \in DOMAIN t, Brings(t, 0, i, m), Brings(t, 0, j, m)
        PROVE  i = j
    <3>1. i \in Nat /\ j \in Nat /\ Brings(q, 0, i + 1, m) /\ Brings(q, 0, j + 1, m)
      BY <1>7, <2>2
    <3>2. i + 1 = j + 1
      BY <1>11, <2>0, <3>1 DEF Once
    <3> QED
      BY <3>1, <3>2
  <2>3. ASSUME NEW i \in DOMAIN c, NEW j \in DOMAIN t, c[i] = m, Brings(t, 0, j, m) PROVE FALSE
    <3>1. j \in Nat \ {0} /\ Brings(q, 0, j + 1, m)
      BY <1>7, <2>3
    <3>2. CASE d + i \in 1..l
      BY <1>9, <1>11, <2>0, <2>3, <3>1, <3>2 DEF Once
    <3>3. CASE d + i \notin 1..l
      <4>1. Brings(q, 0, 1, m)
        BY <1>6, <1>9, <2>3, <3>3
      <4>2. j + 1 = 1
        BY <1>11, <2>0, <3>1, <4>1 DEF Once
      <4> QED
        BY <3>1, <4>2
    <3> QED
      BY <3>2, <3>3
  <2> QED
    BY <2>1, <2>2, <2>3 DEF Once
<1>12. ASSUME Has(b, q, 0, m), Len(c) # ShownSize PROVE Has(c, t, 0, m)
  <2>1. d = 0
    BY <1>2, <1>4, <1>12, <1>14
  <2>2. ASSUME NEW i \in DOMAIN b, b[i] = m PROVE Has(c, t, 0, m)
    <3>1. i \in DOMAIN c /\ c[i] = m
      BY <1>2, <1>4, <1>14, <2>1, <2>2
    <3> QED
      BY <3>1 DEF Has
  <2>3. ASSUME NEW i, Brings(q, 0, i, m) PROVE Has(c, t, 0, m)
    <3>1. CASE i = 1
      <4>1. z \in DOMAIN c /\ c[z] = m
        BY <1>2, <1>4, <1>6, <1>14, <2>1, <2>3, <3>1
      <4> QED
        BY <4>1 DEF Has
    <3>2. CASE i # 1
      BY <1>8, <2>3, <3>2 DEF Has
    <3> QED
      BY <3>1, <3>2
  <2> QED
    BY <1>12, <2>2, <2>3 DEF Has
<1>13. Len(c) <= ShownSize /\ (l = ShownSize => Len(c) = ShownSize)
  BY <1>2, <1>3, <1>4, <1>14
<1> QED
  BY <1>1, <1>10, <1>11, <1>12, <1>13

\* A page that gets a packet gets what it was to get.
LEMMA WholeOnDelivery ==
  ASSUME NEW p \in Pages, NEW o, NEW q \in Seq(DownPackets), q # <<>>,
         NEW t, NEW ps, NEW rs, Whole(p, q, t, ps, rs), o.visit = p.visit,
         q[1].op = "message" => o.shown = LastOf(Append(p.shown, q[1].msg), ShownSize),
         q[1].op # "message" => o.shown = IF AckOf(p, q[1]) THEN q[1].history ELSE p.shown
  PROVE  Whole(o, Tail(q), t, ps, rs)
<1>1. PICK k \in 0..Len(q) : Starts(p, q, k) /\ Complete(t, ps, rs, Base(p, q, k), q, k)
  BY DEF Whole
<1>2. PICK r, u, x : r = Tail(q) /\ u = Len(q) /\ x = (IF k = 0 THEN 0 ELSE k - 1)
  OBVIOUS
<1>3. /\ DOMAIN r = 1..(u - 1) /\ u \in Nat \ {0} /\ DOMAIN q = 1..u /\ Len(r) = u - 1
      /\ \A j \in 1..(u - 1) : r[j] = q[j + 1] /\ j + 1 \in 1..u
  BY <1>2, Popped
<1>4. k \in 0..u /\ x \in Nat /\ x \in 0..(u - 1)
  BY <1>2, <1>3
<1>5. \A e : AckOf(o, e) <=> AckOf(p, e)
  BY DEF AckOf
<1>6. Starts(o, r, x)
  <2>1. ASSUME NEW j \in DOMAIN r, j > x PROVE ~AckOf(o, r[j])
    <3>1. r[j] = q[j + 1] /\ j + 1 \in DOMAIN q /\ j + 1 > k
      BY <1>2, <1>3, <1>4, <2>1
    <3> QED
      BY <1>1, <1>5, <3>1 DEF Starts
  <2>2. ASSUME x # 0 PROVE AckOf(o, r[x])
    <3>1. r[x] = q[k] /\ k # 0
      <4>1. x \in 1..(u - 1) /\ x + 1 = k
        BY <1>2, <1>4, <2>2
      <4> QED
        BY <1>3, <4>1
    <3> QED
      BY <1>1, <1>5, <3>1 DEF Starts
  <2> QED
    BY <2>1, <2>2 DEF Starts
<1>7. ASSUME Base(o, r, x) = Base(p, q, k), \A m : ~Brings(q, k, 1, m) PROVE Whole(o, r, t, ps, rs)
  <2>1. PICK b : b = Base(p, q, k)
    OBVIOUS
  <2>2. \A m : /\ Has(b, r, x, m) <=> Has(b, q, k, m)
               /\ Once(b, q, k, m) => Once(b, r, x, m)
    BY <1>2, <1>4, <1>7, HasLess
  <2>3. Complete(t, ps, rs, b, q, k)
    BY <1>1, <2>1
  <2>4. Complete(t, ps, rs, b, r, x)
    BY <2>2, <2>3 DEF Complete
  <2> QED
    BY <1>3, <1>4, <1>6, <1>7, <2>1, <2>4 DEF Whole
<1>8. CASE k > 1
  <2>1. r[x] = q[k] /\ x # 0
    <3>1. x \in 1..(u - 1) /\ x + 1 = k
      BY <1>2, <1>4, <1>8
    <3> QED
      BY <1>3, <3>1
  <2>2. Base(o, r, x) = Base(p, q, k)
    BY <1>8, <2>1 DEF Base
  <2>3. \A m : ~Brings(q, k, 1, m)
    BY <1>4, <1>8 DEF Brings
  <2> QED
    BY <1>2, <1>7, <2>2, <2>3
<1>9. CASE k = 1
  <2>1. x = 0 /\ AckOf(p, q[1])
    BY <1>1, <1>2, <1>9 DEF Starts
  <2>2. o.shown = q[1].history
    BY <2>1 DEF AckOf
  <2>3. Base(o, r, x) = Base(p, q, k)
    BY <1>9, <2>1, <2>2 DEF Base
  <2>4. \A m : ~Brings(q, k, 1, m)
    BY <1>9 DEF Brings
  <2> QED
    BY <1>2, <1>7, <2>3, <2>4
<1>10. CASE k = 0 /\ q[1].op # "message"
  <2>1. x = 0 /\ ~AckOf(p, q[1])
    BY <1>1, <1>2, <1>3, <1>10 DEF Starts
  <2>2. Base(o, r, x) = Base(p, q, k)
    BY <1>10, <2>1 DEF Base
  <2>3. \A m : ~Brings(q, k, 1, m)
    BY <1>10 DEF Brings
  <2> QED
    BY <1>2, <1>7, <2>2, <2>3
<1>11. CASE k = 0 /\ q[1].op = "message"
  <2>1. PICK b, c, n : b = p.shown /\ n = q[1].msg /\ c = LastOf(Append(b, n), ShownSize)
    OBVIOUS
  <2>2. b \in Seq(Messages) /\ n \in Messages
    <3>1. q[1] \in DownPackets
      BY Popped
    <3> QED
      BY <1>11, <2>1, <3>1, DownFields DEF Pages
  <2>3. x = 0 /\ Base(p, q, k) = b /\ Base(o, r, x) = c
    BY <1>2, <1>11, <2>1 DEF Base
  <2>4. Complete(t, ps, rs, b, q, 0)
    BY <1>1, <1>11, <2>3
  <2>5. Len(b) <= ShownSize
    BY <2>4 DEF Complete
  <2>6. \A m : /\ Has(c, r, 0, m) => Has(b, q, 0, m)
               /\ Once(b, q, 0, m) => Once(c, r, 0, m)
               /\ Has(b, q, 0, m) => Has(c, r, 0, m) \/ Len(c) = ShownSize
               /\ Len(c) <= ShownSize /\ (Len(b) = ShownSize => Len(c) = ShownSize)
    <3>1. c = LastOf(Append(b, n), ShownSize) /\ q[1].op = "message" /\ q[1].msg = n
      BY <1>11, <2>1
    <3>2. q \in Seq(DownPackets) /\ q # <<>> /\ r = Tail(q)
      BY <1>2
    <3> QED
      BY ONLY <2>2, <2>5, <3>1, <3>2, ShownMore
  <2>7. Complete(t, ps, rs, c, r, 0)
    BY <2>4, <2>6 DEF Complete
  <2> QED
    BY <1>2, <1>4, <1>3, <1>6, <2>3, <2>7 DEF Whole
<1> QED
  BY <1>4, <1>8, <1>9, <1>10, <1>11

\* A packet that brings no message and does not answer the page.
LEMMA WholeOnMore ==
  ASSUME NEW p, NEW q \in Seq(DownPackets), NEW e \in DownPackets, NEW t, NEW ps, NEW rs,
         Whole(p, q, t, ps, rs), e.op # "message", ~AckOf(p, e)
  PROVE  Whole(p, Append(q, e), t, ps, rs)
<1>1. PICK k \in 0..Len(q) : Starts(p, q, k) /\ Complete(t, ps, rs, Base(p, q, k), q, k)
  BY DEF Whole
<1>2. PICK n, l, b : n = Append(q, e) /\ l = Len(q) /\ b = Base(p, q, k)
  OBVIOUS
<1>3. /\ DOMAIN n = 1..(l + 1) /\ n[l + 1] = e /\ l \in Nat /\ DOMAIN q = 1..l /\ Len(n) = l + 1
      /\ \A j \in 1..l : n[j] = q[j]
  BY <1>2, Appended, LenProperties
<1>4. k \in 0..l /\ k \in 0..Len(n)
  BY <1>2, <1>3
<1>5. Starts(p, n, k) /\ Base(p, n, k) = b
  <2>1. k # 0 => n[k] = q[k]
    BY <1>3, <1>4
  <2>2. \A j \in DOMAIN n : j = l + 1 \/ (j \in DOMAIN q /\ n[j] = q[j])
    BY <1>3
  <2> QED
    BY <1>1, <1>2, <1>3, <2>1, <2>2 DEF Starts, Base
<1>6. \A m : /\ Has(b, n, k, m) <=> Has(b, q, k, m)
             /\ Once(b, q, k, m) => Once(b, n, k, m)
  BY <1>2, <1>4, HasMore
<1>7. Complete(t, ps, rs, b, q, k)
  BY <1>1, <1>2
<1>8. Complete(t, ps, rs, b, n, k)
  BY <1>6, <1>7 DEF Complete
<1> QED
  BY <1>2, <1>4, <1>5, <1>8 DEF Whole

\* A message that was still to be sent out.
LEMMA WholeOnSent ==
  ASSUME NEW p, NEW q \in Seq(DownPackets), NEW e \in DownPackets, NEW t, NEW ps, NEW rs,
         Whole(p, q, t, ps, rs), e.op = "message", e.msg \in ps, e.msg \in ToSet(t)
  PROVE  Whole(p, Append(q, e), t, ps \ {e.msg}, rs)
<1>1. PICK k \in 0..Len(q) : Starts(p, q, k) /\ Complete(t, ps, rs, Base(p, q, k), q, k)
  BY DEF Whole
<1>2. PICK n, l, b : n = Append(q, e) /\ l = Len(q) /\ b = Base(p, q, k)
  OBVIOUS
<1>3. /\ DOMAIN n = 1..(l + 1) /\ n[l + 1] = e /\ l \in Nat /\ DOMAIN q = 1..l /\ Len(n) = l + 1
      /\ \A j \in 1..l : n[j] = q[j]
  BY <1>2, Appended, LenProperties
<1>4. k \in 0..l /\ k \in 0..Len(n)
  BY <1>2, <1>3
<1>5. Starts(p, n, k) /\ Base(p, n, k) = b
  <2>1. k # 0 => n[k] = q[k]
    BY <1>3, <1>4
  <2>2. \A j \in DOMAIN n : j = l + 1 \/ (j \in DOMAIN q /\ n[j] = q[j])
    BY <1>3
  <2>3. ~AckOf(p, e)
    BY DEF AckOf
  <2> QED
    BY <1>1, <1>2, <1>3, <2>1, <2>2, <2>3 DEF Starts, Base
<1>6. \A m : /\ Has(b, n, k, m) <=> Has(b, q, k, m) \/ e.msg = m
             /\ Once(b, q, k, m) /\ (e.msg = m => ~Has(b, q, k, m)) => Once(b, n, k, m)
  BY <1>2, <1>4, HasMore
<1>7. Complete(t, ps, rs, b, q, k)
  BY <1>1, <1>2
<1>8. Complete(t, ps \ {e.msg}, rs, b, n, k)
  <2>1. Len(b) <= ShownSize /\ \A m \in Messages : Has(b, n, k, m) => m \in ToSet(t)
    BY <1>6, <1>7 DEF Complete
  <2>2. ASSUME NEW m \in Messages \ rs
        PROVE  /\ Once(b, n, k, m)
               /\ Has(b, n, k, m) => m \notin ps \ {e.msg}
               /\ m \in ToSet(LastOf(t, HistorySize)) \ (ps \ {e.msg}) =>
                      Has(b, n, k, m) \/ Len(b) = ShownSize
    <3>1. /\ Once(b, q, k, m) /\ (Has(b, q, k, m) => m \notin ps)
          /\ m \in ToSet(LastOf(t, HistorySize)) \ ps => Has(b, q, k, m) \/ Len(b) = ShownSize
      BY <1>7 DEF Complete
    <3> QED
      BY <1>6, <3>1
  <2> QED
    BY <2>1, <2>2 DEF Complete
<1> QED
  BY <1>2, <1>4, <1>5, <1>8 DEF Whole

\* What is sent out elsewhere does not count, nor what more was sent while a join read.
LEMMA WholeWithin ==
  ASSUME NEW p, NEW q, NEW t, NEW ps, NEW rs, Whole(p, q, t, ps, rs), NEW os, NEW us,
         \A m \in ToSet(t) : m \in os <=> m \in ps, rs \subseteq us,
         t \in Seq(Messages)
  PROVE  Whole(p, q, t, os, us)
<1>1. PICK k \in 0..Len(q) : Starts(p, q, k) /\ Complete(t, ps, rs, Base(p, q, k), q, k)
  BY DEF Whole
<1>2. PICK b : b = Base(p, q, k)
  OBVIOUS
<1>3. ToSet(LastOf(t, HistorySize)) \subseteq ToSet(t)
  <2>0. HistorySize \in Nat
    BY ChatAssumption
  <2>1. PICK v, n : v = LastOf(t, HistorySize) /\ n = Len(t)
    OBVIOUS
  <2>2. PICK d \in 0..n : DOMAIN v = 1..(n - d) /\ \A i \in 1..(n - d) : v[i] = t[d + i]
    BY <2>0, <2>1, LastOfFields
  <2>3. n \in Nat /\ DOMAIN t = 1..n
    BY <2>1, LenProperties
  <2>4. \A i \in 1..(n - d) : d + i \in 1..n
    BY <2>3
  <2> QED
    BY <2>1, <2>2, <2>3, <2>4 DEF ToSet
<1>4. Complete(t, ps, rs, b, q, k)
  BY <1>1, <1>2
<1>5. Complete(t, os, us, b, q, k)
  <2>1. Len(b) <= ShownSize /\ \A m \in Messages : Has(b, q, k, m) => m \in ToSet(t)
    BY <1>4 DEF Complete
  <2>2. ASSUME NEW m \in Messages \ us
        PROVE  /\ Once(b, q, k, m)
               /\ Has(b, q, k, m) => m \notin os
               /\ m \in ToSet(LastOf(t, HistorySize)) \ os => Has(b, q, k, m) \/ Len(b) = ShownSize
    <3>1. /\ Once(b, q, k, m) /\ (Has(b, q, k, m) => m \notin ps)
          /\ m \in ToSet(LastOf(t, HistorySize)) \ ps => Has(b, q, k, m) \/ Len(b) = ShownSize
      BY <1>4 DEF Complete
    <3> QED
      BY <1>3, <2>1, <3>1
  <2> QED
    BY <2>1, <2>2 DEF Complete
<1> QED
  BY <1>1, <1>2, <1>5 DEF Whole

\* The thread gets a message that is not yet sent out.
LEMMA WholeOnCreate ==
  ASSUME NEW p, NEW q, NEW t \in Seq(Messages), NEW ps, NEW rs, Whole(p, q, t, ps, rs),
         NEW n \in Messages, n \in ps
  PROVE  Whole(p, q, Append(t, n), ps, rs)
<1>1. PICK k \in 0..Len(q) : Starts(p, q, k) /\ Complete(t, ps, rs, Base(p, q, k), q, k)
  BY DEF Whole
<1>2. PICK b, u, l : b = Base(p, q, k) /\ u = Append(t, n) /\ l = Len(t)
  OBVIOUS
<1>3. /\ u \in Seq(Messages) /\ DOMAIN u = 1..(l + 1) /\ u[l + 1] = n /\ l \in Nat
      /\ DOMAIN t = 1..l /\ Len(u) = l + 1 /\ \A i \in 1..l : u[i] = t[i]
  BY <1>2, Appended, LenProperties
<1>4. \A m \in ToSet(t) : m \in ToSet(u)
  BY <1>3 DEF ToSet
<1>5. \A m \in ToSet(LastOf(u, HistorySize)) : m = n \/ m \in ToSet(LastOf(t, HistorySize))
  <2>0. HistorySize \in Nat
    BY ChatAssumption
  <2>1. PICK v, w : v = LastOf(t, HistorySize) /\ w = LastOf(u, HistorySize)
    OBVIOUS
  <2>2. PICK d \in 0..l : /\ DOMAIN v = 1..(l - d) /\ \A i \in 1..(l - d) : v[i] = t[d + i]
                          /\ l - d <= HistorySize /\ (d > 0 => l - d = HistorySize)
    BY <1>2, <2>0, <2>1, LastOfFields
  <2>3. PICK z : z = Len(u)
    OBVIOUS
  <2>4. z = l + 1
    BY <1>3, <2>3
  <2>5. PICK f \in 0..z : /\ DOMAIN w = 1..(z - f) /\ \A i \in 1..(z - f) : w[i] = u[f + i]
                          /\ z - f <= HistorySize
    BY <1>3, <2>0, <2>1, <2>3, LastOfFields
  <2>6. f >= d
    BY <1>3, <2>0, <2>2, <2>4, <2>5
  <2>7. ASSUME NEW i \in 1..(z - f) PROVE w[i] = n \/ w[i] \in ToSet(v)
    <3>1. w[i] = u[f + i] /\ f + i \in 1..(l + 1)
      BY <1>3, <2>4, <2>5, <2>7
    <3>2. CASE f + i = l + 1
      BY <1>3, <3>1, <3>2
    <3>3. CASE f + i \in 1..l
      <4>1. PICK j : j = f + i - d
        OBVIOUS
      <4>2. j \in 1..(l - d) /\ d + j = f + i
        BY <1>3, <2>2, <2>5, <2>6, <3>3, <4>1
      <4>3. w[i] = v[j]
        BY <1>3, <2>2, <3>1, <3>3, <4>2
      <4> QED
        BY <2>2, <4>2, <4>3 DEF ToSet
    <3> QED
      BY <1>3, <3>1, <3>2, <3>3
  <2> QED
    BY <2>1, <2>5, <2>7 DEF ToSet
<1>6. Complete(t, ps, rs, b, q, k)
  BY <1>1, <1>2
<1>7. Complete(u, ps, rs, b, q, k)
  BY <1>4, <1>5, <1>6 DEF Complete
<1> QED
  BY <1>1, <1>2, <1>7 DEF Whole

\* b is the first n of t without the first d of them.
Ends(b, t, n, d) ==
    /\ d \in 0..n /\ Len(b) = n - d /\ DOMAIN b = 1..(n - d)
    /\ \A i \in 1..(n - d) : b[i] = t[d + i]
    /\ n - d <= HistorySize /\ (d > 0 => n - d = HistorySize)

\* The end of the first n of a thread.
LEMMA ReadPlaces ==
  ASSUME NEW t \in Seq(Messages), NEW n \in 0..Len(t), NEW b,
         b = LastOf(SubSeq(t, 1, n), HistorySize)
  PROVE  \E d : Ends(b, t, n, d)
<1>1. PICK s, u : s = SubSeq(t, 1, n) /\ u = Len(t)
  OBVIOUS
<1>2. u \in Nat /\ n \in 0..u /\ \A i \in 1..u : t[i] \in Messages
  BY <1>1, LenProperties, ElementOfSeq
<1>3. s \in Seq(Messages) /\ Len(s) = n /\ \A i \in 1..n : s[i] = t[i]
  <2>1. 1 \in Int /\ n \in Int /\ \A i \in 1..n : t[i] \in Messages
    BY <1>2
  <2>2. /\ s \in Seq(Messages) /\ Len(s) = (IF 1 <= n THEN n - 1 + 1 ELSE 0)
        /\ \A i \in 1..(n - 1 + 1) : s[i] = t[1 + i - 1]
    BY <1>1, <2>1, SubSeqProperties
  <2> QED
    BY <1>2, <2>2
<1>4. PICK l : l = Len(s)
  OBVIOUS
<1>5. HistorySize \in Nat
  BY ChatAssumption
<1>6. PICK d \in 0..l : /\ Len(b) = l - d /\ DOMAIN b = 1..(l - d)
                        /\ \A i \in 1..(l - d) : b[i] = s[d + i]
                        /\ l - d <= HistorySize /\ (d > 0 => l - d = HistorySize)
  <2>1. b = LastOf(s, HistorySize) /\ s \in Seq(Messages)
    BY <1>1, <1>3
  <2> QED
    BY ONLY <1>4, <1>5, <2>1, LastOfFields
<1>7. l = n
  BY <1>3, <1>4
<1>8. \A i \in 1..(n - d) : d + i \in 1..n
  BY <1>2, <1>6, <1>7
<1> QED
  BY <1>2, <1>3, <1>6, <1>7, <1>8 DEF Ends

\* The page is answered with the end of what its join has read of the thread.
LEMMA WholeOnAnswer ==
  ASSUME NEW p, NEW q \in Seq(DownPackets), NEW e \in DownPackets, AckOf(p, e),
         NEW t \in Seq(Messages), NEW n \in 0..Len(t),
         e.history = LastOf(SubSeq(t, 1, n), HistorySize),
         \A i \in DOMAIN t : \A j \in DOMAIN t : t[i] = t[j] => i = j,
         NEW ps, NEW rs,
         \A i \in DOMAIN t : i <= n /\ t[i] \in ps => t[i] \in rs,
         \A i \in DOMAIN t : i > n /\ t[i] \notin ps => t[i] \in rs
  PROVE  Whole(p, Append(q, e), t, ps, rs)
<1>1. PICK y, l, b, k, u : /\ y = Append(q, e) /\ l = Len(q) /\ b = e.history
                           /\ k = Len(q) + 1 /\ u = Len(t)
  OBVIOUS
<1>2. /\ DOMAIN y = 1..k /\ y[k] = e /\ l \in Nat /\ Len(y) = k /\ k \in Nat \ {0}
  BY <1>1, Appended, LenProperties
<1>3. u \in Nat /\ DOMAIN t = 1..u /\ n \in 0..u /\ \A i \in 1..u : t[i] \in Messages
  BY <1>1, LenProperties, ElementOfSeq
<1>4. PICK d : Ends(b, t, n, d)
  <2>1. b = LastOf(SubSeq(t, 1, n), HistorySize)
    BY <1>1
  <2> QED
    BY <2>1, ReadPlaces
<1>5. /\ d \in 0..n /\ Len(b) = n - d /\ DOMAIN b = 1..(n - d)
      /\ \A i \in 1..(n - d) : b[i] = t[d + i]
      /\ n - d <= HistorySize /\ (d > 0 => n - d = HistorySize)
  BY <1>4 DEF Ends
<1>6. ASSUME NEW i \in DOMAIN b PROVE b[i] = t[d + i] /\ d + i \in 1..n /\ d + i \in DOMAIN t /\ i \in Nat
  <2>1. i \in 1..(n - d) /\ n \in Int /\ d \in Int
    BY <1>3, <1>5, <1>6
  <2>2. b[i] = t[d + i]
    BY <1>5, <2>1
  <2>3. d + i \in 1..n /\ i \in Nat
    <3>1. d \in 0..n /\ n \in Nat
      BY <1>3, <1>5
    <3> QED
      BY ONLY <2>1, <3>1
  <2> QED
    BY <1>3, <2>2, <2>3
<1>7. \A i, m : ~Brings(y, k, i, m)
  BY <1>2 DEF Brings
<1>8. \A m : Has(b, y, k, m) <=> \E i \in DOMAIN b : b[i] = m
  BY <1>7 DEF Has
<1>9. Starts(p, y, k) /\ Base(p, y, k) = b /\ k \in 0..Len(y)
  BY <1>1, <1>2 DEF Starts, Base
<1>10. Len(b) <= ShownSize
  BY <1>3, <1>5, ChatAssumption
<1>11. \A m \in Messages : Has(b, y, k, m) => m \in ToSet(t)
  BY <1>6, <1>8 DEF ToSet
<1>12. ASSUME NEW m PROVE Once(b, y, k, m)
  <2>1. ASSUME NEW i \in DOMAIN b, NEW j \in DOMAIN b, b[i] = m, b[j] = m PROVE i = j
    <3>1. t[d + i] = t[d + j] /\ d + i \in DOMAIN t /\ d + j \in DOMAIN t /\ i \in Nat /\ j \in Nat
      BY <1>6, <2>1
    <3>2. d + i = d + j
      BY <3>1
    <3> QED
      BY <1>3, <1>5, <3>1, <3>2
  <2> QED
    BY <1>7, <2>1 DEF Once
<1>13. ASSUME NEW m \in Messages \ rs, Has(b, y, k, m) PROVE m \notin ps
  <2>1. PICK i \in DOMAIN b : b[i] = m
    BY <1>8, <1>13
  <2>2. t[d + i] = m /\ d + i \in DOMAIN t /\ d + i <= n
    BY <1>6, <2>1, <1>3
  <2> QED
    BY <1>13, <2>2
<1>14. ASSUME NEW m \in Messages \ rs, m \in ToSet(LastOf(t, HistorySize)) \ ps
       PROVE  Has(b, y, k, m)
  <2>1. PICK v : v = LastOf(t, HistorySize)
    OBVIOUS
  <2>2. PICK f \in 0..u : /\ DOMAIN v = 1..(u - f) /\ \A i \in 1..(u - f) : v[i] = t[f + i]
                          /\ u - f <= HistorySize
    BY <1>1, <2>1, LastOfFields, ChatAssumption
  <2>3. PICK i \in 1..(u - f) : m = t[f + i]
    BY <1>14, <2>1, <2>2 DEF ToSet
  <2>4. PICK x : x = f + i
    OBVIOUS
  <2>5. x \in 1..u /\ x > f /\ m = t[x]
    BY <1>3, <2>3, <2>4
  <2>6. x <= n
    BY <1>3, <1>14, <2>5
  <2>7. x > d
    BY <1>3, <1>5, <2>2, <2>5, <2>6, ChatAssumption
  <2>8. PICK j : j = x - d
    OBVIOUS
  <2>9. j \in 1..(n - d) /\ d + j = x
    BY <1>3, <1>5, <2>5, <2>6, <2>7, <2>8
  <2>10. j \in DOMAIN b /\ b[j] = m
    BY <1>5, <1>6, <2>5, <2>9
  <2> QED
    BY <1>8, <2>10
<1>15. Complete(t, ps, rs, b, y, k)
  BY <1>10, <1>11, <1>12, <1>13, <1>14 DEF Complete
<1> QED
  BY <1>1, <1>9, <1>15 DEF Whole

-------------------------------------------------------------------------------
(* Each text once *)

\* Packet i of queue x is message m.
Waits(q, x, i, m) == i \in DOMAIN q[x] /\ q[x][i].op = "message" /\ q[x][i].msg = m

\* The server has m: it is being kept, or is in a thread.
Kept(m) == m \in PendingOf(posts) \/ \E r \in Stories : m \in ToSet(thread[r])

\* A text is on its way to the server once, and not after the server has it.
OnceInv ==
    \A m \in Messages :
        /\ \A s \in Sockets : \A t \in Sockets : \A i \in DOMAIN up[s] : \A j \in DOMAIN up[t] :
                Waits(up, s, i, m) /\ Waits(up, t, j, m) => s = t /\ i = j
        /\ \A c \in Readers : \A d \in Readers : \A i \in DOMAIN buffer[c] : \A j \in DOMAIN buffer[d] :
                Waits(buffer, c, i, m) /\ Waits(buffer, d, j, m) => c = d /\ i = j
        /\ \A s \in Sockets : \A c \in Readers : \A i \in DOMAIN up[s] : \A j \in DOMAIN buffer[c] :
                ~(Waits(up, s, i, m) /\ Waits(buffer, c, j, m))
        /\ \A s \in Sockets : \A i \in DOMAIN up[s] : Waits(up, s, i, m) => ~Kept(m)
        /\ \A c \in Readers : \A i \in DOMAIN buffer[c] : Waits(buffer, c, i, m) => ~Kept(m)

\* A text is kept by one handler, and once in all the threads.
KeptInv ==
    /\ \A p \in posts : \A q \in posts : p.msg = q.msg => p = q
    /\ \A p \in posts : p.pc = "creating" => \A r \in Stories : p.msg \notin ToSet(thread[r])
    /\ \A p \in posts : p.pc = "created" => p.msg \in ToSet(thread[p.room])
    /\ \A r \in Stories : \A s \in Stories : \A i \in DOMAIN thread[r] : \A j \in DOMAIN thread[s] :
            thread[r][i] = thread[s][j] => r = s /\ i = j

\* m waits at one place at most, and is not kept.
Alone(u, b, m, kept) ==
    /\ \A s \in Sockets : \A t \in Sockets : \A i, j :
            Waits(u, s, i, m) /\ Waits(u, t, j, m) => s = t /\ i = j
    /\ \A c \in Readers : \A d \in Readers : \A i, j :
            Waits(b, c, i, m) /\ Waits(b, d, j, m) => c = d /\ i = j
    /\ \A s \in Sockets : \A c \in Readers : \A i, j : ~(Waits(u, s, i, m) /\ Waits(b, c, j, m))
    /\ \A s \in Sockets : \A i : Waits(u, s, i, m) => ~kept
    /\ \A c \in Readers : \A i : Waits(b, c, i, m) => ~kept

LEMMA OnceMeans ==
  OnceInv <=> \A m \in Messages : Alone(up, buffer, m, Kept(m))
<1>1. \A q, x, i, m : Waits(q, x, i, m) => i \in DOMAIN q[x]
  BY DEF Waits
<1>2. ASSUME OnceInv, NEW m \in Messages PROVE Alone(up, buffer, m, Kept(m))
  BY <1>1, <1>2 DEF OnceInv, Alone
<1>3. ASSUME \A m \in Messages : Alone(up, buffer, m, Kept(m)) PROVE OnceInv
  BY <1>1, <1>3 DEF OnceInv, Alone
<1> QED
  BY <1>2, <1>3

\* What the steps do to the table and its handlers.
PostOf(s) == [room |-> room[s], msg |-> Head(up[s]).msg, pc |-> "creating"]
CreatedOf(p) == [p EXCEPT !.pc = "created"]

LEMMA TableSteps ==
  ASSUME ServerTypes, [Next]_vars
  PROVE  \/ UNCHANGED <<posts, thread>>
         \/ \E s \in Sockets : /\ OnMessage(s) /\ room[s] # None /\ thread' = thread
                               /\ posts' = posts \cup {PostOf(s)}
         \/ \E p \in posts :
               \/ /\ p.pc = "creating" /\ posts' = (posts \ {p}) \cup {CreatedOf(p)} /\ Create(p)
                  /\ thread' = [thread EXCEPT ![p.room] = Append(thread[p.room], p.msg)]
               \/ thread' = thread /\ posts' = posts \ {p} /\ (Publish(p) \/ CreateFailed(p))
         \/ posts' = {} /\ thread' = thread /\ Restart
<1>1. ASSUME NEW s \in Sockets, Start(s)
      PROVE  \/ UNCHANGED <<posts, thread>>
             \/ /\ OnMessage(s) /\ room[s] # None /\ thread' = thread
                /\ posts' = posts \cup {PostOf(s)}
  BY <1>1 DEF Start, OnJoin, OnLeave, OnMessage, tableVars, PostOf
<1>2. ASSUME NEW s \in Sockets, Resume(s) \/ QueryStep(s) \/ Disconnect(s)
      PROVE  UNCHANGED <<posts, thread>>
  BY <1>2 DEF Resume, QueryStep, JoinLeft, JoinJoined, LeaveDone, JoinRead, JoinAnswered,
              JoinFailed, Disconnect, tableVars
<1>3. ASSUME NEW c \in Readers, PageStep(c) PROVE UNCHANGED <<posts, thread>>
  BY <1>3 DEF PageStep, Close, Connect, Drop, Deliver, Open, Type, tableVars
<1>4. ASSUME NEW p \in posts, Create(p) \/ Publish(p) \/ CreateFailed(p)
      PROVE  \/ /\ p.pc = "creating" /\ posts' = (posts \ {p}) \cup {CreatedOf(p)} /\ Create(p)
                /\ thread' = [thread EXCEPT ![p.room] = Append(thread[p.room], p.msg)]
             \/ thread' = thread /\ posts' = posts \ {p} /\ (Publish(p) \/ CreateFailed(p))
  BY <1>4 DEF Create, Publish, CreateFailed, CreatedOf
<1>5. Restart => posts' = {} /\ thread' = thread
  BY DEF Restart
<1>6. UNCHANGED vars => UNCHANGED <<posts, thread>>
  BY DEF vars, tableVars
<1> QED
  BY <1>1, <1>2, <1>3, <1>4, <1>5, <1>6, StepCases DEF PostStep

\* The message that a socket reads waited until then.
LEMMA WaitedFor ==
  ASSUME ServerTypes, NEW s \in Sockets, OnMessage(s)
  PROVE  Head(up[s]).msg \in Messages /\ Waits(up, s, 1, Head(up[s]).msg)
<1>1. /\ up[s] \in Seq(UpPackets) /\ up[s] # <<>> /\ Head(up[s]) \in UpPackets
      /\ Head(up[s]).op = "message"
  BY Received DEF OnMessage
<1>2. Head(up[s]) = up[s][1] /\ 1 \in DOMAIN up[s]
  BY <1>1, Popped
<1> QED
  BY <1>1, <1>2, UpFields DEF Waits

\* What the server has it keeps having, and what it gets more is a message it reads.
LEMMA KeptSteps ==
  ASSUME ServerTypes, [Next]_vars, NEW m \in Messages, Kept(m)'
  PROVE  Kept(m) \/ \E s \in Sockets : OnMessage(s) /\ m = Head(up[s]).msg
<1>1. \A p \in posts : p \in Posts /\ p.room \in Stories /\ p.msg \in Messages
  BY DEF ServerTypes, Posts
<1>2. CASE posts' \subseteq posts /\ thread' = thread
  BY <1>2 DEF Kept, PendingOf
<1>3. ASSUME NEW s \in Sockets, OnMessage(s), thread' = thread, posts' = posts \cup {PostOf(s)}
      PROVE  Kept(m) \/ m = Head(up[s]).msg
  BY <1>3 DEF Kept, PendingOf, PostOf
<1>4. ASSUME NEW p \in posts, posts' = (posts \ {p}) \cup {CreatedOf(p)},
             thread' = [thread EXCEPT ![p.room] = Append(thread[p.room], p.msg)]
      PROVE  Kept(m)
  <2>1. CreatedOf(p).msg = p.msg
    BY <1>1 DEF CreatedOf, Posts
  <2>2. CASE m \in PendingOf(posts')
    <3>1. PICK o \in posts' : o.msg = m
      BY <2>2 DEF PendingOf
    <3>2. o \in posts \/ o = CreatedOf(p)
      BY <1>4, <3>1
    <3> QED
      BY <2>1, <3>1, <3>2 DEF Kept, PendingOf
  <2>3. ASSUME NEW r \in Stories, m \in ToSet(thread'[r]) PROVE Kept(m)
    <3>1. CASE r # p.room
      <4>1. thread'[r] = thread[r]
        BY <1>4, <3>1 DEF ServerTypes
      <4> QED
        BY <2>3, <4>1 DEF Kept
    <3>2. CASE r = p.room
      <4>1. PICK t, l : t = thread[r] /\ l = Len(t)
        OBVIOUS
      <4>2. t \in Seq(Messages) /\ l \in Nat /\ thread'[r] = Append(t, p.msg)
        BY <1>4, <3>2, <4>1, LenProperties DEF ServerTypes
      <4>3. PICK n : n = Append(t, p.msg)
        OBVIOUS
      <4>4. /\ DOMAIN n = 1..(l + 1) /\ n[l + 1] = p.msg /\ DOMAIN t = 1..l
            /\ \A i \in 1..l : n[i] = t[i]
        BY <1>1, <4>1, <4>2, <4>3, Appended
      <4>5. PICK i \in 1..(l + 1) : m = n[i]
        BY <2>3, <4>2, <4>3, <4>4 DEF ToSet
      <4>6. m = p.msg \/ m \in ToSet(t)
        BY <4>2, <4>4, <4>5 DEF ToSet
      <4> QED
        BY <4>1, <4>6 DEF Kept, PendingOf
    <3> QED
      BY <3>1, <3>2
  <2> QED
    BY <2>2, <2>3 DEF Kept
<1> QED
  BY <1>2, <1>3, <1>4, TableSteps


\* A thread with one message more.
LEMMA ThreadMore ==
  ASSUME ServerTypes, NEW p \in posts,
         thread' = [thread EXCEPT ![p.room] = Append(thread[p.room], p.msg)]
  PROVE  \A r \in Stories :
            /\ r # p.room => thread'[r] = thread[r]
            /\ r = p.room =>
                  /\ DOMAIN thread[r] = 1..Len(thread[r]) /\ Len(thread[r]) \in Nat
                  /\ DOMAIN thread'[r] = 1..(Len(thread[r]) + 1)
                  /\ thread'[r][Len(thread[r]) + 1] = p.msg
                  /\ \A i \in 1..Len(thread[r]) : thread'[r][i] = thread[r][i]
<1> SUFFICES ASSUME NEW r \in Stories
             PROVE  /\ r # p.room => thread'[r] = thread[r]
                    /\ r = p.room =>
                          /\ DOMAIN thread[r] = 1..Len(thread[r]) /\ Len(thread[r]) \in Nat
                          /\ DOMAIN thread'[r] = 1..(Len(thread[r]) + 1)
                          /\ thread'[r][Len(thread[r]) + 1] = p.msg
                          /\ \A i \in 1..Len(thread[r]) : thread'[r][i] = thread[r][i]
  OBVIOUS
<1>1. r # p.room => thread'[r] = thread[r]
  BY DEF ServerTypes
<1>2. CASE r = p.room
  <2>1. PICK t : t = thread[r]
    OBVIOUS
  <2>2. t \in Seq(Messages) /\ Len(t) \in Nat /\ thread'[r] = Append(t, p.msg) /\ p.msg \in Messages
    BY <1>2, <2>1, LenProperties DEF ServerTypes, Posts
  <2> QED
    BY <1>2, <2>1, <2>2, Appended
<1> QED
  BY <1>1, <1>2

LEMMA KeptInvStep ==
  ASSUME ServerTypes, OnceInv, KeptInv, [Next]_vars PROVE KeptInv'
<1>1. \A p \in posts : p \in Posts /\ p.room \in Stories /\ p.msg \in Messages
  BY DEF ServerTypes, Posts
<1>2. CASE posts' \subseteq posts /\ thread' = thread
  BY <1>2 DEF KeptInv
<1>3. ASSUME NEW s \in Sockets, OnMessage(s), thread' = thread, posts' = posts \cup {PostOf(s)}
      PROVE  KeptInv'
  <2>1. PICK m, q : m = Head(up[s]).msg /\ q = PostOf(s)
    OBVIOUS
  <2>2. ~Kept(m)
    BY <1>3, <2>1, WaitedFor, OnceMeans DEF Alone
  <2>3. q.msg = m /\ q.pc = "creating" /\ posts' = posts \cup {q}
    BY <1>3, <2>1 DEF PostOf
  <2>4. \A p \in posts : p.msg # m
    BY <2>2 DEF Kept, PendingOf
  <2>5. \A r \in Stories : m \notin ToSet(thread[r])
    BY <2>2 DEF Kept
  <2>6. \A p \in posts' : \A o \in posts' : p.msg = o.msg => p = o
    BY <2>3, <2>4 DEF KeptInv
  <2>7. \A p \in posts' : p.pc = "creating" => \A r \in Stories : p.msg \notin ToSet(thread[r])
    BY <2>3, <2>5 DEF KeptInv
  <2>8. \A p \in posts' : p.pc = "created" => p.msg \in ToSet(thread[p.room])
    BY <2>3 DEF KeptInv
  <2> QED
    BY <1>3, <2>6, <2>7, <2>8 DEF KeptInv
<1>4. ASSUME NEW p \in posts, p.pc = "creating", posts' = (posts \ {p}) \cup {CreatedOf(p)},
             thread' = [thread EXCEPT ![p.room] = Append(thread[p.room], p.msg)]
      PROVE  KeptInv'
  <2>0. \A r \in Stories : \A s \in Stories : \A i \in DOMAIN thread[r] : \A j \in DOMAIN thread[s] :
            thread[r][i] = thread[s][j] => r = s /\ i = j
    BY DEF KeptInv
  <2>1. PICK q, m, a : q = CreatedOf(p) /\ m = p.msg /\ a = p.room
    OBVIOUS
  <2>2. q.msg = m /\ q.room = a /\ q.pc = "created" /\ posts' = (posts \ {p}) \cup {q} /\ a \in Stories
    BY <1>1, <1>4, <2>1 DEF CreatedOf, Posts
  <2>3. \A r \in Stories : m \notin ToSet(thread[r])
    BY <1>4, <2>1 DEF KeptInv
  <2>4. PICK l : l = Len(thread[a])
    OBVIOUS
  <2>5. /\ \A r \in Stories : r # a => thread'[r] = thread[r]
        /\ DOMAIN thread[a] = 1..l /\ l \in Nat /\ DOMAIN thread'[a] = 1..(l + 1)
        /\ thread'[a][l + 1] = m /\ \A i \in 1..l : thread'[a][i] = thread[a][i]
    BY <1>4, <2>1, <2>2, <2>4, ThreadMore
  <2>6. \A r \in Stories : \A i \in DOMAIN thread'[r] :
            \/ r = a /\ i = l + 1 /\ thread'[r][i] = m
            \/ i \in DOMAIN thread[r] /\ thread'[r][i] = thread[r][i]
    BY <2>5
  <2>7. \A r \in Stories : \A i \in DOMAIN thread[r] : thread[r][i] # m
    BY <2>3 DEF ToSet
  <2>8. ASSUME NEW r \in Stories, NEW s \in Stories, NEW i \in DOMAIN thread'[r],
               NEW j \in DOMAIN thread'[s], thread'[r][i] = thread'[s][j]
        PROVE  r = s /\ i = j
    <3>1. CASE r = a /\ i = l + 1 /\ thread'[r][i] = m
      BY <2>6, <2>7, <2>8, <3>1
    <3>2. CASE i \in DOMAIN thread[r] /\ thread'[r][i] = thread[r][i]
      <4>1. j \in DOMAIN thread[s] /\ thread'[s][j] = thread[s][j]
        BY <2>6, <2>7, <2>8, <3>2
      <4>2. thread[r][i] = thread[s][j]
        BY <2>8, <3>2, <4>1
      <4> QED
        BY <2>0, <3>2, <4>1, <4>2
    <3> QED
      BY <2>6, <3>1, <3>2
  <2>9. \A r \in Stories : ToSet(thread'[r]) \subseteq ToSet(thread[r]) \cup {m}
    BY <2>6 DEF ToSet
  <2>10. \A r \in Stories : ToSet(thread[r]) \subseteq ToSet(thread'[r])
    <3>1. \A i \in DOMAIN thread[a] : i \in DOMAIN thread'[a] /\ thread'[a][i] = thread[a][i]
      BY <2>5
    <3> QED
      BY <2>5, <3>1 DEF ToSet
  <2>11. m \in ToSet(thread'[a])
    <3>1. l + 1 \in DOMAIN thread'[a]
      BY <2>5
    <3> QED
      BY <2>5, <3>1 DEF ToSet
  <2>12. \A o \in posts : o # p => o.msg # m
    BY <2>1 DEF KeptInv
  <2>13. \A x \in posts' : \A y \in posts' : x.msg = y.msg => x = y
    BY <2>2, <2>12 DEF KeptInv
  <2>14. \A x \in posts' : x.pc = "creating" => \A r \in Stories : x.msg \notin ToSet(thread'[r])
    <3>1. ASSUME NEW x \in posts', x.pc = "creating", NEW r \in Stories, x.msg \in ToSet(thread'[r])
          PROVE  FALSE
      <4>1. x \in posts /\ x # p
        BY <2>2, <3>1
      <4>2. x.msg \notin ToSet(thread[r]) /\ x.msg # m
        BY <2>12, <3>1, <4>1 DEF KeptInv
      <4> QED
        BY <2>9, <3>1, <4>2
    <3> QED
      BY <3>1
  <2>15. \A x \in posts' : x.pc = "created" => x.msg \in ToSet(thread'[x.room])
    <3>1. ASSUME NEW x \in posts, x # p, x.pc = "created" PROVE x.msg \in ToSet(thread'[x.room])
      BY <1>1, <2>10, <3>1 DEF KeptInv
    <3> QED
      BY <2>2, <2>11, <3>1
  <2> QED
    BY <2>8, <2>13, <2>14, <2>15 DEF KeptInv
<1>5. CASE UNCHANGED <<posts, thread>>
  BY <1>2, <1>5
<1> QED
  BY <1>2, <1>3, <1>4, <1>5, TableSteps


\* What waits after a packet is sent.
LEMMA EmitWaits ==
  ASSUME PageTypes, ServerTypes, SocketInv, NEW c \in Readers, NEW p \in UpPackets, Emit(c, p)
  PROVE  \E k :
            /\ \A s \in Sockets : \A i, m : Waits(up', s, i, m) =>
                  \/ Waits(up, s, i, m)
                  \/ c \in online /\ s = Socket(c) /\ i = k /\ p.op = "message" /\ p.msg = m
            /\ \A d \in Readers : \A i, m : Waits(buffer', d, i, m) =>
                  \/ Waits(buffer, d, i, m)
                  \/ c \notin online /\ d = c /\ i = k /\ p.op = "message" /\ p.msg = m
<1>1. ASSUME NEW q \in Seq(UpPackets), NEW n, n = Append(q, p), NEW k, k = Len(q) + 1, NEW i \in DOMAIN n
      PROVE  (i \in DOMAIN q /\ n[i] = q[i]) \/ (i = k /\ n[i] = p)
  <2>1. /\ DOMAIN q = 1..Len(q) /\ DOMAIN n = 1..(Len(q) + 1) /\ Len(q) \in Nat
        /\ n[Len(q) + 1] = p /\ \A j \in 1..Len(q) : n[j] = q[j]
    BY <1>1, Appended, LenProperties
  <2> QED
    BY <1>1, <2>1
<1>2. CASE c \in online
  <2>1. PICK q, n, k, z : q = up[Socket(c)] /\ n = Append(q, p) /\ k = Len(q) + 1 /\ z = Socket(c)
    OBVIOUS
  <2>2. q \in Seq(UpPackets) /\ z \in Sockets
    BY <1>2, <2>1, SocketOf DEF ServerTypes
  <2>3. up' = [up EXCEPT ![z] = n] /\ buffer' = buffer
    BY <1>2, <2>1 DEF Emit
  <2>4. \A s \in Sockets : up'[s] = IF s = z THEN n ELSE up[s]
    BY <2>3 DEF ServerTypes
  <2>5. ASSUME NEW s \in Sockets, NEW i, NEW m, Waits(up', s, i, m)
        PROVE  Waits(up, s, i, m) \/ (s = z /\ i = k /\ p.op = "message" /\ p.msg = m)
    <3>1. CASE s # z
      BY <2>4, <2>5, <3>1 DEF Waits
    <3>2. CASE s = z
      <4>1. i \in DOMAIN n /\ n[i].op = "message" /\ n[i].msg = m
        BY <2>4, <2>5, <3>2 DEF Waits
      <4>2. (i \in DOMAIN q /\ n[i] = q[i]) \/ (i = k /\ n[i] = p)
        BY <1>1, <2>1, <2>2, <4>1
      <4> QED
        BY <2>1, <3>2, <4>1, <4>2 DEF Waits
    <3> QED
      BY <3>1, <3>2
  <2>6. \A d \in Readers : \A i, m : Waits(buffer', d, i, m) => Waits(buffer, d, i, m)
    BY <2>3
  <2>7. \A s \in Sockets : \A i, m : Waits(up', s, i, m) =>
            \/ Waits(up, s, i, m)
            \/ c \in online /\ s = Socket(c) /\ i = k /\ p.op = "message" /\ p.msg = m
    BY <1>2, <2>1, <2>5
  <2> QED
    BY <2>6, <2>7
<1>3. CASE c \notin online
  <2>1. PICK q, n, k : q = buffer[c] /\ n = Append(q, p) /\ k = Len(q) + 1
    OBVIOUS
  <2>2. q \in Seq(UpPackets)
    BY <2>1 DEF PageTypes
  <2>3. buffer' = [buffer EXCEPT ![c] = n] /\ up' = up
    BY <1>3, <2>1 DEF Emit
  <2>4. \A d \in Readers : buffer'[d] = IF d = c THEN n ELSE buffer[d]
    BY <2>3 DEF PageTypes
  <2>5. ASSUME NEW d \in Readers, NEW i, NEW m, Waits(buffer', d, i, m)
        PROVE  Waits(buffer, d, i, m) \/ (d = c /\ i = k /\ p.op = "message" /\ p.msg = m)
    <3>1. CASE d # c
      BY <2>4, <2>5, <3>1 DEF Waits
    <3>2. CASE d = c
      <4>1. i \in DOMAIN n /\ n[i].op = "message" /\ n[i].msg = m
        BY <2>4, <2>5, <3>2 DEF Waits
      <4>2. (i \in DOMAIN q /\ n[i] = q[i]) \/ (i = k /\ n[i] = p)
        BY <1>1, <2>1, <2>2, <4>1
      <4> QED
        BY <2>1, <3>2, <4>1, <4>2 DEF Waits
    <3> QED
      BY <3>1, <3>2
  <2>6. \A s \in Sockets : \A i, m : Waits(up', s, i, m) => Waits(up, s, i, m)
    BY <2>3
  <2> QED
    BY <1>3, <2>5, <2>6
<1> QED
  BY <1>2, <1>3

\* What waits after a packet is read.
LEMMA ReadWaits ==
  ASSUME ServerTypes, NEW s \in Sockets, up[s] # <<>>, up' = [up EXCEPT ![s] = Tail(up[s])]
  PROVE  \A t \in Sockets : \A i, m : Waits(up', t, i, m) =>
            /\ t # s => Waits(up, t, i, m)
            /\ t = s => Waits(up, s, i + 1, m) /\ i \in Nat \ {0}
<1>1. PICK q, n : q = up[s] /\ n = Tail(q)
  OBVIOUS
<1>2. \A t \in Sockets : up'[t] = IF t = s THEN n ELSE up[t]
  BY <1>1 DEF ServerTypes
<1>3. /\ DOMAIN n = 1..(Len(q) - 1) /\ Len(q) \in Nat /\ DOMAIN q = 1..Len(q)
      /\ \A i \in 1..(Len(q) - 1) : n[i] = q[i + 1] /\ i + 1 \in 1..Len(q)
  <2>1. q \in Seq(UpPackets) /\ q # <<>>
    BY <1>1 DEF ServerTypes
  <2> QED
    BY <1>1, <2>1, Popped
<1> SUFFICES ASSUME NEW t \in Sockets, NEW i, NEW m, Waits(up', t, i, m)
             PROVE  /\ t # s => Waits(up, t, i, m)
                    /\ t = s => Waits(up, s, i + 1, m) /\ i \in Nat \ {0}
  OBVIOUS
<1>4. CASE t # s
  BY <1>2, <1>4 DEF Waits
<1>5. CASE t = s
  <2>1. i \in DOMAIN n /\ n[i].op = "message" /\ n[i].msg = m
    BY <1>2, <1>5 DEF Waits
  <2>2. n[i] = q[i + 1] /\ i + 1 \in DOMAIN q /\ i \in Nat \ {0}
    BY <1>3, <2>1
  <2> QED
    BY <1>1, <1>5, <2>1, <2>2 DEF Waits
<1> QED
  BY <1>4, <1>5

\* What waits after a connection: what was kept for it.
LEMMA ConnectWaits ==
  ASSUME PageTypes, ServerTypes, SocketInv, NEW c \in Readers, Connect(c)
  PROVE  /\ \A s \in Sockets : \A i, m : Waits(up', s, i, m) =>
              /\ s # <<c, opened[c] + 1>> => Waits(up, s, i, m)
              /\ s = <<c, opened[c] + 1>> => Waits(buffer, c, i, m)
         /\ \A d \in Readers : \A i, m : Waits(buffer', d, i, m) => d # c /\ Waits(buffer, d, i, m)
<1>1. PICK new, b, t : /\ new = <<c, opened[c] + 1>> /\ b = buffer[c]
                       /\ t = IF page[c].story # None
                              THEN <<Join(page[c].story, page[c].visit)>> ELSE <<>>
  OBVIOUS
<1>2. up' = [up EXCEPT ![new] = b \o t] /\ buffer' = [buffer EXCEPT ![c] = <<>>]
  BY <1>1 DEF Connect
<1>3. t \in Seq(UpPackets) /\ \A k \in 1..Len(t) : t[k].op = "join"
  <2>1. CASE page[c].story = None
    <3>1. t = <<>>
      BY <1>1, <2>1
    <3> QED
      BY <3>1, EmptySeq
  <2>2. CASE page[c].story # None
    <3>1. PICK p : p = Join(page[c].story, page[c].visit)
      OBVIOUS
    <3>2. page[c] \in Pages
      BY DEF PageTypes
    <3>3. p \in UpPackets /\ p.op = "join"
      BY <2>2, <3>1, <3>2, PacketTypes DEF Pages, Join
    <3>4. t = <<p>>
      BY <1>1, <2>2, <3>1
    <3> QED
      BY <3>3, <3>4
  <2> QED
    BY <2>1, <2>2
<1>4. PICK n, k, l : n = b \o t /\ k = Len(b) /\ l = Len(t)
  OBVIOUS
<1>5. b \in Seq(UpPackets) /\ k \in Nat /\ l \in Nat /\ DOMAIN b = 1..k
  BY <1>1, <1>3, <1>4, LenProperties DEF PageTypes
<1>6. /\ DOMAIN n = 1..(k + l)
      /\ \A i \in 1..(k + l) : n[i] = IF i <= k THEN b[i] ELSE t[i - k]
  <2>1. /\ n \in Seq(UpPackets) /\ Len(n) = k + l
        /\ \A i \in 1..(k + l) : n[i] = IF i <= k THEN b[i] ELSE t[i - k]
    BY <1>3, <1>4, <1>5, ConcatProperties
  <2> QED
    BY <2>1, LenProperties
<1>7. ASSUME NEW s \in Sockets, NEW i, NEW m, Waits(up', s, i, m)
      PROVE  (s # new => Waits(up, s, i, m)) /\ (s = new => Waits(buffer, c, i, m))
  <2>1. up'[s] = IF s = new THEN n ELSE up[s]
    BY <1>2, <1>4 DEF ServerTypes
  <2>2. CASE s # new
    BY <1>7, <2>1, <2>2 DEF Waits
  <2>3. CASE s = new
    <3>1. i \in 1..(k + l) /\ n[i].op = "message" /\ n[i].msg = m
      BY <1>6, <1>7, <2>1, <2>3 DEF Waits
    <3>2. i <= k
      <4>1. ASSUME ~(i <= k) PROVE FALSE
        <5>1. n[i] = t[i - k] /\ i - k \in 1..l
          BY <1>5, <1>6, <3>1, <4>1
        <5> QED
          BY <1>3, <1>4, <3>1, <5>1
      <4> QED
        BY <4>1
    <3>3. n[i] = b[i] /\ i \in DOMAIN b
      BY <1>5, <1>6, <3>1, <3>2
    <3> QED
      BY <1>1, <2>3, <3>1, <3>3 DEF Waits
  <2> QED
    BY <2>2, <2>3
<1>8. ASSUME NEW d \in Readers, NEW i, NEW m, Waits(buffer', d, i, m)
      PROVE  d # c /\ Waits(buffer, d, i, m)
  <2>1. buffer'[d] = IF d = c THEN <<>> ELSE buffer[d]
    BY <1>2 DEF PageTypes
  <2>2. DOMAIN <<>> = {}
    OBVIOUS
  <2> QED
    BY <1>8, <2>1, <2>2 DEF Waits
<1> QED
  BY <1>1, <1>7, <1>8


\* What a step does to what waits.
LEMMA WaySteps ==
  ASSUME PageTypes, ServerTypes, [Next]_vars
  PROVE  \/ UNCHANGED <<up, buffer>>
         \/ \E s \in Sockets : /\ Start(s) /\ up[s] # <<>> /\ buffer' = buffer
                               /\ up' = [up EXCEPT ![s] = Tail(up[s])]
         \/ \E c \in Readers : \E p \in UpPackets : Emit(c, p) /\ p.op # "message"
         \/ \E c \in Readers : \E m \in Messages : Type(c, m)
         \/ \E c \in Readers : Connect(c)
         \/ \E s \in Sockets : up' = [up EXCEPT ![s] = <<>>] /\ buffer' = buffer
         \/ up' = [s \in Sockets |-> <<>>] /\ buffer' = buffer
<1>1. ASSUME NEW s \in Sockets, Start(s)
      PROVE  up[s] # <<>> /\ buffer' = buffer /\ up' = [up EXCEPT ![s] = Tail(up[s])]
  BY <1>1, Received, ServerStep DEF Start, OnJoin, OnLeave, OnMessage, pageVars
<1>2. ASSUME NEW s \in Sockets, Resume(s) \/ QueryStep(s) PROVE UNCHANGED <<up, buffer>>
  BY <1>2 DEF Resume, QueryStep, JoinLeft, JoinJoined, LeaveDone, JoinRead, JoinAnswered,
              JoinFailed, pageVars
<1>3. ASSUME NEW c \in Readers, PageStep(c)
      PROVE  \/ UNCHANGED <<up, buffer>>
             \/ \E p \in UpPackets : Emit(c, p) /\ p.op # "message"
             \/ \E m \in Messages : Type(c, m)
             \/ Connect(c)
  <2>1. CASE Close(c)
    <3>1. Leave.op # "message"
      BY DEF Leave
    <3> QED
      BY <2>1, <3>1, PacketTypes DEF Close
  <2>2. ASSUME NEW r \in Stories, Open(c, r) PROVE UNCHANGED <<up, buffer>>
                                                   \/ \E p \in UpPackets : Emit(c, p) /\ p.op # "message"
    <3>1. PICK p : p = Join(r, page[c].visit + 1)
      OBVIOUS
    <3>2. page[c].visit + 1 \in Nat
      BY DEF PageTypes, Pages
    <3>3. p \in UpPackets /\ p.op # "message"
      BY <3>1, <3>2, PacketTypes DEF Join
    <3>4. Emit(c, p) \/ UNCHANGED <<up, buffer>>
      BY <2>2, <3>1 DEF Open
    <3> QED
      BY <3>3, <3>4
  <2> QED
    BY <1>3, <2>1, <2>2 DEF PageStep, Drop, Deliver
<1>4. ASSUME NEW s \in Sockets, Disconnect(s) PROVE up' = [up EXCEPT ![s] = <<>>] /\ buffer' = buffer
  BY <1>4 DEF Disconnect, pageVars
<1>5. PostStep => UNCHANGED <<up, buffer>>
  BY DEF PostStep, Create, Publish, CreateFailed, pageVars
<1>6. Restart => up' = [s \in Sockets |-> <<>>] /\ buffer' = buffer
  BY DEF Restart
<1>7. UNCHANGED vars => UNCHANGED <<up, buffer>>
  BY DEF vars, pageVars
<1> QED
  BY <1>1, <1>2, <1>3, <1>4, <1>5, <1>6, <1>7, StepCases

LEMMA OnceInvStep ==
  ASSUME PageTypes, ServerTypes, SocketInv, TextsInv, PlacesInv, OnceInv, [Next]_vars PROVE OnceInv'
<1> DEFINE A(m) == Alone(up', buffer', m, Kept(m)')
<1>1. ASSUME \A m \in Messages : A(m) PROVE OnceInv'
  <2>1. \A q, x, i, m : Waits(q, x, i, m) => i \in DOMAIN q[x]
    BY DEF Waits
  <2> QED
    BY <1>1, <2>1 DEF OnceInv, Alone, Waits
<1>2. \A m \in Messages : Alone(up, buffer, m, Kept(m))
  BY OnceMeans
<1>3. ASSUME NEW m \in Messages,
             \A s \in Sockets : \A i : Waits(up', s, i, m) => Waits(up, s, i, m),
             \A c \in Readers : \A i : Waits(buffer', c, i, m) => Waits(buffer, c, i, m),
             Kept(m)' => Kept(m)
      PROVE  A(m)
  BY <1>2, <1>3 DEF Alone
<1>4. ASSUME NEW m \in Messages, \A s \in Sockets : ~OnMessage(s) PROVE Kept(m)' => Kept(m)
  BY <1>4, KeptSteps
<1>5. DOMAIN <<>> = {}
  OBVIOUS
<1>6. ASSUME NEW s \in Sockets, Start(s), up[s] # <<>>, buffer' = buffer,
             up' = [up EXCEPT ![s] = Tail(up[s])], NEW m \in Messages
      PROVE  A(m)
  <2>1. \A t \in Sockets : \A i : Waits(up', t, i, m) =>
            /\ t # s => Waits(up, t, i, m)
            /\ t = s => Waits(up, s, i + 1, m) /\ i \in Nat \ {0}
    BY <1>6, ReadWaits
  <2>2. CASE Kept(m)' => Kept(m)
    <3>1. ASSUME NEW t \in Sockets, NEW u \in Sockets, NEW i, NEW j,
                 Waits(up', t, i, m), Waits(up', u, j, m)
          PROVE  t = u /\ i = j
      <4>1. CASE t = s /\ u = s
        <5>1. i \in Nat /\ j \in Nat /\ i + 1 = j + 1
          BY <1>2, <2>1, <3>1, <4>1 DEF Alone
        <5> QED
          BY <4>1, <5>1
      <4>2. CASE t # s /\ u # s
        BY <1>2, <2>1, <3>1, <4>2 DEF Alone
      <4>3. CASE t = s /\ u # s
        <5>1. Waits(up, s, i + 1, m) /\ Waits(up, u, j, m)
          BY <2>1, <3>1, <4>3
        <5> QED
          BY <1>2, <4>3, <5>1 DEF Alone
      <4>4. CASE t # s /\ u = s
        <5>1. Waits(up, s, j + 1, m) /\ Waits(up, t, i, m)
          BY <2>1, <3>1, <4>4
        <5> QED
          BY <1>2, <4>4, <5>1 DEF Alone
      <4> QED
        BY <4>1, <4>2, <4>3, <4>4
    <3>2. \A t \in Sockets : \A i : Waits(up', t, i, m) => \E j : Waits(up, t, j, m)
      BY <2>1
    <3> QED
      BY <1>2, <1>6, <2>2, <3>1, <3>2 DEF Alone
  <2>3. CASE ~(Kept(m)' => Kept(m))
    <3>1. PICK t \in Sockets : OnMessage(t) /\ m = Head(up[t]).msg
      BY <2>3, KeptSteps
    <3>2. Waits(up, t, 1, m) /\ up' = [up EXCEPT ![t] = Tail(up[t])] /\ up[t] # <<>>
      BY <3>1, WaitedFor, Received DEF OnMessage
    <3>3. \A u \in Sockets : \A i : Waits(up', u, i, m) =>
              /\ u # t => Waits(up, u, i, m)
              /\ u = t => Waits(up, t, i + 1, m) /\ i \in Nat \ {0}
      BY <3>2, ReadWaits
    <3>4. ASSUME NEW u \in Sockets, NEW i, Waits(up', u, i, m) PROVE FALSE
      <4>1. CASE u # t
        BY <1>2, <3>2, <3>3, <3>4, <4>1 DEF Alone
      <4>2. CASE u = t
        <5>1. i \in Nat \ {0} /\ i + 1 = 1
          BY <1>2, <3>2, <3>3, <3>4, <4>2 DEF Alone
        <5> QED
          BY <5>1
      <4> QED
        BY <4>1, <4>2
    <3>5. \A c \in Readers : \A i : ~Waits(buffer', c, i, m)
      BY <1>2, <1>6, <3>2 DEF Alone
    <3> QED
      BY <3>4, <3>5 DEF Alone
  <2> QED
    BY <2>2, <2>3
<1>7. ASSUME NEW c \in Readers, NEW p \in UpPackets, Emit(c, p), p.op # "message",
             \A s \in Sockets : ~OnMessage(s), NEW m \in Messages
      PROVE  A(m)
  BY <1>3, <1>4, <1>7, EmitWaits
<1>8. ASSUME NEW c \in Readers, NEW n \in Messages, Type(c, n),
             \A s \in Sockets : ~OnMessage(s), NEW m \in Messages
      PROVE  A(m)
  <2>1. PICK p : p = Message(n)
    OBVIOUS
  <2>2. p \in UpPackets /\ p.msg = n /\ Emit(c, p) /\ typed[n] = <<>>
    BY <1>8, <2>1, PacketTypes DEF Type, Message
  <2>3. PICK k :
            /\ \A s \in Sockets : \A i, o : Waits(up', s, i, o) =>
                  \/ Waits(up, s, i, o)
                  \/ c \in online /\ s = Socket(c) /\ i = k /\ p.op = "message" /\ p.msg = o
            /\ \A d \in Readers : \A i, o : Waits(buffer', d, i, o) =>
                  \/ Waits(buffer, d, i, o)
                  \/ c \notin online /\ d = c /\ i = k /\ p.op = "message" /\ p.msg = o
    BY <2>2, EmitWaits
  <2>4. Kept(m)' => Kept(m)
    BY <1>4, <1>8
  <2>5. CASE m # n
    BY <1>3, <2>2, <2>3, <2>4, <2>5
  <2>6. CASE m = n
    <3>1. typed[m] \notin Readers \X Stories
      BY <2>2, <2>6, NobodyTyped
    <3>2. \A s \in Sockets : \A i : ~Waits(up, s, i, m)
      BY <3>1 DEF TextsInv, KnownText, Waits
    <3>3. \A d \in Readers : \A i : ~Waits(buffer, d, i, m)
      BY <3>1 DEF TextsInv, KnownText, Waits
    <3>4. ~Kept(m)
      <4>1. m \notin PendingOf(posts)
        BY <3>1 DEF PlacesInv, HomeOf, PendingOf
      <4>2. \A r \in Stories : m \notin ToSet(thread[r])
        BY <3>1 DEF PlacesInv, HomeOf, ToSet
      <4> QED
        BY <4>1, <4>2 DEF Kept
    <3>5. \A s \in Sockets : \A i : Waits(up', s, i, m) => c \in online /\ s = Socket(c) /\ i = k
      BY <2>3, <3>2
    <3>6. \A d \in Readers : \A i : Waits(buffer', d, i, m) => c \notin online /\ d = c /\ i = k
      BY <2>3, <3>3
    <3> QED
      BY <2>4, <3>4, <3>5, <3>6 DEF Alone
  <2> QED
    BY <2>5, <2>6
<1>9. ASSUME NEW c \in Readers, Connect(c), \A s \in Sockets : ~OnMessage(s), NEW m \in Messages
      PROVE  A(m)
  <2>1. PICK new : new = <<c, opened[c] + 1>>
    OBVIOUS
  <2>2. /\ \A s \in Sockets : \A i : Waits(up', s, i, m) =>
              /\ s # new => Waits(up, s, i, m)
              /\ s = new => Waits(buffer, c, i, m)
        /\ \A d \in Readers : \A i : Waits(buffer', d, i, m) => d # c /\ Waits(buffer, d, i, m)
    BY <1>9, <2>1, ConnectWaits
  <2>3. Kept(m)' => Kept(m)
    BY <1>4, <1>9
  <2>4. Alone(up, buffer, m, Kept(m))
    BY <1>2
  <2>5. ASSUME NEW s \in Sockets, NEW t \in Sockets, NEW i, NEW j,
               Waits(up', s, i, m), Waits(up', t, j, m)
        PROVE  s = t /\ i = j
    <3>1. CASE s = new /\ t = new
      BY <2>2, <2>4, <2>5, <3>1 DEF Alone
    <3>2. CASE s # new /\ t # new
      BY <2>2, <2>4, <2>5, <3>2 DEF Alone
    <3>3. CASE (s = new /\ t # new) \/ (s # new /\ t = new)
      BY <2>2, <2>4, <2>5, <3>3 DEF Alone
    <3> QED
      BY <3>1, <3>2, <3>3
  <2>6. ASSUME NEW d \in Readers, NEW e \in Readers, NEW i, NEW j,
               Waits(buffer', d, i, m), Waits(buffer', e, j, m)
        PROVE  d = e /\ i = j
    BY <2>2, <2>4, <2>6 DEF Alone
  <2>7. ASSUME NEW s \in Sockets, NEW d \in Readers, NEW i, NEW j,
               Waits(up', s, i, m), Waits(buffer', d, j, m)
        PROVE  FALSE
    <3>1. d # c /\ Waits(buffer, d, j, m)
      BY <2>2, <2>7
    <3>2. CASE s = new
      BY <2>2, <2>4, <2>7, <3>1, <3>2 DEF Alone
    <3>3. CASE s # new
      BY <2>2, <2>4, <2>7, <3>1, <3>3 DEF Alone
    <3> QED
      BY <3>2, <3>3
  <2>8. \A s \in Sockets : \A i : Waits(up', s, i, m) => ~Kept(m)
    BY <1>9, <2>2, <2>4 DEF Alone
  <2>9. \A d \in Readers : \A i : Waits(buffer', d, i, m) => ~Kept(m)
    BY <2>2, <2>4 DEF Alone
  <2> QED
    BY <2>3, <2>5, <2>6, <2>7, <2>8, <2>9 DEF Alone
<1>10. ASSUME NEW m \in Messages, \A s \in Sockets : up'[s] = up[s] \/ up'[s] = <<>>,
              buffer' = buffer, Kept(m)' => Kept(m)
       PROVE  A(m)
  <2>1. \A s \in Sockets : \A i : Waits(up', s, i, m) => Waits(up, s, i, m)
    BY <1>5, <1>10 DEF Waits
  <2>2. \A c \in Readers : \A i : Waits(buffer', c, i, m) => Waits(buffer, c, i, m)
    BY <1>10
  <2> HIDE DEF A
  <2> QED
    BY <1>3, <1>10, <2>1, <2>2
<1>11. CASE \E s \in Sockets : OnMessage(s)
  <2>1. PICK s \in Sockets : OnMessage(s)
    BY <1>11
  <2>2. up[s] # <<>> /\ buffer' = buffer /\ up' = [up EXCEPT ![s] = Tail(up[s])] /\ Start(s)
    BY <2>1, Received, ServerStep DEF Start, OnMessage, pageVars
  <2> QED
    BY <1>1, <1>6, <2>2
<1>12. CASE \A s \in Sockets : ~OnMessage(s)
  <2>1. \A m \in Messages : Kept(m)' => Kept(m)
    BY <1>4, <1>12
  <2>2. \A s \in Sockets : up[s] = up[s]
    OBVIOUS
  <2>3. UNCHANGED <<up, buffer>> => \A m \in Messages : A(m)
    <3> HIDE DEF A
    <3> QED
      BY <1>10, <2>1
  <2>4. ASSUME NEW s \in Sockets, up' = [up EXCEPT ![s] = <<>>], buffer' = buffer
        PROVE  \A m \in Messages : A(m)
    <3>1. \A t \in Sockets : up'[t] = up[t] \/ up'[t] = <<>>
      BY <2>4 DEF ServerTypes
    <3> HIDE DEF A
    <3> QED
      BY <1>10, <2>1, <2>4, <3>1
  <2>5. ASSUME up' = [s \in Sockets |-> <<>>], buffer' = buffer PROVE \A m \in Messages : A(m)
    <3>1. \A t \in Sockets : up'[t] = up[t] \/ up'[t] = <<>>
      BY <2>5
    <3> HIDE DEF A
    <3> QED
      BY <1>10, <2>1, <2>5, <3>1
  <2> HIDE DEF A
  <2> QED
    BY <1>1, <1>6, <1>7, <1>8, <1>9, <1>12, <2>3, <2>4, <2>5, WaySteps
<1> QED
  BY <1>11, <1>12

-------------------------------------------------------------------------------
(* Joins that are not answered *)

\* What a page has on the way after a step: what it had, without the packet that was read,
\* with one that is no join, or with its join as the last.
LEMMA QueueSteps ==
  ASSUME PageTypes, ServerTypes, DownTypes, SocketInv, TextsInv, [Next]_vars,
         NEW c \in online', page'[c].story # None, NEW s, s = Socket(c)'
  PROVE  \/ /\ c \in online /\ s = Socket(c)
            /\ page'[c].story = page[c].story /\ page'[c].visit = page[c].visit
            /\ \/ up'[s] = up[s]
               \/ Start(s) /\ up[s] # <<>> /\ up'[s] = Tail(up[s])
               \/ \E p \in UpPackets : p.op # "join" /\ up'[s] = Append(up[s], p)
         \/ \E j \in DOMAIN up'[s] :
               /\ up'[s][j].op = "join" /\ up'[s][j].visit = page'[c].visit
               /\ \A i \in DOMAIN up'[s] : up'[s][i].op = "join" => j >= i
<1> DEFINE Same == /\ c \in online /\ s = Socket(c)
                   /\ page'[c].story = page[c].story /\ page'[c].visit = page[c].visit
           G == \/ /\ Same
                   /\ \/ up'[s] = up[s]
                      \/ Start(s) /\ up[s] # <<>> /\ up'[s] = Tail(up[s])
                      \/ \E p \in UpPackets : p.op # "join" /\ up'[s] = Append(up[s], p)
                \/ \E j \in DOMAIN up'[s] :
                      /\ up'[s][j].op = "join" /\ up'[s][j].visit = page'[c].visit
                      /\ \A i \in DOMAIN up'[s] : up'[s][i].op = "join" => j >= i
<1>1. \A d \in online : Socket(d) \in Sockets /\ Socket(d)[1] = d /\ d \in Readers
  BY SocketOf DEF PageTypes
<1>2. ASSUME UNCHANGED pageVars PROVE Same /\ s \in Sockets
  <2>1. page' = page /\ online' = online /\ opened' = opened
    BY <1>2 DEF pageVars
  <2> QED
    BY <1>1, <2>1 DEF Socket
<1>3. ASSUME NEW t \in Sockets, Start(t) PROVE G
  <2>1. up' = [up EXCEPT ![t] = Tail(up[t])] /\ up[t] # <<>>
    BY <1>3, Received DEF Start, OnJoin, OnLeave, OnMessage
  <2>2. Same /\ s \in Sockets
    BY <1>2, <1>3, ServerStep
  <2>3. up'[s] = IF s = t THEN Tail(up[t]) ELSE up[s]
    BY <2>1, <2>2 DEF ServerTypes
  <2> QED
    BY <1>3, <2>1, <2>2, <2>3
<1>4. ASSUME NEW t \in Sockets, Resume(t) \/ QueryStep(t) PROVE G
  <2>1. up' = up
    BY <1>4 DEF Resume, QueryStep, JoinLeft, JoinJoined, LeaveDone, JoinRead, JoinAnswered,
                JoinFailed
  <2> QED
    BY <1>2, <1>4, <2>1, ServerStep
<1>5. ASSUME NEW t \in Sockets, Disconnect(t) PROVE G
  <2>1. Same /\ s \in Sockets /\ t \notin Heard
    BY <1>2, <1>5, ServerStep DEF Disconnect
  <2>2. t # s
    BY <2>1 DEF Heard
  <2>3. up'[s] = up[s]
    BY <1>5, <2>1, <2>2 DEF Disconnect, ServerTypes
  <2> QED
    BY <2>1, <2>3
<1>6. CASE PostStep
  <2>1. up' = up
    BY <1>6 DEF PostStep, Create, Publish, CreateFailed
  <2> QED
    BY <1>2, <1>6, <2>1, ServerStep
<1>7. ~Restart
  BY DEF Restart
<1>8. CASE UNCHANGED vars
  <2>1. UNCHANGED pageVars /\ up' = up
    BY <1>8 DEF vars
  <2> QED
    BY <1>2, <2>1
<1>9. ASSUME NEW d \in Readers, d # c, NEW p \in UpPackets, Emit(d, p) PROVE c \in online => up'[Socket(c)] = up[Socket(c)]
  <2>1. ASSUME c \in online PROVE up'[Socket(c)] = up[Socket(c)]
    <3>1. CASE d \in online
      <4>1. Socket(d) # Socket(c)
        BY <1>1, <1>9, <2>1, <3>1
      <4> QED
        BY <1>1, <1>9, <2>1, <3>1, <4>1 DEF Emit, ServerTypes
    <3>2. CASE d \notin online
      BY <1>9, <3>2 DEF Emit
    <3> QED
      BY <3>1, <3>2
  <2> QED
    BY <2>1
<1>10. ASSUME NEW d \in Readers, PageStep(d) PROVE G
  <2>1. CASE Close(d)
    <3>1. page' = [page EXCEPT ![d].story = None, ![d].shown = <<>>, ![d].told = None]
          /\ Emit(d, Leave) /\ online' = online /\ opened' = opened
      BY <2>1 DEF Close
    <3>2. d # c
      BY <3>1 DEF PageTypes, Pages
    <3>3. page'[c] = page[c] /\ c \in online /\ s = Socket(c)
      BY <3>1, <3>2 DEF PageTypes, Socket
    <3>4. up'[s] = up[s]
      BY <1>9, <3>1, <3>2, <3>3, PacketTypes
    <3> QED
      BY <3>3, <3>4
  <2>2. CASE Connect(d)
    <3>1. PICK new, b, t : /\ new = <<d, opened[d] + 1>> /\ b = buffer[d]
                           /\ t = IF page[d].story # None
                                  THEN <<Join(page[d].story, page[d].visit)>> ELSE <<>>
      OBVIOUS
    <3>2. /\ up' = [up EXCEPT ![new] = b \o t] /\ page' = page /\ online' = online \cup {d}
          /\ opened' = [opened EXCEPT ![d] = opened[d] + 1] /\ d \notin online
      BY <2>2, <3>1 DEF Connect
    <3>3. CASE d # c
      <4>1. c \in online /\ Socket(c)' = Socket(c)
        BY <3>2, <3>3 DEF Socket, PageTypes
      <4>2. Socket(c) # new
        BY <1>1, <3>1, <3>3, <4>1
      <4> QED
        BY <1>1, <3>2, <4>1, <4>2 DEF ServerTypes
    <3>4. CASE d = c
      <4>1. s = new
        BY <3>1, <3>2, <3>4 DEF Socket, PageTypes
      <4>2. new \in Sockets
        <5>1. opened[d] < MaxSockets /\ opened[d] \in 0..MaxSockets
          BY <2>2 DEF Connect, PageTypes
        <5> QED
          BY <3>1, <5>1, ChatAssumption DEF Sockets
      <4>3. PICK p : p = Join(page[c].story, page[c].visit)
        OBVIOUS
      <4>4. page[c] \in Pages /\ page[c].story # None
        BY <3>2, <3>4 DEF PageTypes
      <4>5. p \in UpPackets /\ p.op = "join" /\ p.visit = page'[c].visit
        BY <3>2, <4>3, <4>4, PacketTypes DEF Pages, Join
      <4>6. t = <<p>>
        BY <3>1, <3>4, <4>3, <4>4
      <4>7. PICK k, n : k = Len(b) /\ n = b \o t
        OBVIOUS
      <4>8. b \in Seq(UpPackets) /\ k \in Nat /\ DOMAIN b = 1..k /\ \A i \in 1..k : b[i].op # "join"
        BY <3>1, <4>7, LenProperties DEF PageTypes, TextsInv
      <4>9. t \in Seq(UpPackets) /\ Len(t) = 1 /\ t[1] = p
        BY <4>5, <4>6
      <4>10. /\ DOMAIN n = 1..(k + 1)
             /\ \A i \in 1..(k + 1) : n[i] = IF i <= k THEN b[i] ELSE t[i - k]
        <5>1. /\ n \in Seq(UpPackets) /\ Len(n) = k + 1
              /\ \A i \in 1..(k + 1) : n[i] = IF i <= k THEN b[i] ELSE t[i - k]
          BY <4>7, <4>8, <4>9, ConcatProperties
        <5> QED
          BY <5>1, LenProperties
      <4>11. up'[s] = n
        BY <3>2, <4>1, <4>2, <4>7 DEF ServerTypes
      <4>12. k + 1 \in DOMAIN n /\ n[k + 1] = p
        <5>1. PICK z : z = k + 1
          OBVIOUS
        <5>2. z \in 1..(k + 1) /\ ~(z <= k) /\ z - k = 1
          BY <4>8, <5>1
        <5> QED
          BY <4>9, <4>10, <5>1, <5>2
      <4>13. \A i \in DOMAIN n : k + 1 >= i
        BY <4>8, <4>10
      <4> QED
        BY <4>5, <4>11, <4>12, <4>13
    <3> QED
      BY <3>3, <3>4
  <2>3. CASE Drop(d)
    <3>1. up' = up /\ page' = page /\ opened' = opened /\ online' = online \ {d}
      BY <2>3 DEF Drop
    <3> QED
      BY <3>1 DEF Socket
  <2>4. CASE Deliver(d)
    <3>1. up' = up /\ opened' = opened /\ online' = online
      BY <2>4 DEF Deliver
    <3>2. page'[c].story = page[c].story /\ page'[c].visit = page[c].visit
      BY <1>1, <2>4, <3>1, DeliverTypes
    <3> QED
      BY <3>1, <3>2 DEF Socket
  <2>5. ASSUME NEW r \in Stories, Open(d, r) PROVE G
    <3>1. PICK v : v = page[d].visit + 1
      OBVIOUS
    <3>2. /\ page' = [page EXCEPT ![d] = [story |-> r, visit |-> v, shown |-> <<>>, told |-> None]]
          /\ online' = online /\ opened' = opened
          /\ IF d \in online THEN Emit(d, Join(r, v)) ELSE UNCHANGED <<up, buffer>>
      BY <2>5, <3>1 DEF Open
    <3>3. c \in online /\ s = Socket(c) /\ v \in Nat
      BY <3>1, <3>2 DEF Socket, PageTypes, Pages
    <3>4. Join(r, v) \in UpPackets /\ Join(r, v).op = "join" /\ Join(r, v).visit = v
      BY <3>3, PacketTypes DEF Join
    <3>5. CASE d # c
      <4>1. page'[c] = page[c]
        BY <1>1, <3>2, <3>3, <3>5 DEF PageTypes
      <4>2. up'[s] = up[s]
        BY <1>9, <3>2, <3>3, <3>4, <3>5
      <4> QED
        BY <3>3, <4>1, <4>2
    <3>6. CASE d = c
      <4>1. PICK q, p, k : q = up[s] /\ p = Join(r, v) /\ k = Len(q)
        OBVIOUS
      <4>2. q \in Seq(UpPackets) /\ s \in Sockets
        BY <1>1, <3>3, <4>1 DEF ServerTypes
      <4>3. up'[s] = Append(q, p)
        BY <3>2, <3>3, <3>6, <4>1, <4>2 DEF Emit, ServerTypes
      <4>4. PICK n : n = Append(q, p)
        OBVIOUS
      <4>5. DOMAIN n = 1..(k + 1) /\ k \in Nat /\ n[k + 1] = p
        BY <3>4, <4>1, <4>2, <4>4, Appended, LenProperties
      <4>6. page'[c].visit = v
        BY <3>2, <3>6 DEF PageTypes
      <4>7. k + 1 \in DOMAIN n /\ \A i \in DOMAIN n : k + 1 >= i
        BY <4>5
      <4> QED
        BY <3>4, <4>1, <4>3, <4>4, <4>5, <4>6, <4>7
    <3> QED
      BY <3>5, <3>6
  <2>6. ASSUME NEW m \in Messages, Type(d, m) PROVE G
    <3>1. Emit(d, Message(m)) /\ page' = page /\ online' = online /\ opened' = opened
      BY <2>6 DEF Type
    <3>2. Same
      BY <3>1 DEF Socket
    <3>3. Message(m) \in UpPackets /\ Message(m).op # "join"
      BY PacketTypes DEF Message
    <3>4. CASE d # c
      <4>1. up'[s] = up[s]
        BY <1>9, <3>1, <3>2, <3>3, <3>4
      <4> QED
        BY <3>2, <4>1
    <3>5. CASE d = c
      <4>1. up'[s] = Append(up[s], Message(m))
        BY <1>1, <3>1, <3>2, <3>5 DEF Emit, ServerTypes
      <4> QED
        BY <3>2, <3>3, <4>1
    <3> QED
      BY <3>4, <3>5
  <2> QED
    BY <1>10, <2>1, <2>2, <2>3, <2>4, <2>5, <2>6 DEF PageStep
<1> QED
  BY <1>3, <1>4, <1>5, <1>6, <1>7, <1>8, <1>10, StepCases


LEMMA JoinsInvStep ==
  ASSUME PageTypes, ServerTypes, DownTypes, SocketInv, TextsInv, JoinsInv, [Next]_vars
  PROVE  JoinsInv'
<1> SUFFICES ASSUME NEW c \in online', page'[c].story # None
             PROVE  JoinsLast(up[Socket(c)], page[c].visit)'
  BY DEF JoinsInv
<1>1. PICK s, v : s = Socket(c)' /\ v = page'[c].visit
  OBVIOUS
<1>2. SUFFICES JoinsLast(up'[s], v)
  BY <1>1
<1>3. CASE \E j \in DOMAIN up'[s] :
              /\ up'[s][j].op = "join" /\ up'[s][j].visit = page'[c].visit
              /\ \A i \in DOMAIN up'[s] : up'[s][i].op = "join" => j >= i
  BY <1>1, <1>3 DEF JoinsLast
<1>4. ASSUME c \in online, s = Socket(c), page'[c].story = page[c].story,
             page'[c].visit = page[c].visit,
             \/ up'[s] = up[s]
             \/ up[s] # <<>> /\ up'[s] = Tail(up[s])
             \/ \E p \in UpPackets : p.op # "join" /\ up'[s] = Append(up[s], p)
      PROVE  JoinsLast(up'[s], v)
  <2>1. PICK q : q = up[s]
    OBVIOUS
  <2>2. q \in Seq(UpPackets)
    BY <1>4, <2>1, SocketOf DEF ServerTypes
  <2>3. JoinsLast(q, v)
    BY <1>1, <1>4, <2>1 DEF JoinsInv
  <2>4. CASE up'[s] = q
    BY <2>3, <2>4
  <2>5. CASE q # <<>> /\ up'[s] = Tail(q)
    <3>1. PICK n : n = Tail(q)
      OBVIOUS
    <3>2. /\ DOMAIN n = 1..(Len(q) - 1) /\ DOMAIN q = 1..Len(q) /\ Len(q) \in Nat
          /\ \A i \in 1..(Len(q) - 1) : n[i] = q[i + 1] /\ i + 1 \in 1..Len(q)
      BY <2>2, <2>5, <3>1, Popped
    <3>3. ASSUME NEW i \in DOMAIN n, n[i].op = "join"
          PROVE  \E j \in DOMAIN n : j >= i /\ n[j].op = "join" /\ n[j].visit = v
      <4>1. i + 1 \in DOMAIN q /\ q[i + 1].op = "join" /\ i \in Nat
        BY <3>2, <3>3
      <4>2. PICK j \in DOMAIN q : j >= i + 1 /\ q[j].op = "join" /\ q[j].visit = v
        BY <2>3, <4>1 DEF JoinsLast
      <4>3. PICK k : k = j - 1
        OBVIOUS
      <4>4. k \in DOMAIN n /\ k >= i /\ k + 1 = j
        BY <3>2, <3>3, <4>1, <4>2, <4>3
      <4>5. n[k] = q[j]
        BY <3>2, <4>4
      <4> QED
        BY <4>2, <4>4, <4>5
    <3> QED
      BY <2>5, <3>1, <3>3 DEF JoinsLast
  <2>6. ASSUME NEW p \in UpPackets, p.op # "join", up'[s] = Append(q, p) PROVE JoinsLast(up'[s], v)
    <3>1. PICK n : n = Append(q, p)
      OBVIOUS
    <3>2. /\ DOMAIN n = 1..(Len(q) + 1) /\ DOMAIN q = 1..Len(q) /\ Len(q) \in Nat
          /\ n[Len(q) + 1] = p /\ \A i \in 1..Len(q) : n[i] = q[i]
      BY <2>2, <3>1, Appended, LenProperties
    <3>3. \A i \in DOMAIN q : i \in DOMAIN n /\ n[i] = q[i]
      BY <3>2
    <3>4. \A i \in DOMAIN n : n[i].op = "join" => i \in DOMAIN q
      BY <2>6, <3>2
    <3> QED
      BY <2>3, <2>6, <3>1, <3>3, <3>4 DEF JoinsLast
  <2> QED
    BY <1>4, <2>1, <2>4, <2>5, <2>6
<1> QED
  BY <1>1, <1>3, <1>4, QueueSteps

\* A handler of a join goes on, until its query is answered or fails.
LEMMA JoinGoesOn ==
  ASSUME PageTypes, ServerTypes, [Next]_vars, NEW s \in Sockets, NEW h \in work[s], h.pc # "left", ~Restart
  PROVE  \/ \E g \in work'[s] : g.pc # "left" /\ g.visit = h.visit
         \/ JoinAnswered(s, h) \/ JoinFailed(s, h)
<1> DEFINE On == \E g \in work'[s] : g.pc # "left" /\ g.visit = h.visit
<1>1. CASE h \in work'[s]
  BY <1>1
<1>2. ASSUME NEW t \in Sockets, Start(t) PROVE h \in work'[s]
  <2>1. \/ work' = work
        \/ \E g : work' = [work EXCEPT ![t] = work[t] \cup {g}]
    BY <1>2, JoinStarts, LeaveStarts DEF Start, OnMessage
  <2> QED
    BY <2>1 DEF ServerTypes
<1>3. ASSUME NEW t \in Sockets, NEW g \in work[t], t # s \/ g # h,
             \/ JoinLeft(t, g) \/ JoinJoined(t, g) \/ JoinRead(t, g)
             \/ JoinAnswered(t, g) \/ JoinFailed(t, g) \/ LeaveDone(t, g)
      PROVE  h \in work'[s]
  <2>1. \E x : work' = [work EXCEPT ![t] = (work[t] \ {g}) \cup x]
    <3>1. work[t] \ {g} = (work[t] \ {g}) \cup {}
      OBVIOUS
    <3> QED
      BY <1>3, <3>1, HandlerShapes
  <2> QED
    BY <1>3, <2>1 DEF ServerTypes
<1>4. /\ h \in Handlers /\ JoiningOf(h).visit = h.visit /\ ReadingOf(h).visit = h.visit
      /\ ReadOf(h).visit = h.visit
      /\ JoiningOf(h).pc # "left" /\ ReadingOf(h).pc # "left" /\ ReadOf(h).pc # "left"
  <2>1. h \in Handlers
    BY DEF ServerTypes
  <2> QED
    BY <2>1 DEF Handlers, JoiningOf, ReadingOf, ReadOf
<1>5. JoinLeft(s, h) \/ JoinJoined(s, h) \/ JoinRead(s, h) => On
  <2>1. ASSUME NEW g, work' = [work EXCEPT ![s] = (work[s] \ {h}) \cup {g}] PROVE g \in work'[s]
    BY <2>1 DEF ServerTypes
  <2> QED
    BY <1>4, <2>1, HandlerShapes
<1>6. ~LeaveDone(s, h)
  BY DEF LeaveDone
<1>7. ASSUME NEW t \in Sockets, Resume(t) PROVE On
  <2>1. PICK g \in work[t] : JoinLeft(t, g) \/ JoinJoined(t, g) \/ LeaveDone(t, g)
    BY <1>7 DEF Resume
  <2> QED
    BY <1>1, <1>3, <1>5, <1>6, <2>1
<1>8. ASSUME NEW t \in Sockets, QueryStep(t)
      PROVE  On \/ JoinAnswered(s, h) \/ JoinFailed(s, h)
  <2>1. PICK g \in work[t] : JoinRead(t, g) \/ JoinAnswered(t, g) \/ JoinFailed(t, g)
    BY <1>8 DEF QueryStep
  <2> QED
    BY <1>1, <1>3, <1>5, <2>1
<1>9. ASSUME work' = work PROVE On
  BY <1>1, <1>9
<1>10. CASE \/ \E c \in Readers : PageStep(c)
            \/ \E t \in Sockets : Disconnect(t)
            \/ PostStep \/ UNCHANGED vars
  BY <1>9, <1>10 DEF PageStep, Close, Connect, Drop, Deliver, Open, Type, Disconnect, PostStep,
                     Create, Publish, CreateFailed, vars
<1> QED
  BY <1>1, <1>2, <1>7, <1>8, <1>10, StepCases

\* A page stops waiting only when its join is answered or fails.
LEMMA AwaitsSteps ==
  ASSUME PageTypes, ServerTypes, DownTypes, SocketInv, TextsInv, [Next]_vars,
         NEW c \in online', page'[c].story # None, ~Awaits(c)'
  PROVE  /\ c \in online /\ Socket(c)' = Socket(c)
         /\ page'[c].story = page[c].story /\ page'[c].visit = page[c].visit
         /\ \/ ~Awaits(c)
            \/ \E h \in work[Socket(c)] :
                  /\ h.visit = page[c].visit
                  /\ JoinAnswered(Socket(c), h) \/ JoinFailed(Socket(c), h)
<1>1. PICK s, v : s = Socket(c)' /\ v = page'[c].visit
  OBVIOUS
<1>2. ~Awaited(up'[s], work'[s], v)
  BY <1>1 DEF Awaits
<1>3. /\ c \in online /\ s = Socket(c)
      /\ page'[c].story = page[c].story /\ page'[c].visit = page[c].visit
      /\ \/ up'[s] = up[s]
         \/ Start(s) /\ up[s] # <<>> /\ up'[s] = Tail(up[s])
         \/ \E p \in UpPackets : p.op # "join" /\ up'[s] = Append(up[s], p)
  <2>1. ~ \E j \in DOMAIN up'[s] :
              /\ up'[s][j].op = "join" /\ up'[s][j].visit = page'[c].visit
              /\ \A i \in DOMAIN up'[s] : up'[s][i].op = "join" => j >= i
    BY <1>1, <1>2 DEF Awaited
  <2> QED
    BY <1>1, <2>1, QueueSteps
<1>4. s \in Sockets /\ up[s] \in Seq(UpPackets)
  BY <1>3, SocketOf DEF ServerTypes
<1>5. PICK q : q = up[s]
  OBVIOUS
<1>6. ASSUME NEW i \in DOMAIN q, q[i].op = "join", q[i].visit = v PROVE FALSE
  <2>1. CASE up'[s] = q
    BY <1>2, <1>6, <2>1 DEF Awaited
  <2>2. CASE Start(s) /\ q # <<>> /\ up'[s] = Tail(q)
    <3>1. PICK n : n = Tail(q)
      OBVIOUS
    <3>2. /\ DOMAIN n = 1..(Len(q) - 1) /\ DOMAIN q = 1..Len(q) /\ Len(q) \in Nat
          /\ Head(q) = q[1]
          /\ \A j \in 1..(Len(q) - 1) : n[j] = q[j + 1] /\ j + 1 \in 1..Len(q)
      BY <1>4, <1>5, <2>2, <3>1, Popped
    <3>3. CASE i = 1
      <4>1. Head(up[s]).op = "join" /\ Head(up[s]).visit = v
        BY <1>5, <1>6, <3>2, <3>3
      <4>2. OnJoin(s)
        BY <2>2, <4>1 DEF Start, OnLeave, OnMessage, Receive
      <4>3. JoinHandler(s) \in work'[s]
        BY <1>4, <4>2, JoinStarts DEF ServerTypes
      <4>4. JoinHandler(s).visit = v /\ JoinHandler(s).pc # "left"
        BY <4>1 DEF JoinHandler
      <4> QED
        BY <1>2, <4>3, <4>4 DEF Awaited
    <3>4. CASE i # 1
      <4>1. PICK j : j = i - 1
        OBVIOUS
      <4>2. j \in 1..(Len(q) - 1) /\ j + 1 = i
        BY <1>6, <3>2, <3>4, <4>1
      <4>3. j \in DOMAIN n /\ n[j] = q[i]
        BY <3>2, <4>2
      <4> QED
        BY <1>2, <1>6, <2>2, <3>1, <4>3 DEF Awaited
    <3> QED
      BY <3>3, <3>4
  <2>3. ASSUME NEW p \in UpPackets, up'[s] = Append(q, p) PROVE FALSE
    <3>1. PICK n : n = Append(q, p)
      OBVIOUS
    <3>2. /\ DOMAIN n = 1..(Len(q) + 1) /\ DOMAIN q = 1..Len(q) /\ Len(q) \in Nat
          /\ \A j \in 1..Len(q) : n[j] = q[j]
      BY <1>4, <1>5, <3>1, Appended, LenProperties
    <3>3. i \in DOMAIN n /\ n[i] = q[i]
      BY <1>6, <3>2
    <3> QED
      BY <1>2, <1>6, <2>3, <3>1, <3>3 DEF Awaited
  <2> QED
    BY <1>3, <1>5, <2>1, <2>2, <2>3
<1>7. ~Restart
  BY DEF Restart
<1>8. ASSUME NEW h \in work[s], h.pc # "left", h.visit = v
      PROVE  JoinAnswered(s, h) \/ JoinFailed(s, h)
  <2>1. ~ \E g \in work'[s] : g.pc # "left" /\ g.visit = h.visit
    BY <1>2, <1>8 DEF Awaited
  <2> QED
    BY <1>4, <1>7, <1>8, <2>1, JoinGoesOn
<1>9. CASE \E h \in work[s] : h.pc # "left" /\ h.visit = v
  BY <1>1, <1>3, <1>8, <1>9
<1>10. CASE ~ \E h \in work[s] : h.pc # "left" /\ h.visit = v
  <2>1. ~Awaited(q, work[s], v)
    BY <1>6, <1>10 DEF Awaited
  <2> QED
    BY <1>1, <1>3, <1>5, <2>1 DEF Awaits
<1> QED
  BY <1>9, <1>10

-------------------------------------------------------------------------------
(* Whole threads, step by step *)

LEMMA WholeOnPresence ==
  ASSUME DownTypes, NEW s \in Sockets, NEW x, NEW in, NEW p, NEW t, NEW ps, NEW rs,
         Whole(p, down[s], t, ps, rs)
  PROVE  /\ BroadcastPresence(x, in)[s] \in Seq(DownPackets)
         /\ Whole(p, BroadcastPresence(x, in)[s], t, ps, rs)
<1>1. PICK e : e = Presence(RoomSize(x, in))
  OBVIOUS
<1>2. e \in DownPackets /\ e.op # "message" /\ ~AckOf(p, e)
  BY <1>1, RoomSizeIsNat, PacketTypes DEF Presence, AckOf
<1>3. BroadcastPresence(x, in)[s] \in {down[s], Append(down[s], e)}
  BY <1>1 DEF BroadcastPresence, ToRoom
<1>4. down[s] \in Seq(DownPackets)
  BY DEF DownTypes
<1>5. Whole(p, Append(down[s], e), t, ps, rs)
  BY <1>2, <1>4, WholeOnMore
<1>6. BroadcastPresence(x, in)[s] \in Seq(DownPackets)
  BY PresenceTypes
<1> QED
  BY <1>3, <1>5, <1>6

\* The page of c is to show its thread.
WholeAt(c) ==
    Whole(page[c], down[Socket(c)], thread[page[c].story], PendingOf(posts), RacedOf(Socket(c), raced))

\* The page of c does not wait, and none of its joins failed.
Due(c) == page[c].story # None /\ c \notin crossed /\ Socket(c) \notin failed /\ ~Awaits(c)

LEMMA WholeMeans == WholeInv <=> \A c \in online : Due(c) => WholeAt(c)
BY DEF WholeInv, Due, WholeAt

\* Nothing happens to the page, its queue and the table.
LEMMA WholeStays ==
  ASSUME NEW c, WholeAt(c), Socket(c)' = Socket(c), page'[c] = page[c],
         down'[Socket(c)] = down[Socket(c)], UNCHANGED <<thread, posts, raced>>
  PROVE  WholeAt(c)'
<1>1. PICK s : s = Socket(c)
  OBVIOUS
<1>2. Socket(c)' = s /\ down'[s] = down[s]
  BY <1>1
<1>3. Whole(page[c], down[s], thread[page[c].story], PendingOf(posts), RacedOf(s, raced))
  BY <1>1 DEF WholeAt
<1>4. Whole(page'[c], down'[s], thread'[page'[c].story], PendingOf(posts'), RacedOf(s, raced'))
  BY <1>2, <1>3
<1> QED
  BY <1>2, <1>4 DEF WholeAt

\* A message is read, or its handler fails before it is kept.
LEMMA WholeOnRefusal ==
  ASSUME ServerTypes, NEW c, WholeAt(c), Socket(c)' = Socket(c), page'[c] = page[c],
         page[c].story \in Stories,
         down'[Socket(c)] = down[Socket(c)], UNCHANGED <<thread, raced>>,
         \A m \in ToSet(thread[page[c].story]) : m \in PendingOf(posts') <=> m \in PendingOf(posts)
  PROVE  WholeAt(c)'
<1>1. PICK s, t : s = Socket(c) /\ t = thread[page[c].story]
  OBVIOUS
<1>2. Socket(c)' = s /\ down'[s] = down[s] /\ t \in Seq(Messages)
  BY <1>1 DEF ServerTypes
<1>3. Whole(page[c], down[s], t, PendingOf(posts), RacedOf(s, raced))
  BY <1>1 DEF WholeAt
<1>4. Whole(page[c], down[s], t, PendingOf(posts'), RacedOf(s, raced))
  BY <1>1, <1>2, <1>3, WholeWithin
<1>5. Whole(page'[c], down'[s], thread'[page'[c].story], PendingOf(posts'), RacedOf(s, raced'))
  BY <1>1, <1>2, <1>4
<1> QED
  BY <1>2, <1>5 DEF WholeAt

\* The page is told a count.
LEMMA WholeOnCount ==
  ASSUME DownTypes, NEW c, WholeAt(c), Socket(c)' = Socket(c), page'[c] = page[c],
         Socket(c) \in Sockets, NEW x, NEW in, down' = BroadcastPresence(x, in),
         UNCHANGED <<thread, posts, raced>>
  PROVE  WholeAt(c)'
<1>1. PICK s, t, ps, rs : /\ s = Socket(c) /\ t = thread[page[c].story]
                          /\ ps = PendingOf(posts) /\ rs = RacedOf(s, raced)
  OBVIOUS
<1>2. Socket(c)' = s
  BY <1>1
<1>3. Whole(page[c], down[s], t, ps, rs)
  BY <1>1 DEF WholeAt
<1>4. Whole(page[c], down'[s], t, ps, rs)
  BY <1>1, <1>3, WholeOnPresence
<1>5. Whole(page'[c], down'[s], thread'[page'[c].story], PendingOf(posts'), RacedOf(s, raced'))
  BY <1>1, <1>4
<1> QED
  BY <1>2, <1>5 DEF WholeAt

\* A join is answered: that of the page, or another one.
LEMMA WholeOnJoin ==
  ASSUME PageTypes, ServerTypes, DownTypes, SeenInv, SocketInv, VisitInv, KeptInv,
         NEW t \in Sockets, NEW h \in work[t], JoinAnswered(t, h), NEW c \in online,
         page[c].story # None,
         WholeAt(c) \/ (t = Socket(c) /\ h.visit = page[c].visit)
  PROVE  WholeAt(c)'
<1>1. PICK s, r, ps, rs, us, told, p, e :
          /\ s = Socket(c) /\ r = page[c].story /\ ps = PendingOf(posts)
          /\ rs = RacedOf(s, raced) /\ us = RacedOf(s, raced') /\ p = page[c]
          /\ told = BroadcastPresence(h.room, rooms) /\ e = Answer(h)
  OBVIOUS
<1>2. /\ h.pc = "read" /\ raced' = raced \cup ({t} \X RacedBy(h)) /\ UNCHANGED <<pageVars, tableVars>>
      /\ down' = IF t \in Heard THEN [told EXCEPT ![t] = Append(told[t], e)] ELSE told
  BY <1>1 DEF JoinAnswered, Answer
<1>3. s \in Sockets /\ s \in Heard /\ r \in Stories /\ p \in Pages /\ Socket(c)' = s
  BY <1>1, <1>2, SocketOf DEF Heard, PageTypes, Pages, pageVars, Socket
<1>4. told \in [Sockets -> Seq(DownPackets)] /\ e \in DownPackets /\ e.op = "ack" /\ e.visit = h.visit
  BY <1>1, AnswerTypes, PresenceTypes
<1>5. thread[r] \in Seq(Messages) /\ rs \subseteq us
  BY <1>1, <1>2, <1>3 DEF ServerTypes, RacedOf
<1>6. SUFFICES Whole(p, down'[s], thread[r], ps, us)
  BY <1>1, <1>2, <1>3 DEF WholeAt, pageVars, tableVars
<1>7. down'[s] = IF s = t THEN Append(told[s], e) ELSE told[s]
  BY <1>2, <1>3, <1>4
<1>8. CASE t = s /\ h.visit = p.visit
  <2>1. AckOf(p, e) /\ h.room = r
    <3>1. Visited(s, h.visit, h.room)
      BY <1>2, <1>8 DEF VisitInv
    <3> QED
      BY <1>1, <1>4, <1>8, <3>1, SocketOf DEF Visited, AckOf
  <2>2. PICK n, a : n = h.seen /\ a = thread[r]
    OBVIOUS
  <2>3. n \in 0..Len(a) /\ a \in Seq(Messages) /\ Len(a) \in Nat /\ DOMAIN a = 1..Len(a)
    <3>1. h \in Handlers /\ h.seen <= Len(thread[h.room])
      BY DEF ServerTypes, SeenInv
    <3> QED
      BY <1>5, <2>1, <2>2, <3>1, LenProperties DEF Handlers
  <2>4. e.history = LastOf(SubSeq(a, 1, n), HistorySize)
    BY <1>1, <2>1, <2>2 DEF Answer, Ack
  <2>5. \A i \in DOMAIN a : \A j \in DOMAIN a : a[i] = a[j] => i = j
    BY <1>3, <2>2 DEF KeptInv
  <2>6. RacedBy(h) \subseteq us
    <3>1. RacedBy(h) \subseteq Messages
      <4>1. \A m \in PendingOf(posts) : m \in Messages
        BY DEF PendingOf, ServerTypes, Posts
      <4>2. ToSet(SubSeq(a, n + 1, Len(a))) \subseteq Messages
        <5>1. PICK k, l, b : k = n + 1 /\ l = Len(a) /\ b = SubSeq(a, n + 1, Len(a))
          OBVIOUS
        <5>2. k \in Int /\ l \in Int /\ \A i \in k..l : a[i] \in Messages
          BY <2>3, <5>1, ElementOfSeq
        <5>3. SubSeq(a, k, l) \in Seq(Messages)
          BY <5>2, SubSeqProperties
        <5>4. b \in Seq(Messages)
          BY <5>1, <5>3
        <5>5. \A i \in DOMAIN b : b[i] \in Messages
          BY <5>4, ElementOfSeq, LenProperties
        <5> QED
          BY <5>1, <5>5 DEF ToSet
      <4> QED
        BY <2>1, <2>2, <4>1, <4>2 DEF RacedBy, PendingOf
    <3> QED
      BY <1>1, <1>2, <1>8, <3>1 DEF RacedOf
  <2>7. ASSUME NEW i \in DOMAIN a, i <= n, a[i] \in ps PROVE a[i] \in us
    <3>1. PICK b : b = SubSeq(a, 1, n)
      OBVIOUS
    <3>2. 1 \in Int /\ n \in Int /\ \A k \in 1..n : a[k] \in Messages
      BY <2>3, ElementOfSeq
    <3>3. b \in Seq(Messages) /\ Len(b) = n /\ \A k \in 1..n : b[k] = a[k]
      <4>1. /\ b \in Seq(Messages) /\ Len(b) = (IF 1 <= n THEN n - 1 + 1 ELSE 0)
            /\ \A k \in 1..(n - 1 + 1) : b[k] = a[1 + k - 1]
        BY <3>1, <3>2, SubSeqProperties
      <4> QED
        BY <2>3, <4>1
    <3>4. i \in DOMAIN b /\ b[i] = a[i]
      BY <2>3, <2>7, <3>3, LenProperties
    <3>5. a[i] \in ToSet(SubSeq(a, 1, n)) \cap {q.msg : q \in posts}
      BY <1>1, <2>7, <3>1, <3>4 DEF ToSet, PendingOf
    <3>6. a[i] \in RacedBy(h)
      BY <2>1, <2>2, <3>5 DEF RacedBy
    <3> QED
      BY <2>6, <3>6
  <2>8. ASSUME NEW i \in DOMAIN a, i > n, a[i] \notin ps PROVE a[i] \in us
    <3>1. PICK k, l, b : k = n + 1 /\ l = Len(a) /\ b = SubSeq(a, n + 1, Len(a))
      OBVIOUS
    <3>2. k \in Int /\ l \in Int /\ \A j \in k..l : a[j] \in Messages
      BY <2>3, <3>1, ElementOfSeq
    <3>3. PICK z : z = SubSeq(a, k, l)
      OBVIOUS
    <3>4. /\ z \in Seq(Messages) /\ Len(z) = (IF k <= l THEN l - k + 1 ELSE 0)
          /\ \A j \in 1..(l - k + 1) : z[j] = a[k + j - 1]
      BY <3>2, <3>3, SubSeqProperties
    <3>5. PICK j : j = i - n
      OBVIOUS
    <3>6. j \in 1..(l - k + 1) /\ k + j - 1 = i /\ k <= l
      <4>1. i \in 1..l /\ l \in Nat /\ n \in Nat /\ i > n /\ k = n + 1
        BY <2>3, <2>8, <3>1
      <4> QED
        BY ONLY <3>5, <4>1
    <3>7. j \in DOMAIN z /\ z[j] = a[i]
      BY <3>2, <3>4, <3>6, LenProperties
    <3>8. a[i] \in ToSet(SubSeq(a, n + 1, Len(a)))
      BY <3>1, <3>3, <3>7 DEF ToSet
    <3>9. a[i] \in RacedBy(h)
      BY <1>1, <2>1, <2>2, <2>8, <3>8 DEF RacedBy, PendingOf
    <3> QED
      BY <2>6, <3>9
  <2>9. told[s] \in Seq(DownPackets)
    BY <1>3, <1>4
  <2>10. Whole(p, Append(told[s], e), a, ps, us)
    BY <1>4, <2>1, <2>3, <2>4, <2>5, <2>7, <2>8, <2>9, WholeOnAnswer
  <2> QED
    BY <1>7, <1>8, <2>2, <2>10
<1>9. CASE ~(t = s /\ h.visit = p.visit)
  <2>1. Whole(p, down[s], thread[r], ps, rs)
    BY <1>1, <1>9 DEF WholeAt
  <2>2. told[s] \in Seq(DownPackets) /\ Whole(p, told[s], thread[r], ps, rs)
    BY <1>1, <1>3, <2>1, WholeOnPresence
  <2>3. Whole(p, down'[s], thread[r], ps, rs)
    <3>1. CASE t # s
      BY <1>7, <2>2, <3>1
    <3>2. CASE t = s
      <4>1. ~AckOf(p, e) /\ e.op # "message"
        BY <1>4, <1>9, <3>2 DEF AckOf
      <4>2. Whole(p, Append(told[s], e), thread[r], ps, rs)
        BY <1>4, <2>2, <4>1, WholeOnMore
      <4> QED
        BY <1>7, <3>2, <4>2
    <3> QED
      BY <3>1, <3>2
  <2> QED
    BY <1>5, <2>3, WholeWithin
<1> QED
  BY <1>8, <1>9


\* A message is kept, and is still to be sent out.
LEMMA WholeOnKeep ==
  ASSUME ServerTypes, NEW p \in posts, Create(p), NEW c, page[c].story \in Stories, WholeAt(c)
  PROVE  WholeAt(c)'
<1>1. PICK s, r, m, t, ps, rs : /\ s = Socket(c) /\ r = page[c].story /\ m = p.msg /\ t = thread[r]
                                /\ ps = PendingOf(posts) /\ rs = RacedOf(s, raced)
  OBVIOUS
<1>2. /\ thread' = [thread EXCEPT ![p.room] = Append(thread[p.room], m)]
      /\ posts' = (posts \ {p}) \cup {CreatedOf(p)} /\ UNCHANGED <<page, opened, down, raced>>
  BY <1>1 DEF Create, CreatedOf, pageVars, history
<1>3. p \in Posts /\ m \in Messages /\ m \in ps /\ CreatedOf(p).msg = m /\ t \in Seq(Messages)
  BY <1>1 DEF ServerTypes, Posts, CreatedOf, PendingOf
<1>4. PendingOf(posts') = ps
  BY <1>1, <1>2, <1>3 DEF PendingOf
<1>5. Whole(page[c], down[s], t, ps, rs)
  BY <1>1 DEF WholeAt
<1>6. Whole(page[c], down[s], thread'[r], ps, rs)
  <2>1. CASE r = p.room
    <3>1. thread'[r] = Append(t, m)
      BY <1>1, <1>2, <2>1 DEF ServerTypes
    <3> QED
      BY <1>3, <1>5, <3>1, WholeOnCreate
  <2>2. CASE r # p.room
    <3>1. thread'[r] = t
      BY <1>1, <1>2, <2>2 DEF ServerTypes
    <3> QED
      BY <1>5, <3>1
  <2> QED
    BY <2>1, <2>2
<1>7. Socket(c)' = s
  BY <1>1, <1>2 DEF Socket
<1>8. Whole(page'[c], down'[s], thread'[page'[c].story], PendingOf(posts'), RacedOf(s, raced'))
  BY <1>1, <1>2, <1>4, <1>6
<1> QED
  BY <1>7, <1>8 DEF WholeAt

\* A message is sent out, to the thread of the page or to another one.
LEMMA WholeOnPublish ==
  ASSUME PageTypes, ServerTypes, DownTypes, SocketInv, ThreadInv, KeptInv, JoinsInv,
         NEW p \in posts, Publish(p), NEW c \in online, Due(c), WholeAt(c)
  PROVE  WholeAt(c)'
<1>1. PICK s, r, m, t, ps, rs, o, e :
          /\ s = Socket(c) /\ r = page[c].story /\ m = p.msg /\ t = thread[r]
          /\ ps = PendingOf(posts) /\ rs = RacedOf(s, raced) /\ o = page[c] /\ e = Broadcast(p.msg)
  OBVIOUS
<1>2. /\ p.pc = "created" /\ posts' = posts \ {p} /\ down' = ToRoom(p.room, rooms, e)
      /\ UNCHANGED <<page, opened, thread, raced>>
  BY <1>1 DEF Publish, pageVars, history
<1>3. p \in Posts /\ p.room \in Stories /\ m \in Messages /\ m \in ps /\ m \in ToSet(thread[p.room])
  BY <1>1, <1>2 DEF ServerTypes, Posts, PendingOf, KeptInv
<1>4. e \in DownPackets /\ e.op = "message" /\ e.msg = m
  BY <1>1, <1>3, PacketTypes DEF Broadcast
<1>5. PendingOf(posts') = ps \ {m}
  BY <1>1, <1>2 DEF PendingOf, KeptInv
<1>6. Whole(o, down[s], t, ps, rs)
  BY <1>1 DEF WholeAt
<1>7. Joined(c)
  <2>1. ASSUME NEW i \in DOMAIN up[s], up[s][i].op = "join" PROVE FALSE
    <3>1. PICK j \in DOMAIN up[s] : up[s][j].op = "join" /\ up[s][j].visit = page[c].visit
      BY <1>1, <2>1 DEF JoinsInv, JoinsLast, Due
    <3> QED
      BY <1>1, <3>1 DEF Due, Awaits, Awaited
  <2> QED
    BY <1>1, <2>1 DEF Joined, Due
<1>8. r \in Stories /\ s \in Sockets /\ rooms[s] = {r} /\ s \in Heard
  BY <1>1, <1>7, JoinedPlace DEF Due, Heard
<1>9. t \in Seq(Messages) /\ down[s] \in Seq(DownPackets)
  BY <1>1, <1>8 DEF ServerTypes, DownTypes
<1>10. Whole(o, down'[s], t, ps \ {m}, rs)
  <2>1. CASE p.room = r
    <3>1. down'[s] = Append(down[s], e)
      BY <1>2, <1>8, <2>1 DEF ToRoom
    <3>2. e.msg \in ToSet(t) /\ e.msg \in ps
      BY <1>1, <1>3, <1>4, <2>1
    <3>3. Whole(o, Append(down[s], e), t, ps \ {e.msg}, rs)
      BY <1>4, <1>6, <1>9, <3>2, WholeOnSent
    <3> QED
      BY <1>4, <3>1, <3>3
  <2>2. CASE p.room # r
    <3>1. down'[s] = down[s]
      BY <1>2, <1>8, <2>2 DEF ToRoom
    <3>2. m \notin ToSet(t)
      BY <1>1, <1>3, <1>8, <2>2 DEF KeptInv, ToSet
    <3>3. \A x \in ToSet(t) : x \in ps \ {m} <=> x \in ps
      BY <3>2
    <3>4. Whole(o, down[s], t, ps \ {m}, rs)
      BY <1>6, <1>9, <3>3, WholeWithin
    <3> QED
      BY <3>1, <3>4
  <2> QED
    BY <2>1, <2>2
<1>11. Socket(c)' = s
  BY <1>1, <1>2 DEF Socket
<1>12. Whole(page'[c], down'[s], thread'[page'[c].story], PendingOf(posts'), RacedOf(s, raced'))
  BY <1>1, <1>2, <1>5, <1>10
<1> QED
  BY <1>11, <1>12 DEF WholeAt

\* The page gets a packet.
LEMMA WholeOnDeliver ==
  ASSUME PageTypes, DownTypes, SocketInv, NEW c \in online, Deliver(c), page[c].story # None, WholeAt(c)
  PROVE  WholeAt(c)'
<1>1. PICK s, q, p, e, o : /\ s = Socket(c) /\ q = down[s] /\ p = page[c] /\ e = Head(q) /\ o = page'[c]
  OBVIOUS
<1>2. s \in Sockets /\ c \in Readers /\ p \in Pages /\ q \in Seq(DownPackets)
  BY <1>1, SocketOf DEF PageTypes, DownTypes
<1>3. /\ q # <<>> /\ down' = [down EXCEPT ![s] = Tail(q)]
      /\ UNCHANGED <<opened, thread, posts, raced>>
  BY <1>1 DEF Deliver, tableVars, history
<1>4. q[1] = e /\ e \in DownPackets
  BY <1>1, <1>2, <1>3, Popped
<1>13. p.story # None
  BY <1>1
<1>5. page'[c] =
        CASE e.op = "presence" -> [p EXCEPT !.told = e.fans]
          [] e.op = "message" -> [p EXCEPT !.shown = LastOf(Append(p.shown, e.msg), ShownSize)]
          [] e.op = "ack" -> IF e.visit = p.visit
                             THEN [p EXCEPT !.shown = e.history, !.told = e.fans] ELSE p
  BY <1>1, <1>2, <1>13 DEF Deliver, PageTypes
<1>6. /\ o.visit = p.visit /\ o.story = p.story
      /\ e.op = "message" => o.shown = LastOf(Append(p.shown, e.msg), ShownSize)
      /\ e.op # "message" => o.shown = IF AckOf(p, e) THEN e.history ELSE p.shown
  <2>1. CASE e.op = "presence"
    <3>1. o = [p EXCEPT !.told = e.fans]
      BY <1>1, <1>5, <2>1
    <3> QED
      BY <1>2, <2>1, <3>1 DEF Pages, AckOf
  <2>2. CASE e.op = "message"
    <3>1. PICK x : x = LastOf(Append(p.shown, e.msg), ShownSize)
      OBVIOUS
    <3>2. o = [p EXCEPT !.shown = x]
      BY <1>1, <1>5, <2>2, <3>1
    <3> QED
      BY <1>2, <2>2, <3>1, <3>2 DEF Pages
  <2>3. CASE e.op = "ack" /\ e.visit = p.visit
    <3>1. o = [p EXCEPT !.shown = e.history, !.told = e.fans]
      BY <1>1, <1>5, <2>3
    <3> QED
      BY <1>2, <2>3, <3>1 DEF Pages, AckOf
  <2>4. CASE e.op = "ack" /\ e.visit # p.visit
    <3>1. o = p
      BY <1>1, <1>5, <2>4
    <3> QED
      BY <2>4, <3>1 DEF AckOf
  <2> QED
    BY <1>4, <2>1, <2>2, <2>3, <2>4, DownFields
<1>7. PICK t, ps, rs : t = thread[p.story] /\ ps = PendingOf(posts) /\ rs = RacedOf(s, raced)
  OBVIOUS
<1>8. Whole(p, q, t, ps, rs)
  BY <1>1, <1>7 DEF WholeAt
<1>9. Whole(o, Tail(q), t, ps, rs)
  BY <1>2, <1>3, <1>4, <1>6, <1>8, WholeOnDelivery
<1>10. Socket(c)' = s /\ down'[s] = Tail(q)
  BY <1>1, <1>2, <1>3 DEF Socket, DownTypes
<1>11. Whole(page'[c], down'[s], thread'[page'[c].story], PendingOf(posts'), RacedOf(s, raced'))
  BY <1>1, <1>3, <1>6, <1>7, <1>9, <1>10
<1> QED
  BY <1>10, <1>11 DEF WholeAt

LEMMA FailedGrows ==
  ASSUME [Next]_vars PROVE failed \subseteq failed'
<1>1. ASSUME NEW s \in Sockets, Start(s) PROVE failed' = failed
  BY <1>1 DEF Start, OnJoin, OnLeave, OnMessage, Receive
<1>2. ASSUME NEW s \in Sockets, Resume(s) \/ QueryStep(s) \/ Disconnect(s) PROVE failed \subseteq failed'
  BY <1>2 DEF Resume, QueryStep, JoinLeft, JoinJoined, LeaveDone, JoinRead, JoinAnswered,
              JoinFailed, Disconnect, history
<1>3. ASSUME NEW c \in Readers, PageStep(c) PROVE failed' = failed
  BY <1>3 DEF PageStep, Close, Connect, Drop, Deliver, Open, Type, history
<1>4. CASE PostStep \/ Restart
  BY <1>4 DEF PostStep, Create, Publish, CreateFailed, Restart, history
<1>5. CASE UNCHANGED vars
  BY <1>5 DEF vars, history
<1> QED
  BY <1>1, <1>2, <1>3, <1>4, <1>5, StepCases


LEMMA WholeInvStep ==
  ASSUME PageTypes, ServerTypes, DownTypes, SeenInv, SocketInv, TextsInv, ThreadInv, VisitInv,
         OnceInv, KeptInv, JoinsInv, WholeInv, [Next]_vars, PageTypes'
  PROVE  WholeInv'
<1> SUFFICES ASSUME NEW c \in online', Due(c)' PROVE WholeAt(c)'
  BY DEF WholeInv, Due, WholeAt
<1>1. /\ page'[c].story # None /\ c \notin crossed' /\ Socket(c)' \notin failed' /\ ~Awaits(c)'
  BY DEF Due
<1>2. /\ c \in online /\ Socket(c)' = Socket(c)
      /\ page'[c].story = page[c].story /\ page'[c].visit = page[c].visit
      /\ \/ ~Awaits(c)
         \/ \E h \in work[Socket(c)] :
               /\ h.visit = page[c].visit
               /\ JoinAnswered(Socket(c), h) \/ JoinFailed(Socket(c), h)
  BY <1>1, AwaitsSteps
<1>3. PICK s, r : s = Socket(c) /\ r = page[c].story
  OBVIOUS
<1>4. s \in Sockets /\ s \in Heard /\ c \in Readers /\ r \in Stories /\ s[1] = c
  BY <1>1, <1>2, <1>3, SocketOf DEF Heard, PageTypes, Pages
<1>5. page[c].story # None /\ c \notin crossed /\ s \notin failed
  BY <1>1, <1>2, <1>3, CrossedGrows, FailedGrows
<1>6. ASSUME NEW h \in work[s], JoinAnswered(s, h), h.visit = page[c].visit PROVE WholeAt(c)'
  BY <1>2, <1>3, <1>4, <1>5, <1>6, WholeOnJoin
<1>7. \A h \in work[s] : ~JoinFailed(s, h)
  BY <1>1, <1>2, <1>3 DEF JoinFailed
<1>8. SUFFICES ASSUME ~Awaits(c) PROVE WholeAt(c)'
  BY <1>2, <1>3, <1>6, <1>7
<1>9. Due(c) /\ WholeAt(c)
  BY <1>2, <1>3, <1>5, <1>8, WholeMeans DEF Due
<1>10. ASSUME page'[c] = page[c], down'[s] = down[s], UNCHANGED <<thread, posts, raced>>
       PROVE  WholeAt(c)'
  BY <1>2, <1>3, <1>9, <1>10, WholeStays
<1>11. ASSUME page' = page, NEW x, NEW in, down' = BroadcastPresence(x, in),
              UNCHANGED <<thread, posts, raced>>
       PROVE  WholeAt(c)'
  BY <1>2, <1>3, <1>4, <1>9, <1>11, WholeOnCount
<1>12. ASSUME NEW t \in Sockets, Start(t) PROVE WholeAt(c)'
  <2>1. page' = page /\ down' = down /\ thread' = thread /\ raced' = raced
    BY <1>12 DEF Start, OnJoin, OnLeave, OnMessage, Receive, pageVars, tableVars
  <2>2. CASE posts' = posts
    BY <1>10, <2>1, <2>2
  <2>3. CASE OnMessage(t) /\ posts' = posts \cup {PostOf(t)}
    <3>1. PICK m : m = Head(up[t]).msg
      OBVIOUS
    <3>2. ~Kept(m)
      BY <2>3, <3>1, WaitedFor, OnceMeans DEF Alone
    <3>3. m \notin ToSet(thread[r])
      BY <1>4, <3>2 DEF Kept
    <3>4. PendingOf(posts') = PendingOf(posts) \cup {m}
      <4>1. PICK g : g = PostOf(t)
        OBVIOUS
      <4>2. g.msg = m /\ posts' = posts \cup {g}
        BY <2>3, <3>1, <4>1 DEF PostOf
      <4> QED
        BY <4>2 DEF PendingOf
    <3>5. \A x \in ToSet(thread[r]) : x \in PendingOf(posts') <=> x \in PendingOf(posts)
      BY <3>3, <3>4
    <3> QED
      BY <1>2, <1>3, <1>4, <1>9, <2>1, <3>5, WholeOnRefusal
  <2> QED
    BY <1>12, <2>2, <2>3 DEF Start, OnJoin, OnLeave, OnMessage, tableVars, PostOf
<1>13. ASSUME NEW t \in Sockets, Resume(t) PROVE WholeAt(c)'
  <2>1. PICK h \in work[t] : JoinLeft(t, h) \/ JoinJoined(t, h) \/ LeaveDone(t, h)
    BY <1>13 DEF Resume
  <2>2. page' = page /\ thread' = thread /\ raced' = raced /\ posts' = posts
    BY <2>1 DEF JoinLeft, JoinJoined, LeaveDone, pageVars, tableVars, history
  <2>3. \/ down' = down
        \/ \E x : down' = BroadcastPresence(x, rooms)
    BY <2>1 DEF JoinLeft, JoinJoined, LeaveDone
  <2> QED
    BY <1>10, <1>11, <2>2, <2>3
<1>14. ASSUME NEW t \in Sockets, QueryStep(t) PROVE WholeAt(c)'
  <2>1. PICK h \in work[t] : JoinRead(t, h) \/ JoinAnswered(t, h) \/ JoinFailed(t, h)
    BY <1>14 DEF QueryStep
  <2>2. CASE JoinAnswered(t, h)
    BY <1>2, <1>5, <1>9, <2>2, WholeOnJoin
  <2>3. CASE JoinRead(t, h) \/ JoinFailed(t, h)
    <3>1. page' = page /\ down' = down /\ UNCHANGED <<thread, posts, raced>>
      BY <2>3 DEF JoinRead, JoinFailed, pageVars, tableVars, history
    <3> QED
      BY <1>10, <3>1
  <2> QED
    BY <2>1, <2>2, <2>3
<1>15. ASSUME NEW t \in Sockets, Disconnect(t) PROVE WholeAt(c)'
  <2>1. page' = page /\ UNCHANGED <<thread, posts, raced>>
    BY <1>15 DEF Disconnect, pageVars, tableVars, history
  <2>2. down' = down \/ \E x : down' = BroadcastPresence(x, rooms')
    BY <1>15 DEF Disconnect
  <2> QED
    BY <1>10, <1>11, <2>1, <2>2
<1>16. CASE PostStep
  <2>1. PICK p \in posts : Create(p) \/ Publish(p) \/ CreateFailed(p)
    BY <1>16 DEF PostStep
  <2>2. CASE Create(p)
    BY <1>3, <1>4, <1>9, <2>2, WholeOnKeep
  <2>3. CASE Publish(p)
    BY <1>2, <1>9, <2>3, WholeOnPublish
  <2>4. CASE CreateFailed(p)
    <3>1. page' = page /\ down' = down /\ UNCHANGED <<thread, raced>> /\ posts' = posts \ {p}
      BY <2>4 DEF CreateFailed, pageVars
    <3>2. p.msg \notin ToSet(thread[r])
      BY <1>4, <2>4 DEF CreateFailed, KeptInv
    <3>3. \A x \in ToSet(thread[r]) : x \in PendingOf(posts') <=> x \in PendingOf(posts)
      BY <3>1, <3>2 DEF PendingOf
    <3> QED
      BY <1>2, <1>3, <1>4, <1>9, <3>1, <3>3, WholeOnRefusal
  <2> QED
    BY <2>1, <2>2, <2>3, <2>4
<1>17. ASSUME NEW d \in Readers, PageStep(d) PROVE WholeAt(c)'
  <2>0. UNCHANGED <<thread, posts, raced>>
    BY <1>17 DEF PageStep, Close, Connect, Drop, Deliver, Open, Type, tableVars, history
  <2>1. CASE Close(d)
    <3>1. page' = [page EXCEPT ![d].story = None, ![d].shown = <<>>, ![d].told = None] /\ down' = down
      BY <2>1 DEF Close
    <3>2. d # c
      BY <1>1, <3>1 DEF PageTypes, Pages
    <3>3. page'[c] = page[c]
      BY <1>4, <3>1, <3>2 DEF PageTypes
    <3> QED
      BY <1>10, <2>0, <3>1, <3>3
  <2>2. CASE Connect(d) \/ \E m \in Messages : Type(d, m)
    <3>1. page' = page /\ down' = down
      BY <2>2 DEF Connect, Type
    <3> QED
      BY <1>10, <2>0, <3>1
  <2>3. CASE Drop(d)
    <3>1. page' = page /\ d # c /\ d \in online /\ down' = [down EXCEPT ![Socket(d)] = <<>>]
      BY <2>3 DEF Drop
    <3>2. Socket(d) # s
      BY <1>4, <3>1, SocketOf
    <3>3. down'[s] = down[s]
      BY <1>4, <3>1, <3>2 DEF DownTypes
    <3> QED
      BY <1>10, <2>0, <3>1, <3>3
  <2>4. CASE Deliver(d) /\ d = c
    BY <1>2, <1>5, <1>9, <2>4, WholeOnDeliver
  <2>5. CASE Deliver(d) /\ d # c
    <3>1. /\ d \in online /\ down' = [down EXCEPT ![Socket(d)] = Tail(down[Socket(d)])]
          /\ \E x : page' = [page EXCEPT ![d] = x]
      BY <2>5 DEF Deliver
    <3>2. Socket(d) # s
      BY <1>4, <2>5, <3>1, SocketOf
    <3>3. down'[s] = down[s] /\ page'[c] = page[c]
      BY <1>4, <2>5, <3>1, <3>2 DEF DownTypes, PageTypes
    <3> QED
      BY <1>10, <2>0, <3>3
  <2>6. ASSUME NEW q \in Stories, Open(d, q) PROVE WholeAt(c)'
    <3>1. page[d].story = None /\ down' = down /\ \E x : page' = [page EXCEPT ![d] = x]
      BY <2>6 DEF Open
    <3>2. page'[c] = page[c]
      BY <1>4, <1>5, <3>1 DEF PageTypes
    <3> QED
      BY <1>10, <2>0, <3>1, <3>2
  <2> QED
    BY <1>17, <2>1, <2>2, <2>3, <2>4, <2>5, <2>6 DEF PageStep
<1>18. ~Restart
  BY DEF Restart
<1>19. CASE UNCHANGED vars
  BY <1>10, <1>19 DEF vars, pageVars, tableVars, history
<1> QED
  BY <1>12, <1>13, <1>14, <1>15, <1>16, <1>17, <1>18, <1>19, StepCases

-------------------------------------------------------------------------------
(* Whole threads, as the property says it *)

LEMMA InitWhole ==
  ASSUME Init PROVE OnceInv /\ KeptInv /\ JoinsInv /\ WholeInv
<1>1. DOMAIN <<>> = {} /\ online = {} /\ posts = {}
  BY DEF Init
<1>2. /\ \A s \in Sockets : up[s] = <<>>
      /\ \A c \in Readers : buffer[c] = <<>>
      /\ \A r \in Stories : thread[r] = <<>>
  BY DEF Init
<1>3. OnceInv
  BY <1>1, <1>2 DEF OnceInv
<1>4. KeptInv
  BY <1>1, <1>2 DEF KeptInv
<1>5. JoinsInv /\ WholeInv
  BY <1>1 DEF JoinsInv, WholeInv
<1> QED
  BY <1>3, <1>4, <1>5

\* The entries of b that are not in R stand after entry x of t, each once.
LaterOnce(t, x, b, R) ==
    \A i \in DOMAIN b : b[i] \notin R =>
        /\ \A j \in DOMAIN b : b[i] = b[j] => i = j
        /\ \E k \in DOMAIN t : k > x /\ b[i] = t[k]

\* How many entries of b are in R.
Entries(b, R) == Cardinality({i \in DOMAIN b : b[i] \in R})

\* If entry x of t is among its last h, fewer than h entries of b stand after it: those
\* in R are more than Len(b) - h.
LEMMA Outnumbered ==
  ASSUME NEW t \in Seq(Messages), NEW b \in Seq(Messages), NEW h \in Nat, NEW x \in DOMAIN t,
         Len(t) - x < h, NEW R, LaterOnce(t, x, b, R)
  PROVE  Entries(b, R) > Len(b) - h
<1>1. PICK l, n : l = Len(b) /\ n = Len(t)
  OBVIOUS
<1>2. l \in Nat /\ n \in Nat /\ DOMAIN b = 1..l /\ DOMAIN t = 1..n /\ x \in 1..n /\ n - x < h
  BY <1>1, LenProperties
<1>0. PICK a : a = x + 1
  OBVIOUS
<1> DEFINE A == 1..l
           O == {i \in A : b[i] \in R}
           B == A \ O
           f == [i \in B |-> CHOOSE k \in 1..n : k > x /\ b[i] = t[k]]
           T == a..n
<1>3. ASSUME NEW i \in B PROVE f[i] \in T /\ b[i] = t[f[i]]
  <2>1. i \in DOMAIN b /\ b[i] \notin R
    BY <1>2
  <2>2. PICK k \in 1..n : k > x /\ b[i] = t[k]
    BY <1>2, <2>1 DEF LaterOnce
  <2>3. f[i] = CHOOSE j \in 1..n : j > x /\ b[i] = t[j]
    OBVIOUS
  <2>4. f[i] \in 1..n /\ f[i] > x /\ b[i] = t[f[i]]
    BY <2>2, <2>3
  <2>5. PICK y : y = f[i]
    OBVIOUS
  <2>6. y \in 1..n /\ y > x
    BY <2>4, <2>5
  <2>7. y \in T
    BY <1>0, <1>2, <2>6
  <2> QED
    BY <2>4, <2>5, <2>7
<1>4. \A i \in B : \A j \in B : f[i] = f[j] => i = j
  <2> SUFFICES ASSUME NEW i \in B, NEW j \in B, f[i] = f[j] PROVE i = j
    OBVIOUS
  <2>1. b[i] = b[j]
    BY <1>3
  <2> QED
    BY <1>2, <2>1 DEF LaterOnce
<1>5. f \in Injection(B, T)
  <2>1. f \in [B -> T]
    BY <1>3
  <2> QED
    BY <1>4, <2>1 DEF Injection, IsInjective
<1>6. IsFiniteSet(T) /\ Cardinality(T) = (IF a > n THEN 0 ELSE n - a + 1)
  <2>1. a \in Int /\ n \in Int
    BY <1>0, <1>2
  <2> QED
    BY <2>1, FS_Interval
<1>7. IsFiniteSet(A) /\ Cardinality(A) = l
  BY <1>2, FS_Interval
<1>8. O \in SUBSET A /\ A \cap O = O
  OBVIOUS
<1>9. Cardinality(B) <= Cardinality(T)
  <2> HIDE DEF B, T, f
  <2> QED
    BY <1>5, <1>6, FS_Injection
<1>10. /\ IsFiniteSet(O) /\ Cardinality(B) = Cardinality(A) - Cardinality(O)
  <2>1. Cardinality(A \ O) = Cardinality(A) - Cardinality(A \cap O)
    <3> HIDE DEF A, O
    <3> QED
      BY <1>7, FS_Difference
  <2>2. IsFiniteSet(O)
    <3> HIDE DEF A, O
    <3> QED
      BY <1>7, <1>8, FS_Subset
  <2> QED
    BY <1>8, <2>1, <2>2
<1>11. Cardinality(O) \in Nat
  <2> HIDE DEF O
  <2> QED
    BY <1>10, FS_CardinalityType
<1>12. PICK o, p, q : o = Cardinality(O) /\ p = Cardinality(B) /\ q = Cardinality(T)
  OBVIOUS
<1>13. o \in Nat /\ p = l - o /\ p <= q /\ q = (IF a > n THEN 0 ELSE n - a + 1)
  BY <1>6, <1>7, <1>9, <1>10, <1>11, <1>12
<1>14. h \in Nat /\ h > n - x
  BY <1>2
<1>15. o > l - h
  BY ONLY <1>2, <1>13, <1>14, <1>0
<1>16. O = {i \in DOMAIN b : b[i] \in R}
  BY <1>2
<1>17. Entries(b, R) = o
  BY <1>12, <1>16 DEF Entries
<1> QED
  BY <1>1, <1>15, <1>17

LEMMA OneOrNone ==
  ASSUME NEW b, NEW m, Once(b, <<>>, 0, m), Has(b, <<>>, 0, m)
  PROVE  Cardinality({i \in DOMAIN b : b[i] = m}) = 1
<1>1. PICK S : S = {i \in DOMAIN b : b[i] = m}
  OBVIOUS
<1>2. DOMAIN <<>> = {}
  OBVIOUS
<1>3. PICK i \in DOMAIN b : b[i] = m
  BY <1>2 DEF Has, Brings
<1>4. S = {i}
  BY <1>1, <1>3 DEF Once
<1> QED
  BY <1>1, <1>4, FS_Singleton

LEMMA WholeInvSays ==
  ASSUME PageTypes, ServerTypes, KeptInv, WholeInv PROVE ThreadIsWhole
<1> SUFFICES ASSUME NEW c \in Readers, Settled(c), page[c].story # None, c \notin crossed,
                    Socket(c) \notin failed
             PROVE  /\ ToSet(page[c].shown) \subseteq ToSet(thread[page[c].story])
                    /\ \A m \in ToSet(LastOf(thread[page[c].story], HistorySize)) \ PendingOf(posts) :
                          <<Socket(c), m>> \notin raced =>
                            \/ Cardinality({i \in DOMAIN page[c].shown : page[c].shown[i] = m}) = 1
                            \/ m \notin ToSet(page[c].shown) /\ Overtaken(c, m)
  BY DEF ThreadIsWhole, PendingOf
<1>1. PICK r, t, b, s : r = page[c].story /\ t = thread[r] /\ b = page[c].shown /\ s = Socket(c)
  OBVIOUS
<1>2. /\ c \in online /\ r \in Stories /\ t \in Seq(Messages) /\ b \in Seq(Messages)
      /\ down[s] = <<>> /\ DOMAIN <<>> = {} /\ Len(<<>>) = 0
  BY <1>1 DEF PageTypes, Pages, ServerTypes, Settled
<1>3. ~Awaits(c)
  BY <1>2 DEF Settled, Awaits, Awaited
<1>4. Complete(t, PendingOf(posts), RacedOf(s, raced), b, <<>>, 0)
  <2>1. PICK k \in 0..0 : Complete(t, PendingOf(posts), RacedOf(s, raced), Base(page[c], <<>>, k), <<>>, k)
    BY <1>1, <1>2, <1>3 DEF WholeInv, Whole
  <2> QED
    BY <1>1, <2>1 DEF Base
<1>5. \A m \in Messages : Has(b, <<>>, 0, m) <=> \E i \in DOMAIN b : b[i] = m
  BY <1>2 DEF Has, Brings
<1>6. ToSet(b) \subseteq ToSet(t)
  <2> SUFFICES ASSUME NEW i \in DOMAIN b PROVE b[i] \in ToSet(t)
    BY DEF ToSet
  <2>1. b[i] \in Messages
    BY <1>2, ElementOfSeq, LenProperties
  <2> QED
    BY <1>4, <1>5, <2>1 DEF Complete
<1>7. ASSUME NEW m \in ToSet(LastOf(t, HistorySize)), m \notin PendingOf(posts), <<s, m>> \notin raced
      PROVE  \/ Cardinality({i \in DOMAIN b : b[i] = m}) = 1
             \/ m \notin ToSet(b) /\ Overtaken(c, m)
  <2>1. PICK d \in 0..Len(t) :
              /\ DOMAIN LastOf(t, HistorySize) = 1..(Len(t) - d)
              /\ \A i \in 1..(Len(t) - d) : LastOf(t, HistorySize)[i] = t[d + i]
              /\ Len(t) - d <= HistorySize
    BY <1>2, ChatAssumption, LastOfFields
  <2>2. PICK y \in 1..(Len(t) - d) : m = t[d + y]
    BY <2>1 DEF ToSet
  <2>3. PICK n, x : n = Len(t) /\ x = d + y
    OBVIOUS
  <2>4. /\ n \in Nat /\ DOMAIN t = 1..n /\ x \in 1..n /\ n - x < HistorySize /\ m = t[x]
        /\ HistorySize \in Nat
    BY <1>2, <2>1, <2>2, <2>3, LenProperties, ChatAssumption
  <2>5. m \in Messages \ RacedOf(s, raced)
    BY <1>2, <1>7, <2>3, <2>4, ElementOfSeq DEF RacedOf
  <2>6. /\ Once(b, <<>>, 0, m)
        /\ Has(b, <<>>, 0, m) \/ Len(b) = ShownSize
    BY <1>4, <1>7, <2>5 DEF Complete
  <2>7. CASE Has(b, <<>>, 0, m)
    BY <2>6, <2>7, OneOrNone
  <2>8. CASE ~Has(b, <<>>, 0, m)
    <3>1. m \notin ToSet(b) /\ Len(b) = ShownSize
      BY <1>5, <2>5, <2>6, <2>8 DEF ToSet
    <3>2. PICK R : R = {e \in Messages : e \notin Later(r, m) \/ <<s, e>> \in raced}
      OBVIOUS
    <3>3. ASSUME NEW i \in DOMAIN b, b[i] \notin R
          PROVE  /\ \A j \in DOMAIN b : b[i] = b[j] => i = j
                 /\ \E k \in DOMAIN t : k > x /\ b[i] = t[k]
      <4>1. PICK e : e = b[i]
        OBVIOUS
      <4>2. e \in Messages
        BY <1>2, <4>1, ElementOfSeq, LenProperties
      <4>3. e \in Later(r, m) /\ e \notin RacedOf(s, raced)
        BY <3>2, <3>3, <4>1, <4>2 DEF RacedOf
      <4>4. Once(b, <<>>, 0, e)
        BY <1>4, <4>2, <4>3 DEF Complete
      <4>5. PICK k \in DOMAIN t : e = t[k] /\ \E l \in 1..(k - 1) : t[l] = m
        BY <1>1, <4>3 DEF Later
      <4>6. PICK l \in 1..(k - 1) : t[l] = m
        BY <4>5
      <4>7. l \in DOMAIN t /\ k > l
        BY <2>4, <4>5, <4>6
      <4>8. l = x
        BY <1>1, <1>2, <2>4, <4>6, <4>7 DEF KeptInv
      <4> QED
        BY <3>3, <4>1, <4>4, <4>5, <4>7, <4>8 DEF Once
    <3>4. Entries(b, R) > Len(b) - HistorySize
      <4>1. x \in DOMAIN t /\ Len(t) - x < HistorySize /\ HistorySize \in Nat
        BY <2>3, <2>4
      <4>2. LaterOnce(t, x, b, R)
        BY <3>3 DEF LaterOnce
      <4> QED
        BY ONLY <1>2, <4>1, <4>2, Outnumbered
    <3>5. {i \in DOMAIN b : b[i] \in R}
            = {i \in DOMAIN b : b[i] \notin Later(r, m) \/ <<s, b[i]>> \in raced}
      BY <1>2, <3>2, ElementOfSeq, LenProperties
    <3>6. Overtaken(c, m)
      BY <1>1, <3>1, <3>4, <3>5 DEF Overtaken, Entries
    <3> QED
      BY <3>1, <3>6
  <2> QED
    BY <2>7, <2>8
<1> QED
  BY <1>1, <1>6, <1>7

-------------------------------------------------------------------------------
(* The theorems *)

ChatInv ==
    /\ PageTypes /\ ServerTypes /\ DownTypes /\ SeenInv
    /\ SocketInv /\ TextsInv /\ ThreadInv /\ PlacesInv /\ VisitInv /\ PresenceInv
    /\ OnceInv /\ KeptInv /\ JoinsInv /\ WholeInv

LEMMA ChatInductive ==
  Spec => []ChatInv
<1>1. Init => ChatInv
  <2> SUFFICES ASSUME Init PROVE ChatInv
    OBVIOUS
  <2>1. PageTypes /\ ServerTypes /\ DownTypes /\ SeenInv /\ SocketInv /\ TextsInv /\ VisitInv
    BY InitTypes, InitSocketInv, InitTextsInv, InitVisitInv
  <2>2. ThreadInv
    BY DEF Init, ThreadInv
  <2>3. PlacesInv
    <3>1. DOMAIN <<>> = {}
      OBVIOUS
    <3> QED
      BY <3>1 DEF Init, PlacesInv
  <2>4. PresenceInv
    BY DEF Init, PresenceInv
  <2> QED
    BY <2>1, <2>2, <2>3, <2>4, InitWhole DEF ChatInv
<1>2. ChatInv /\ [Next]_vars => ChatInv'
  <2> SUFFICES ASSUME ChatInv, [Next]_vars PROVE ChatInv'
    OBVIOUS
  <2>1. /\ PageTypes /\ ServerTypes /\ DownTypes /\ SeenInv
        /\ SocketInv /\ TextsInv /\ ThreadInv /\ PlacesInv /\ VisitInv /\ PresenceInv
        /\ OnceInv /\ KeptInv /\ JoinsInv /\ WholeInv
    BY DEF ChatInv
  <2>2. PageTypes' /\ ServerTypes' /\ DownTypes' /\ SeenInv' /\ SocketInv' /\ TextsInv'
    BY <2>1, PageTypesStep, ServerTypesStep, DownTypesStep, SeenStep, SocketInvStep, TextsInvStep
  <2>3. ThreadInv' /\ PlacesInv'
    BY <2>1, ThreadInvStep, PlacesInvStep
  <2>4. VisitInv' /\ PresenceInv'
    BY <2>1, <2>2, VisitInvStep, PresenceInvStep
  <2>5. OnceInv' /\ KeptInv' /\ JoinsInv'
    BY <2>1, OnceInvStep, KeptInvStep, JoinsInvStep
  <2>6. WholeInv'
    BY <2>1, <2>2, WholeInvStep
  <2> QED
    BY <2>2, <2>3, <2>4, <2>5, <2>6 DEF ChatInv
<1> QED
  BY <1>1, <1>2, PTL DEF Spec

\* The state of LiveChat and of ChatGateway is what their types say, and a socket that the
\* server has let go of is in no room and has nothing left to be read.
THEOREM TypeCorrect ==
  Spec => []TypeOK
<1>1. ChatInv => TypeOK
  BY DEF ChatInv, TypeOK, PageTypes, ServerTypes, SocketInv
<1> QED
  BY <1>1, ChatInductive, PTL

\* A settled socket is in the thread of its page and in no other (onJoin, onLeave and the
\* effect of LiveChat), after any page changes, reconnections and restarts, unless packets of
\* several page changes met in one tick.
THEOREM OneThreadPerSocket ==
  Spec => []InItsThread
<1>1. ChatInv => InItsThread
  BY SettledPlace DEF ChatInv, InItsThread
<1> QED
  BY <1>1, ChatInductive, PTL

\* A message is kept in the thread its writer had open (onMessage takes data.room, not a room
\* of the packet), however late its packet is read, and also when socket.io kept it through a
\* disconnection.
THEOREM TextsAreAtHome ==
  Spec => []PostedWhereTyped
<1>1. ChatInv => PostedWhereTyped
  BY PlacesInvSays DEF ChatInv
<1> QED
  BY <1>1, ChatInductive, PTL

\* When all is read and every lost socket noticed, each page shows how many readers its story
\* has (broadcastPresence), for any number of readers and connections.
THEOREM ReadersAreCounted ==
  Spec => []PresenceIsHonest
<1>1. ChatInv => PresenceIsHonest
  BY PresenceInvSays DEF ChatInv
<1> QED
  BY <1>1, ChatInductive, PTL

\* A settled page shows the newest messages of its thread, each once, and nothing of another
\* thread (the answer that onJoin gives and every newMessage that LiveChat appends), whatever
\* was typed, missed while disconnected, retried or read around a broadcast; it may miss one
\* only when it is full and more than ShownSize - HistorySize of what it shows had overtaken
\* that one or is raced.
THEOREM ThreadsAreWhole ==
  Spec => []ThreadIsWhole
<1>1. ChatInv => ThreadIsWhole
  BY WholeInvSays DEF ChatInv
<1> QED
  BY <1>1, ChatInductive, PTL
===============================================================================
