---------------------------------- MODULE Chat ----------------------------------
(***************************************************************************)
(* Article threads: ChatGateway and the LiveChat of every reader.          *)
(*                                                                         *)
(* A reader has one socket for all threads; opening a story joins its      *)
(* thread and leaving the page leaves it.  Packets arrive in order in both *)
(* directions.  A handler that awaits what is done already (client.join,   *)
(* client.leave) goes on in the same tick, and only packets of the same    *)
(* socket that came with the same read can start in between; one that      *)
(* awaits the database lets everything else run.                           *)
(***************************************************************************)
EXTENDS Naturals, SequencesExt

CONSTANTS
    Readers,        \* browsers that read threads
    Stories,        \* threads, by the slug of the article
    Messages,       \* texts that readers may type, each once
    None,
    HistorySize,    \* HISTORY_SIZE: messages of a thread that a join answers with
    ShownSize,      \* MAX_MESSAGES of LiveChat: messages a page keeps
    MaxSockets,     \* bound: connections of one reader, one after the other
    Budgets         \* bound: pages opened, texts typed and faults, in one behaviour

ASSUME ChatAssumption ==
    /\ None \notin Stories /\ IsFiniteSet(Readers)
    /\ HistorySize \in Nat \ {0} /\ ShownSize \in Nat /\ ShownSize >= HistorySize
    /\ MaxSockets \in Nat /\ Budgets \subseteq [visits : [Readers -> Nat], texts : Nat, faults : Nat]

Sockets == Readers \X (1..MaxSockets)

VARIABLES
    page,       \* LiveChat of each reader; story is None when none is mounted
    online,     \* readers whose socket is connected, as they see it
    opened,     \* connections of each reader so far; the last is the one in use
    buffer,     \* what socket.io-client keeps until it is connected
    typed,      \* history: by whom and in which thread each message was typed
    up, down,   \* packets on their way to the server and back, by socket
    live,       \* sockets the server has
    rooms,      \* rooms of each socket in the adapter
    room,       \* client.data.room
    work,       \* handlers of join and leave between two awaits, by socket
    posts,      \* handlers of message between two awaits
    thread,     \* the chat_messages table: each thread in order of creation
    crossed,    \* history: readers with a join or leave that met another mid-tick
    raced,      \* history: <<socket, message>> sent out around the read of a join
    failed,     \* history: sockets with a join that failed
    budget      \* what is left of the bound

pageVars == <<page, online, opened, buffer, typed>>
roomVars == <<live, rooms, room>>
tableVars == <<posts, thread>>
history == <<crossed, raced, failed>>
vars == <<pageVars, up, down, roomVars, work, tableVars, history, budget>>

Pages == [story : Stories \cup {None}, visit : Nat,
          shown : Seq(Messages), told : Nat \cup {None}]

\* What a page emits.  visit is the mount whose callback a join answers.
Join(r, v) == [op |-> "join", room |-> r, visit |-> v, msg |-> None]
Leave == [op |-> "leave", room |-> None, visit |-> 0, msg |-> None]
Message(m) == [op |-> "message", room |-> None, visit |-> 0, msg |-> m]

\* What the server emits; an answer to a join has a callback to go to.
Presence(n) == [op |-> "presence", fans |-> n]
Broadcast(m) == [op |-> "message", msg |-> m]
Ack(v, h, n) == [op |-> "ack", visit |-> v, history |-> h, fans |-> n]

\* leaving and joining: client.leave and client.join awaited.  reading: the query
\* is out.  read: its answer is on the way, with the first seen messages of the
\* thread.  left: client.leave of onLeave awaited.
Handlers == [room : Stories, previous : Stories \cup {None}, visit : Nat, seen : Nat,
             pc : {"leaving", "joining", "reading", "read", "left"}]

Posts == [room : Stories, msg : Messages, pc : {"creating", "created"}]

TypeOK ==
    /\ page \in [Readers -> Pages]
    /\ online \subseteq Readers /\ opened \in [Readers -> 0..MaxSockets]
    /\ typed \in [Messages -> (Readers \X Stories) \cup {<<>>}]
    /\ \A s \in Sockets : work[s] \subseteq Handlers
    /\ live \subseteq Sockets
    /\ rooms \in [Sockets -> SUBSET Stories] /\ room \in [Sockets -> Stories \cup {None}]
    /\ posts \subseteq Posts
    /\ \A s \in Sockets \ live : rooms[s] = {} /\ up[s] = <<>>

Init ==
    /\ page = [c \in Readers |-> [story |-> None, visit |-> 0, shown |-> <<>>, told |-> None]]
    /\ online = {} /\ opened = [c \in Readers |-> 0] /\ buffer = [c \in Readers |-> <<>>]
    /\ typed = [m \in Messages |-> <<>>]
    /\ up = [s \in Sockets |-> <<>>] /\ down = [s \in Sockets |-> <<>>]
    /\ live = {} /\ work = [s \in Sockets |-> {}]
    /\ rooms = [s \in Sockets |-> {}] /\ room = [s \in Sockets |-> None]
    /\ posts = {} /\ thread = [r \in Stories |-> <<>>]
    /\ crossed = {} /\ raced = {} /\ failed = {} /\ budget \in Budgets

-------------------------------------------------------------------------------
(* The page *)

Visit(c) == budget.visits[c] > 0 /\ budget' = [budget EXCEPT !.visits[c] = @ - 1]
Text == budget.texts > 0 /\ budget' = [budget EXCEPT !.texts = @ - 1]
Fault == budget.faults > 0 /\ budget' = [budget EXCEPT !.faults = @ - 1]

LastOf(s, n) == SubSeq(s, IF Len(s) > n THEN Len(s) - n + 1 ELSE 1, Len(s))

Socket(c) == <<c, opened[c]>>

\* socket.emit: sent, or kept while there is no connection.
Emit(c, packet) ==
    \/ /\ c \in online
       /\ up' = [up EXCEPT ![Socket(c)] = Append(@, packet)] /\ UNCHANGED buffer
    \/ /\ c \notin online
       /\ buffer' = [buffer EXCEPT ![c] = Append(@, packet)] /\ UNCHANGED up

\* The effect of LiveChat: a new page, that joins if it is connected.
Open(c, r) ==
    /\ page[c].story = None /\ Visit(c)
    /\ page' = [page EXCEPT ![c] =
            [story |-> r, visit |-> page[c].visit + 1, shown |-> <<>>, told |-> None]]
    /\ IF c \in online THEN Emit(c, Join(r, page[c].visit + 1)) ELSE UNCHANGED <<up, buffer>>
    /\ UNCHANGED <<online, opened, typed, down, roomVars, work, tableVars, history>>

\* Its cleanup.
Close(c) ==
    /\ page[c].story # None
    /\ page' = [page EXCEPT ![c].story = None, ![c].shown = <<>>, ![c].told = None]
    /\ Emit(c, Leave)
    /\ UNCHANGED <<online, opened, typed, down, roomVars, work, tableVars, history, budget>>

\* send(): nothing is shown before the broadcast comes.
Type(c, m) ==
    /\ page[c].story # None /\ typed[m] = <<>> /\ Text
    /\ typed' = [typed EXCEPT ![m] = <<c, page[c].story>>]
    /\ Emit(c, Message(m))
    /\ UNCHANGED <<page, online, opened, down, roomVars, work, tableVars, history>>

\* Mutant: join() runs once, when the page opens.
ConnectOnly(c) ==
    /\ c \notin online /\ page[c].visit > 0 /\ opened[c] < MaxSockets
    /\ online' = online \cup {c} /\ opened' = [opened EXCEPT ![c] = @ + 1]
    /\ live' = live \cup {<<c, opened[c] + 1>>}
    /\ up' = [up EXCEPT ![<<c, opened[c] + 1>>] = buffer[c] \o
            IF page[c].story # None /\ opened[c] = 0
            THEN <<Join(page[c].story, page[c].visit)>> ELSE <<>>]
    /\ buffer' = [buffer EXCEPT ![c] = <<>>]
    /\ UNCHANGED <<page, typed, down, rooms, room, work, tableVars, history, budget>>

\* A connection, the first or the next: what was kept is sent, then the page joins.
Connect(c) ==
    /\ c \notin online /\ page[c].visit > 0 /\ opened[c] < MaxSockets
    /\ online' = online \cup {c} /\ opened' = [opened EXCEPT ![c] = @ + 1]
    /\ live' = live \cup {<<c, opened[c] + 1>>}
    /\ up' = [up EXCEPT ![<<c, opened[c] + 1>>] = buffer[c] \o
            IF page[c].story # None THEN <<Join(page[c].story, page[c].visit)>> ELSE <<>>]
    /\ buffer' = [buffer EXCEPT ![c] = <<>>]
    /\ UNCHANGED <<page, typed, down, rooms, room, work, tableVars, history, budget>>

\* The connection is lost, as the reader sees it; the server may still read what
\* was sent.
Drop(c) ==
    /\ c \in online
    /\ Fault /\ UNCHANGED <<crossed, raced, failed>>
    /\ online' = online \ {c} /\ down' = [down EXCEPT ![Socket(c)] = <<>>]
    /\ UNCHANGED <<page, opened, buffer, typed, up, roomVars, work, tableVars>>

\* onMessage, onPresence and the callback of join; the callback of a page that is
\* gone sets nothing.
Deliver(c) ==
    LET packet == Head(down[Socket(c)])
        p == page[c]
    IN
    /\ c \in online /\ down[Socket(c)] # <<>>
    /\ down' = [down EXCEPT ![Socket(c)] = Tail(@)]
    /\ page' = [page EXCEPT ![c] =
            IF p.story = None THEN p ELSE
            CASE packet.op = "presence" -> [p EXCEPT !.told = packet.fans]
              [] packet.op = "message" ->
                    [p EXCEPT !.shown = LastOf(Append(@, packet.msg), ShownSize)]
              [] packet.op = "ack" ->
                    IF packet.visit = p.visit
                    THEN [p EXCEPT !.shown = packet.history, !.told = packet.fans] ELSE p]
    /\ UNCHANGED <<online, opened, buffer, typed, up, roomVars, work, tableVars, history, budget>>

-------------------------------------------------------------------------------
(* The gateway *)

\* Sockets with a reader at the other end.
Heard == {Socket(c) : c \in online}

RoomSize(r, in) == Cardinality({s \in Sockets : r \in in[s]})

\* server.to(room).emit, with the rooms as in says.
ToRoom(r, in, packet) ==
    [s \in Sockets |-> IF r \in in[s] /\ s \in Heard THEN Append(down[s], packet) ELSE down[s]]

BroadcastPresence(r, in) == ToRoom(r, in, Presence(RoomSize(r, in)))

\* The handler g of socket s goes on as h.
Continue(s, g, h) == work' = [work EXCEPT ![s] = (@ \ {g}) \cup h]

InTick(s) == \E h \in work[s] : h.pc \in {"leaving", "joining", "left"}

\* The next packet of a socket is of the given kind.
Receive(s, op) ==
    /\ s \in live /\ up[s] # <<>> /\ Head(up[s]).op = op
    /\ up' = [up EXCEPT ![s] = Tail(@)]
    /\ UNCHANGED <<pageVars, live, raced, failed, budget>>

Meets(s) == crossed' = IF InTick(s) THEN crossed \cup {s[1]} ELSE crossed

OnJoin(s) ==
    LET packet == Head(up[s])
        moves == room[s] \notin {None, packet.room}
    IN
    /\ Receive(s, "join") /\ Meets(s)
    /\ rooms' = [rooms EXCEPT ![s] = IF moves THEN @ \ {room[s]} ELSE @ \cup {packet.room}]
    /\ work' = [work EXCEPT ![s] = @ \cup {[room |-> packet.room, previous |-> room[s],
            visit |-> packet.visit, seen |-> 0, pc |-> IF moves THEN "leaving" ELSE "joining"]}]
    /\ UNCHANGED <<down, room, tableVars>>

JoinLeft(s, h) ==
    /\ h.pc = "leaving"
    /\ down' = BroadcastPresence(h.previous, rooms)
    /\ rooms' = [rooms EXCEPT ![s] = @ \cup {h.room}]
    /\ Continue(s, h, {[h EXCEPT !.pc = "joining"]})
    /\ UNCHANGED <<pageVars, up, live, room, tableVars, history, budget>>

JoinJoined(s, h) ==
    /\ h.pc = "joining"
    /\ room' = [room EXCEPT ![s] = h.room]
    /\ Continue(s, h, {[h EXCEPT !.pc = "reading"]})
    /\ UNCHANGED <<pageVars, up, down, live, rooms, tableVars, history, budget>>

\* The database reads the history.
JoinRead(s, h) ==
    /\ h.pc = "reading"
    /\ Continue(s, h, {[h EXCEPT !.pc = "read", !.seen = Len(thread[h.room])]})
    /\ UNCHANGED <<pageVars, up, down, roomVars, tableVars, history, budget>>

\* Messages that a join reads and the room gets too late, or that the room gets
\* while the answer without them is on its way.
RacedBy(h) ==
    LET pending == {p.msg : p \in posts}
        late == ToSet(SubSeq(thread[h.room], h.seen + 1, Len(thread[h.room])))
    IN  (ToSet(SubSeq(thread[h.room], 1, h.seen)) \cap pending) \cup (late \ pending)

JoinAnswered(s, h) ==
    LET told == BroadcastPresence(h.room, rooms)
        answer == Ack(h.visit, LastOf(SubSeq(thread[h.room], 1, h.seen), HistorySize),
                      RoomSize(h.room, rooms))
    IN
    /\ h.pc = "read"
    /\ down' = IF s \in Heard THEN [told EXCEPT ![s] = Append(@, answer)] ELSE told
    /\ raced' = raced \cup ({s} \X RacedBy(h))
    /\ Continue(s, h, {})
    /\ UNCHANGED <<pageVars, up, roomVars, tableVars, crossed, failed, budget>>

\* The query fails: no answer, no presence.
JoinFailed(s, h) ==
    /\ h.pc = "reading" /\ Fault
    /\ failed' = failed \cup {s}
    /\ Continue(s, h, {})
    /\ UNCHANGED <<pageVars, up, down, roomVars, tableVars, crossed, raced>>

\* Mutant: onLeave() forgets the room and stays in it.
OnLeaveStays(s) ==
    /\ Receive(s, "leave") /\ Meets(s)
    /\ work' = IF room[s] = None THEN work ELSE [work EXCEPT ![s] = @ \cup
            {[room |-> room[s], previous |-> None, visit |-> 0, seen |-> 0, pc |-> "left"]}]
    /\ UNCHANGED <<down, room, rooms, tableVars>>

OnLeave(s) ==
    /\ Receive(s, "leave") /\ Meets(s)
    /\ \/ /\ room[s] = None
          /\ UNCHANGED <<rooms, work>>
       \/ /\ room[s] # None
          /\ rooms' = [rooms EXCEPT ![s] = @ \ {room[s]}]
          /\ work' = [work EXCEPT ![s] = @ \cup {[room |-> room[s], previous |-> None,
                visit |-> 0, seen |-> 0, pc |-> "left"]}]
    /\ UNCHANGED <<down, room, tableVars>>

\* Mutant: onLeave() without data.room = undefined.
LeaveDoneStale(s, h) ==
    /\ h.pc = "left"
    /\ down' = BroadcastPresence(h.room, rooms)
    /\ Continue(s, h, {})
    /\ UNCHANGED <<pageVars, up, live, rooms, room, tableVars, history, budget>>

LeaveDone(s, h) ==
    /\ h.pc = "left"
    /\ room' = [room EXCEPT ![s] = None]
    /\ down' = BroadcastPresence(h.room, rooms)
    /\ Continue(s, h, {})
    /\ UNCHANGED <<pageVars, up, live, rooms, tableVars, history, budget>>

\* Mutant: onMessage() without the check of the room.
OnMessageAnywhere(s) ==
    LET m == Head(up[s]).msg IN
    /\ Receive(s, "message")
    /\ posts' = posts \cup {[room |-> room[s], msg |-> m, pc |-> "creating"]}
    /\ UNCHANGED <<down, rooms, room, work, thread, crossed>>

\* A message outside a thread is refused.  So may be any other: of a guest or of a
\* user not yet found, empty, too long, or within a second of the last.
OnMessage(s) ==
    LET m == Head(up[s]).msg IN
    /\ Receive(s, "message")
    /\ \/ UNCHANGED posts
       \/ /\ room[s] # None
          /\ posts' = posts \cup {[room |-> room[s], msg |-> m, pc |-> "creating"]}
    /\ UNCHANGED <<down, rooms, room, work, thread, crossed>>

Create(p) ==
    /\ p.pc = "creating"
    /\ thread' = [thread EXCEPT ![p.room] = Append(@, p.msg)]
    /\ posts' = (posts \ {p}) \cup {[p EXCEPT !.pc = "created"]}
    /\ UNCHANGED <<pageVars, up, down, roomVars, work, history, budget>>

\* The room gets the message once its creation is answered.
Publish(p) ==
    /\ p.pc = "created"
    /\ down' = ToRoom(p.room, rooms, Broadcast(p.msg))
    /\ posts' = posts \ {p}
    /\ UNCHANGED <<pageVars, up, roomVars, work, thread, history, budget>>

CreateFailed(p) ==
    /\ p.pc = "creating" /\ Fault
    /\ posts' = posts \ {p}
    /\ UNCHANGED <<pageVars, up, down, roomVars, work, thread, crossed, raced, failed>>

\* Mutant: handleDisconnect() tells nobody.
DisconnectQuietly(s) ==
    /\ s \in live \ Heard
    /\ live' = live \ {s}
    /\ rooms' = [rooms EXCEPT ![s] = {}] /\ up' = [up EXCEPT ![s] = <<>>]
    /\ UNCHANGED <<pageVars, down, room, work, tableVars, history, budget>>

\* The server notices that a connection is gone.  The socket is out of its rooms
\* when handleDisconnect runs; handlers that wait for the database go on.
Disconnect(s) ==
    /\ s \in live \ Heard
    /\ live' = live \ {s}
    /\ rooms' = [rooms EXCEPT ![s] = {}] /\ up' = [up EXCEPT ![s] = <<>>]
    /\ down' = IF room[s] = None THEN down ELSE BroadcastPresence(room[s], rooms')
    /\ UNCHANGED <<pageVars, room, work, tableVars, history, budget>>

\* A new process.
Restart ==
    /\ live # {} /\ Fault
    /\ live' = {} /\ online' = {}
    /\ rooms' = [s \in Sockets |-> {}] /\ work' = [s \in Sockets |-> {}] /\ posts' = {}
    /\ up' = [s \in Sockets |-> <<>>] /\ down' = [s \in Sockets |-> <<>>]
    /\ UNCHANGED <<page, opened, buffer, typed, room, thread, crossed, raced, failed>>

Resume(s) == \E h \in work[s] : JoinLeft(s, h) \/ JoinJoined(s, h) \/ LeaveDone(s, h)

Start(s) == OnJoin(s) \/ OnLeave(s) \/ OnMessage(s)

\* A tick ends before anything else is done.
Next ==
    \/ \E s \in Sockets : InTick(s) /\ (Resume(s) \/ Start(s))
    \/ /\ \A s \in Sockets : ~InTick(s)
       /\ \/ \E c \in Readers :
                \/ Close(c) \/ Connect(c) \/ Drop(c) \/ Deliver(c)
                \/ \E r \in Stories : Open(c, r)
                \/ \E m \in Messages : Type(c, m)
          \/ \E s \in Sockets :
                \/ Start(s) \/ Disconnect(s)
                \/ \E h \in work[s] : JoinRead(s, h) \/ JoinAnswered(s, h) \/ JoinFailed(s, h)
          \/ \E p \in posts : Create(p) \/ Publish(p) \/ CreateFailed(p)
          \/ Restart

Spec == Init /\ [][Next]_vars

-------------------------------------------------------------------------------
(* Properties *)

\* Nothing is on its way between a reader and its socket.
Settled(c) ==
    /\ c \in online
    /\ up[Socket(c)] = <<>> /\ down[Socket(c)] = <<>> /\ work[Socket(c)] = {}

\* One thread per socket, and it is the one on the page ("One article thread per
\* socket", chat.gateway.ts:85), unless packets of several page changes met in
\* one tick.
InItsThread ==
    \A c \in Readers : Settled(c) /\ c \notin crossed =>
        rooms[Socket(c)] = {page[c].story} \ {None}

\* "leaving the old room keeps presence honest" (chat.gateway.ts:85): once
\* everything has arrived and the sockets that were lost are noticed, every page
\* shows how many are reading its story, lost connections and restarts included.
PresenceIsHonest ==
    /\ crossed = {} /\ failed \cap live = {} /\ live = Heard
    /\ \A c \in online : Settled(c)
    /\ \A s \in Sockets : work[s] = {}
    => \A c \in online : page[c].story # None =>
            page[c].told = Cardinality({d \in online : page[d].story = page[c].story})

\* What was kept in thread r after message m.
Later(r, m) ==
    {thread[r][i] : i \in {j \in DOMAIN thread[r] : \E k \in 1..(j - 1) : thread[r][k] = m}}

\* Broadcasts need not come in the order of creation.  The page of c dropped m for
\* messages older than m, and more of them than a history leaves room for.
Overtaken(c, m) ==
    LET shown == page[c].shown IN
    /\ Len(shown) = ShownSize
    /\ Cardinality({i \in DOMAIN shown : \/ shown[i] \notin Later(page[c].story, m)
                                        \/ <<Socket(c), shown[i]>> \in raced})
            > ShownSize - HistorySize

\* A settled page shows the newest messages of its thread, each once, whatever was
\* posted, missed while disconnected or read from the history, and nothing of
\* another thread.
ThreadIsWhole ==
    \A c \in Readers :
        LET r == page[c].story
            pending == {p.msg : p \in posts}
            newest == ToSet(LastOf(thread[r], HistorySize))
        IN  Settled(c) /\ r # None /\ c \notin crossed /\ Socket(c) \notin failed =>
                /\ ToSet(page[c].shown) \subseteq ToSet(thread[r])
                /\ \A m \in newest \ pending : <<Socket(c), m>> \notin raced =>
                        \/ Cardinality({i \in DOMAIN page[c].shown : page[c].shown[i] = m}) = 1
                        \/ m \notin ToSet(page[c].shown) /\ Overtaken(c, m)

\* A message is kept in the thread it was typed in: the room of a socket when a
\* packet is read is that of the page that sent it.
PostedWhereTyped ==
    \A r \in Stories : \A m \in ToSet(thread[r]) :
        typed[m][1] \in crossed \/ typed[m][2] = r
===============================================================================
