------------------------------ MODULE Signaling ------------------------------
(***************************************************************************)
(* P2PClient objects (p2pclient.cpp) that find each other through an MQTT  *)
(* broker and open WebRTC connections: call, offers, answers, candidates,  *)
(* state changes, data channels, and the connections that replace others.  *)
(*                                                                         *)
(* A P2PClient lives on the UI thread and handles one event at a time:     *)
(* lambdas that rtc callbacks post to it (invokeMethod), in their order,   *)
(* and messages from the broker. The callbacks run on threads of           *)
(* libdatachannel, at any time between two of those events.                *)
(*                                                                         *)
(* A connection is one rtc::PeerConnection, named by its index in conn; 0  *)
(* is nullptr. The description it makes stands for it in messages: two     *)
(* connections can talk when each has the description of the other. The    *)
(* candidates of a connection are one message.                             *)
(*                                                                         *)
(* An operator Name_Change is Name with a change that a slip in the code   *)
(* could make; nothing uses it (the README names the property it breaks).  *)
(***************************************************************************)
EXTENDS Integers, Sequences

CONSTANTS
  Clients,    \* the running applications, each by its id
  MaxEvents,  \* bound: clicks on Connect, applications closed, messages
              \* lost and links broken, in all
  None        \* no target

ASSUME ClientsAssumption == None \notin Clients

ASSUME EventsAssumption == MaxEvents \in Nat

VARIABLES
  client,     \* the P2PClient of each application
  connected,  \* m_connected of the window; the Connect button is its negation
  status,     \* what has become of the application
  conn,       \* every rtc::PeerConnection made so far, in order
  posted,     \* lambdas waiting in the event queue of each P2PClient
  inbox,      \* messages the broker has for each client
  orderly,    \* history: nobody called, closed or cut anything amid a set-up
  events      \* counter for the bound

vars == <<client, connected, status, conn, posted, inbox, orderly, events>>

-----------------------------------------------------------------------------

Made == 1..Len(conn)

Client ==
  [target : Clients \cup {None},   \* m_targetId
   pc : Made \cup {0},             \* m_peerConnection
   control : Made \cup {0},        \* the connection m_controlChannel is of
   binary : Made \cup {0},         \* the connection m_binaryChannel is of
   controlOpen : BOOLEAN, binaryOpen : BOOLEAN]

NewClient ==
  [target |-> None, pc |-> 0, control |-> 0, binary |-> 0,
   controlOpen |-> FALSE, binaryOpen |-> FALSE]

Labels == {"control", "binary"}

Live == {"new", "connected"}

Phases == Live \cup {"over"}

Connection ==
  [owner : Clients,
   role : {"caller", "callee"},
   awaiting : BOOLEAN,    \* signaling state have-local-offer, else stable
   remote : Made \cup {0},  \* the connection whose description it was given
   reachable : BOOLEAN,   \* it was given a candidate of that connection
   phase : Phases,
   described : BOOLEAN,   \* onLocalDescription and onLocalCandidate have run
   opened : BOOLEAN]      \* its channels have opened

NewConnection(p, role, remote) ==
  [owner |-> p, role |-> role, awaiting |-> role = "caller",
   remote |-> remote, reachable |-> FALSE, phase |-> "new",
   described |-> FALSE, opened |-> FALSE]

Message ==
  [type : {"offer", "answer", "candidate"}, from : Clients, conn : Made]

Event ==
  [type : {"publish"}, message : Message]
    \cup [type : {"ended"}, conn : Made]
    \cup [type : {"channel", "open"}, conn : Made, label : Labels]

Running(p) == status[p] \in {"starting", "online"}

\* The lambda at the head of p's event queue, and its removal.
Handles(p, type) ==
  Running(p) /\ posted[p] # <<>> /\ Head(posted[p]).type = type

Receives(p, type) ==
  status[p] = "online" /\ inbox[p] # <<>> /\ Head(inbox[p]).type = type

Taken(queue, p) == [queue EXCEPT ![p] = Tail(@)]

Put(queue, p, e) == [queue EXCEPT ![p] = Append(@, e)]

CloseConnection_KeepsPeer(conns, c) == conns

\* closeConnection: what it does to the connection c of the client, ...
CloseConnection(conns, c) ==
  IF c = 0 THEN conns ELSE [conns EXCEPT ![c].phase = "over"]

\* (the state it goes through is announced to the client, in vain: line 99) ...
Announced(queue, p, c) ==
  IF c = 0 THEN queue ELSE Put(queue, p, [type |-> "ended", conn |-> c])

\* ... and the members it leaves behind. m_targetId is not one it resets.
Disconnected(m) == [NewClient EXCEPT !.target = m.target]

Assigned_IgnoresLabel(m, c, label) == [m EXCEPT !.control = c]

Assigned(m, c, label) ==
  IF label = "control" THEN [m EXCEPT !.control = c] ELSE [m EXCEPT !.binary = c]

\* checkConnectionReady: both channels have been opened.
ConnectionReady(m) == m.controlOpen /\ m.binaryOpen

Left(conns, p) ==
  [c \in DOMAIN conns |->
     IF conns[c].owner = p THEN [conns[c] EXCEPT !.phase = "over"]
     ELSE conns[c]]

-----------------------------------------------------------------------------
(* When nothing is in flight. *)

Linked(c, d) == conn[c].remote = d /\ conn[d].remote = c

\* The other end has gone, or was given another description.
Severed(c) ==
  /\ conn[c].remote # 0
  /\ LET far == conn[conn[c].remote]
     IN  far.phase \notin Live \/ far.remote \notin {0, c}

CanConnect(c, d) ==
  /\ Linked(c, d)
  /\ conn[c].phase = "new" /\ conn[d].phase = "new"
  /\ conn[c].reachable \/ conn[d].reachable

\* A thread of libdatachannel has something to do for c.
Busy(c) ==
  \/ /\ conn[c].phase \in Live
     /\ ~conn[c].described \/ Severed(c)
  \/ conn[c].phase = "connected" /\ ~conn[c].opened
  \/ \E d \in DOMAIN conn : CanConnect(c, d)

Quiet ==
  /\ \A p \in Clients : Running(p) =>
       status[p] = "online" /\ posted[p] = <<>> /\ inbox[p] = <<>>
  /\ \A c \in DOMAIN conn : ~Busy(c)

-----------------------------------------------------------------------------
(* The user and the broker. *)

OnMQTTConnected(p) ==
  /\ status[p] = "starting"
  /\ status' = [status EXCEPT ![p] = "online"]
  /\ UNCHANGED <<client, connected, conn, posted, inbox, orderly, events>>

\* The id of p itself is refused, an empty one stops in the window.
Call(p, q) ==
  /\ Running(p) /\ ~connected[p] /\ q # p
  /\ events < MaxEvents
  /\ events' = events + 1
  /\ orderly' = (orderly /\ Quiet)
  /\ LET c == Len(conn) + 1 IN
     /\ conn' = Append(CloseConnection(conn, client[p].pc),
                       NewConnection(p, "caller", 0))
     /\ client' = [client EXCEPT ![p] =
          [NewClient EXCEPT !.target = q, !.pc = c,
                            !.control = c, !.binary = c]]
  /\ posted' = Announced(posted, p, client[p].pc)
  /\ UNCHANGED <<connected, status, inbox>>

\* The application is closed: the window goes, and the P2PClient with it.
Quit(p) ==
  /\ Running(p)
  /\ events < MaxEvents
  /\ events' = events + 1
  /\ orderly' = (orderly /\ Quiet)
  /\ status' = [status EXCEPT ![p] = "quit"]
  /\ conn' = Left(conn, p)
  /\ UNCHANGED <<client, connected, posted, inbox>>

\* The lambda of sendSignalingMessage: it reads m_targetId when it runs.
PublishMessage(p) ==
  /\ Handles(p, "publish")
  /\ posted' = Taken(posted, p)
  /\ LET q == client[p].target
     IN  inbox' = IF q # None /\ status[p] = "online" /\ status[q] = "online"
                  THEN Put(inbox, q, Head(posted[p]).message) ELSE inbox
  /\ UNCHANGED <<client, connected, status, conn, orderly, events>>

\* Messages are published with quality of service 0.
LoseMessage(p) ==
  /\ inbox[p] # <<>>
  /\ events < MaxEvents
  /\ events' = events + 1
  /\ orderly' = FALSE
  /\ inbox' = Taken(inbox, p)
  /\ UNCHANGED <<client, connected, status, conn, posted>>

-----------------------------------------------------------------------------
(* handleSignalingMessage *)

ReceiveOffer_NoSetup(p) ==
  /\ Receives(p, "offer")
  /\ inbox' = Taken(inbox, p)
  /\ conn' = CloseConnection(conn, client[p].pc)
  /\ client' = [client EXCEPT ![p] =
       [Disconnected(@) EXCEPT !.target = Head(inbox[p]).from,
                               !.pc = Len(conn) + 1]]
  /\ posted' = Announced(posted, p, client[p].pc)
  /\ UNCHANGED <<connected, status, orderly, events>>

ReceiveOffer_KeepsConnection(p) ==
  /\ Receives(p, "offer")
  /\ inbox' = Taken(inbox, p)
  /\ LET c == client[p].pc
         m == Head(inbox[p])
     IN  /\ conn' = IF c = 0 THEN Append(conn, NewConnection(p, "callee", m.conn))
                    ELSE [conn EXCEPT ![c].remote = m.conn]
         /\ client' = [client EXCEPT ![p].target = m.from,
                                     ![p].pc = IF c = 0 THEN Len(conn) + 1 ELSE c]
  /\ UNCHANGED <<connected, status, posted, orderly, events>>

ReceiveOffer(p) ==
  /\ Receives(p, "offer")
  /\ inbox' = Taken(inbox, p)
  /\ conn' = Append(CloseConnection(conn, client[p].pc),
                    NewConnection(p, "callee", Head(inbox[p]).conn))
  /\ client' = [client EXCEPT ![p] =
       [Disconnected(@) EXCEPT !.target = Head(inbox[p]).from,
                               !.pc = Len(conn) + 1]]
  /\ posted' = Announced(posted, p, client[p].pc)
  /\ UNCHANGED <<connected, status, orderly, events>>

\* Whoever sent it, and for whatever connection it was made. A connection that
\* awaits no answer throws, and nothing catches it on the way out.
ReceiveAnswer(p) ==
  /\ Receives(p, "answer")
  /\ inbox' = Taken(inbox, p)
  /\ LET c == client[p].pc IN
     \/ /\ c # 0 => conn[c].awaiting
        /\ conn' = IF c = 0 THEN conn
                   ELSE [conn EXCEPT ![c].awaiting = FALSE,
                                     ![c].remote = Head(inbox[p]).conn]
        /\ UNCHANGED status
     \/ /\ c # 0 /\ ~conn[c].awaiting
        /\ status' = [status EXCEPT ![p] = "crashed"]
        /\ conn' = Left(conn, p)
  /\ UNCHANGED <<client, connected, posted, orderly, events>>

\* Ignored without a connection, and without a remote description (it throws,
\* and is caught).
ReceiveCandidate(p) ==
  /\ Receives(p, "candidate")
  /\ inbox' = Taken(inbox, p)
  /\ LET c == client[p].pc
         m == Head(inbox[p])
     IN conn' = IF c # 0 /\ conn[c].remote = m.conn
                THEN [conn EXCEPT ![c].reachable = TRUE] ELSE conn
  /\ UNCHANGED <<client, connected, status, posted, orderly, events>>

-----------------------------------------------------------------------------
(* The other lambdas of setupWebRTC and wireDataChannel. *)

OnStateChange_AnyConnection(p) ==
  /\ Handles(p, "ended")
  /\ posted' = Taken(posted, p)
  /\ LET reported == client[p].target # None
     IN  /\ client' = [client EXCEPT ![p].target = IF reported THEN None ELSE @]
         /\ connected' = [connected EXCEPT ![p] = @ /\ ~reported]
  /\ UNCHANGED <<status, conn, inbox, orderly, events>>

\* The states that end a connection; the others only change a text. With
\* connectionClosed the window goes offline and enables the Connect button.
OnStateChange(p) ==
  /\ Handles(p, "ended")
  /\ posted' = Taken(posted, p)
  /\ LET reported == /\ client[p].pc = Head(posted[p]).conn
                     /\ client[p].target # None
     IN  /\ client' = [client EXCEPT ![p].target = IF reported THEN None ELSE @]
         /\ connected' = [connected EXCEPT ![p] = @ /\ ~reported]
  /\ UNCHANGED <<status, conn, inbox, orderly, events>>

\* assignChannel, whatever connection the channel is of. Setting onOpen on a
\* channel that is open already runs it; on one that has closed, it may.
AssignChannel(p) ==
  /\ Handles(p, "channel")
  /\ LET e    == Head(posted[p])
         open == [type |-> "open", conn |-> e.conn, label |-> e.label]
     IN  /\ client' = [client EXCEPT ![p] = Assigned(@, e.conn, e.label)]
         /\ \/ posted' = Put(Taken(posted, p), p, open)
            \/ /\ conn[e.conn].phase \notin Live
               /\ posted' = Taken(posted, p)
  /\ UNCHANGED <<connected, status, conn, inbox, orderly, events>>

\* The onOpen lambda with checkConnectionReady.
OnOpen(p) ==
  /\ Handles(p, "open")
  /\ posted' = Taken(posted, p)
  /\ LET label == Head(posted[p]).label
         m == [client[p] EXCEPT !.controlOpen = @ \/ label = "control",
                                !.binaryOpen = @ \/ label = "binary"]
     IN  /\ client' = [client EXCEPT ![p] = m]
         /\ connected' = [connected EXCEPT ![p] =
              @ \/ ConnectionReady(m)]
  /\ UNCHANGED <<status, conn, inbox, orderly, events>>

-----------------------------------------------------------------------------
(* The threads of libdatachannel, as the code uses them. *)

Publication(c, type) ==
  [type |-> "publish",
   message |-> [type |-> type, from |-> conn[c].owner, conn |-> c]]

\* onLocalDescription and onLocalCandidate, which comes next, on a thread of the
\* library: sendSignalingMessage posts nothing when there is no target.
LocalDescription(c) ==
  /\ conn[c].phase \in Live /\ ~conn[c].described
  /\ conn' = [conn EXCEPT ![c].described = TRUE]
  /\ LET p    == conn[c].owner
         type == IF conn[c].role = "caller" THEN "offer" ELSE "answer"
     IN  posted' = IF client[p].target = None THEN posted
                   ELSE Put(Put(posted, p, Publication(c, type)), p,
                            Publication(c, "candidate"))
  /\ UNCHANGED <<client, connected, status, inbox, orderly, events>>

Connect(c, d) ==
  /\ CanConnect(c, d)
  /\ conn' = [conn EXCEPT ![c].phase = "connected", ![d].phase = "connected"]
  /\ UNCHANGED <<client, connected, status, posted, inbox, orderly, events>>

\* The channels of c open, in either order; the side that did not create them
\* is given them first.
ChannelsUp(c, first) ==
  /\ conn[c].phase = "connected" /\ ~conn[c].opened
  /\ conn' = [conn EXCEPT ![c].opened = TRUE]
  /\ LET type == IF conn[c].role = "caller" THEN "open" ELSE "channel"
         event(label) == [type |-> type, conn |-> c, label |-> label]
         second == CHOOSE label \in Labels : label # first
         p == conn[c].owner
     IN  posted' = Put(Put(posted, p, event(first)), p, event(second))
  /\ UNCHANGED <<client, connected, status, inbox, orderly, events>>

\* A state Disconnected or Failed is announced, and then Closed.
End(c) ==
  /\ conn' = [conn EXCEPT ![c].phase = "over"]
  /\ LET p == conn[c].owner
     IN  posted' = Announced(Announced(posted, p, c), p, c)

\* The other end has gone, or does not answer.
Ended(c) ==
  /\ conn[c].phase \in Live /\ Severed(c)
  /\ End(c)
  /\ UNCHANGED <<client, connected, status, inbox, orderly, events>>

\* The path breaks, or the search for one times out.
LinkLost(c) ==
  /\ conn[c].phase \in Live /\ conn[c].remote # 0
  /\ events < MaxEvents
  /\ events' = events + 1
  /\ orderly' = (orderly /\ Quiet)
  /\ End(c)
  /\ UNCHANGED <<client, connected, status, inbox>>

-----------------------------------------------------------------------------

Init ==
  /\ client = [p \in Clients |-> NewClient]
  /\ connected = [p \in Clients |-> FALSE]
  /\ status = [p \in Clients |-> "starting"]
  /\ conn = <<>>
  /\ posted = [p \in Clients |-> <<>>]
  /\ inbox = [p \in Clients |-> <<>>]
  /\ orderly = TRUE
  /\ events = 0

Handler(p) ==
  \/ OnMQTTConnected(p) \/ PublishMessage(p)
  \/ ReceiveOffer(p) \/ ReceiveAnswer(p) \/ ReceiveCandidate(p)
  \/ OnStateChange(p) \/ AssignChannel(p) \/ OnOpen(p)

Library(c) ==
  \/ LocalDescription(c) \/ Ended(c)
  \/ \E d \in DOMAIN conn : Connect(c, d)
  \/ \E first \in Labels : ChannelsUp(c, first)

User(p) == Quit(p) \/ \E q \in Clients : Call(p, q)

Next ==
  \/ \E p \in Clients : Handler(p) \/ User(p) \/ LoseMessage(p)
  \/ \E c \in DOMAIN conn : Library(c) \/ LinkLost(c)

Spec == Init /\ [][Next]_vars

\* Event loops, threads of the library and the broker go on; users and losses
\* are under no obligation.
Fairness ==
  /\ \A p \in Clients : WF_vars(Handler(p))
  /\ WF_vars(\E c \in DOMAIN conn : Library(c))

FairSpec == Spec /\ Fairness

\* Users who wait for one set-up to end before they start, close or cut
\* anything, over a broker that loses nothing.
OrderlySpec == Init /\ [][Next /\ orderly']_vars

OrderlyFairSpec == OrderlySpec /\ Fairness

-----------------------------------------------------------------------------
(* Properties. *)

TypeOK ==
  /\ client \in [Clients -> Client]
  /\ connected \in [Clients -> BOOLEAN]
  /\ status \in [Clients -> {"starting", "online", "quit", "crashed"}]
  /\ conn \in Seq(Connection)
  /\ posted \in [Clients -> Seq(Event)]
  /\ inbox \in [Clients -> Seq(Message)]
  /\ orderly \in BOOLEAN
  /\ events \in Nat

\* However calls and offers replace each other, a client has at most one
\* connection it has not closed, the one it holds (p2pclient.cpp:141, :247).
OneConnection ==
  \A c \in DOMAIN conn :
    conn[c].phase # "over" => client[conn[c].owner].pc = c

\* Two connections that can talk belong to clients that meant each other: what
\* a client takes for its peer is the target it called, or that called it,
\* although targets are read late and answers are never checked
\* (p2pclient.cpp:59, :142 and :155).
PeerIsTarget ==
  \A p \in Clients :
    LET c == client[p].pc
        d == conn[c].remote
    IN  c # 0 /\ client[p].target # None /\ d # 0 /\ conn[d].remote = c
          => conn[d].owner = client[p].target

Talking(p) ==
  LET m == client[p]
  IN  /\ m.pc # 0 /\ m.control = m.pc /\ m.binary = m.pc
      /\ conn[m.pc].phase = "connected"
      /\ connected[conn[conn[m.pc].remote].owner]

\* A window that says Connected has both channels of a connection that is up,
\* and so has the window at the other end, once nothing is in flight, through
\* calls to busy peers and ends of every kind; as long as users wait for a
\* set-up to end, and it is not cut short (p2pclient.cpp:99, :117, :128).
ConnectedIsLive ==
  orderly /\ Quiet =>
    \A p \in Clients : Running(p) /\ connected[p] => Talking(p)

Calling(p) ==
  LET m == client[p]
  IN  /\ m.pc # 0 /\ conn[m.pc].role = "caller" /\ conn[m.pc].phase = "new"
      /\ m.target # None /\ status[m.target] = "online"

Together(p) ==
  LET q == client[p].target
  IN  /\ q # None /\ client[q].target = p
      /\ connected[p] /\ connected[q]

\* A call to a client that is online connects the two, when no other call, loss
\* or closed application comes in between: no description or candidate is
\* ignored for arriving too early (p2pclient.cpp:157, :165).
CallConnects ==
  \A p \in Clients : Calling(p) ~> Together(p)

\* Connecting does not end the program, whoever clicks, and however often: "One peer enters the other's ID and
\* connects" (README.md:15).
NobodyCrashes == \A p \in Clients : status[p] # "crashed"

=============================================================================
