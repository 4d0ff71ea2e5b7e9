--------------------------- MODULE SignalingProofs ---------------------------
(***************************************************************************)
(* What holds of Signaling for any number of clients, calls and losses:    *)
(* proofs by induction over its steps, checked by TLAPS.                   *)
(***************************************************************************)
EXTENDS Signaling, TLAPS, SequenceTheorems

(* The inductive invariant. *)

\* Connection c is the one its owner holds, and the owner still has a target.
Current(c) ==
  client[conn[c].owner].pc = c /\ client[conn[c].owner].target # None

Target(c) == client[conn[c].owner].target

HoldsOwn ==
  \A p \in Clients : client[p].pc # 0 => conn[client[p].pc].owner = p

NotOneself == \A p \in Clients : client[p].target # p

\* Callees are given the description of a caller, callers that of a callee.
RolesMatch ==
  \A c \in Made :
    /\ conn[c].role = "callee" =>
         /\ ~conn[c].awaiting /\ conn[c].remote # 0
         /\ conn[conn[c].remote].role = "caller"
    /\ conn[c].role = "caller" /\ conn[c].remote # 0 =>
         conn[conn[c].remote].role = "callee"

\* Between a callee d and the caller whose offer made it, targets agree in both
\* directions for as long as they last.
TargetsMatch ==
  \A d \in Made : conn[d].role = "callee" =>
    LET c == conn[d].remote
    IN  /\ Current(d) => Target(d) = conn[c].owner
        /\ Current(c) => Target(c) = conn[d].owner

RoleFits(m) ==
  /\ m.type = "offer" => conn[m.conn].role = "caller"
  /\ m.type = "answer" => conn[m.conn].role = "callee"

\* What may wait for q: above all, an offer of a current connection of its
\* maker has come to the target of its maker.
GoodMessages ==
  [q \in Clients |->
     {m \in Message :
        /\ m.from = conn[m.conn].owner /\ m.from # q
        /\ RoleFits(m)
        /\ m.type = "offer" /\ Current(m.conn) => Target(m.conn) = q}]

\* What p may be about to publish.
GoodEvents ==
  [p \in Clients |->
     {e \in Event : e.type = "publish" =>
        /\ e.message.from = p /\ conn[e.message.conn].owner = p
        /\ RoleFits(e.message)}]

Fits(queue, good) ==
  /\ queue = [p \in Clients |-> queue[p]]
  /\ \A p \in Clients : queue[p] \in Seq(good[p])

Scalars ==
  /\ connected \in [Clients -> BOOLEAN]
  /\ status \in [Clients -> {"starting", "online", "quit", "crashed"}]
  /\ orderly \in BOOLEAN
  /\ events \in Nat

Shape ==
  /\ client \in [Clients -> Client]
  /\ conn \in Seq(Connection)
  /\ HoldsOwn /\ OneConnection /\ NotOneself /\ RolesMatch /\ TargetsMatch

IInv ==
  /\ Scalars /\ Shape
  /\ Fits(posted, GoodEvents) /\ Fits(inbox, GoodMessages)

-----------------------------------------------------------------------------
(* Queues. *)

LEMMA QueueSteps ==
  ASSUME NEW queue, NEW good, Fits(queue, good), NEW p \in Clients
  PROVE  /\ \A e \in good[p] : Fits(Put(queue, p, e), good)
         /\ queue[p] # <<>> =>
              Head(queue[p]) \in good[p] /\ Fits(Taken(queue, p), good)
<1>1. queue[p] \in Seq(good[p])
  BY DEF Fits
<1>2. ASSUME NEW e \in good[p]
      PROVE  Fits(Put(queue, p, e), good)
  <2>1. Append(queue[p], e) \in Seq(good[p])
    BY <1>1, AppendProperties
  <2>2. QED
    BY <2>1 DEF Fits, Put
<1>3. ASSUME queue[p] # <<>>
      PROVE  Head(queue[p]) \in good[p] /\ Fits(Taken(queue, p), good)
  <2>1. Head(queue[p]) \in good[p] /\ Tail(queue[p]) \in Seq(good[p])
    BY <1>1, <1>3, HeadTailProperties
  <2>2. QED
    BY <2>1 DEF Fits, Taken
<1>4. QED
  BY <1>2, <1>3

LEMMA FitsMonotonic ==
  ASSUME NEW queue, NEW good, NEW better, Fits(queue, good),
         \A p \in Clients : good[p] \subseteq better[p]
  PROVE  Fits(queue, better)
<1>1. ASSUME NEW p \in Clients
      PROVE  queue[p] \in Seq(better[p])
  BY SeqMonotonic DEF Fits
<1>2. QED
  BY <1>1 DEF Fits

\* Connections are never forgotten, and keep their owner and their role.
Grows ==
  /\ Len(conn) \in Nat /\ Len(conn') \in Nat /\ Len(conn) <= Len(conn')
  /\ \A c \in Made : conn'[c].owner = conn[c].owner /\ conn'[c].role = conn[c].role

\* No connection made before has become current, or current with a new target.
Settles == \A c \in Made : Current(c)' => Current(c) /\ Target(c)' = Target(c)

LEMMA TypesGrow ==
  ASSUME Grows
  PROVE  /\ Made \subseteq Made' /\ Client \subseteq Client'
         /\ Connection \subseteq Connection'
         /\ Message \subseteq Message' /\ Event \subseteq Event'
<1>1. Made \subseteq Made'
  BY DEF Grows, Made
<1>2. Client \subseteq Client'
  BY <1>1 DEF Client
<1>3. Connection \subseteq Connection'
  BY <1>1 DEF Connection
<1>4. Message \subseteq Message'
  BY <1>1 DEF Message
<1>5. Event \subseteq Event'
  BY <1>1, <1>4 DEF Event
<1>6. QED
  BY <1>1, <1>2, <1>3, <1>4, <1>5

\* What was good in a queue stays good.
LEMMA QueuesKeep ==
  ASSUME Grows, Settles
  PROVE  /\ \A p \in Clients : GoodEvents[p] \subseteq GoodEvents'[p]
         /\ \A q \in Clients : GoodMessages[q] \subseteq GoodMessages'[q]
<1>1. /\ Made \subseteq Made' /\ Message \subseteq Message'
      /\ Event \subseteq Event'
  BY TypesGrow
<1>2. \A m \in Message : m.conn \in Made /\ (RoleFits(m) => RoleFits(m)')
  BY DEF Message, RoleFits, Grows
<1>3. \A e \in Event : e.type = "publish" => e.message \in Message
  BY DEF Event
<1>4. ASSUME NEW p \in Clients, NEW e \in GoodEvents[p]
      PROVE  e \in GoodEvents'[p]
  BY <1>1, <1>2, <1>3, <1>4 DEF GoodEvents, Grows
<1>5. ASSUME NEW q \in Clients, NEW m \in GoodMessages[q]
      PROVE  m \in GoodMessages'[q]
  BY <1>1, <1>2, <1>5 DEF GoodMessages, Grows, Settles
<1>6. QED
  BY <1>4, <1>5

-----------------------------------------------------------------------------
(* Steps that make no connection and give none to a client. *)

\* Such a step may only end connections and clear targets.
Wanes ==
  /\ client' \in [Clients -> Client] /\ conn' \in Seq(Connection)
  /\ Len(conn') = Len(conn)
  /\ \A c \in Made :
       /\ conn'[c].owner = conn[c].owner /\ conn'[c].role = conn[c].role
       /\ conn'[c].phase # "over" => conn[c].phase # "over"
  /\ \A p \in Clients :
       client'[p].pc = client[p].pc /\ client'[p].target \in {client[p].target, None}

LEMMA ConnectionTypes ==
  ASSUME conn \in Seq(Connection)
  PROVE  /\ Len(conn) \in Nat /\ DOMAIN conn = Made
         /\ \A c \in Made : /\ conn[c] \in Connection
                            /\ conn[c].owner \in Clients
                            /\ conn[c].remote \in Made \cup {0}
<1>1. Len(conn) \in Nat /\ DOMAIN conn = Made
  BY LenProperties DEF Made
<1>2. \A c \in Made : conn[c] \in Connection
  BY ElementOfSeq DEF Made
<1>3. QED
  BY <1>1, <1>2 DEF Connection

LEMMA WanesSettles ==
  ASSUME IInv, Wanes
  PROVE  Grows /\ Settles /\ Made' = Made
<1>1. Len(conn) \in Nat /\ \A c \in Made : conn[c].owner \in Clients
  BY ConnectionTypes DEF IInv, Shape
<1>2. Grows /\ Made' = Made
  BY <1>1 DEF Wanes, Grows, Made
<1>3. Settles
  BY <1>1 DEF Wanes, Settles, Current, Target
<1>4. QED
  BY <1>2, <1>3

\* Shape is kept, when no callee is given another description, and callers are
\* given those of callees.
LEMMA WanesKeeps ==
  ASSUME IInv, Wanes, RolesMatch',
         \A d \in Made : conn[d].role = "callee" => conn'[d].remote = conn[d].remote
  PROVE  Shape'
<1>1. Grows /\ Settles /\ Made' = Made
  BY WanesSettles
<1>2. /\ DOMAIN conn = Made
      /\ \A c \in Made : conn[c].owner \in Clients /\ conn[c].remote \in Made \cup {0}
  BY ConnectionTypes DEF IInv, Shape
<1>3. client' \in [Clients -> Client'] /\ conn' \in Seq(Connection')
  <2>1. Client \subseteq Client' /\ Connection \subseteq Connection'
    BY <1>1, TypesGrow
  <2>2. conn' \in Seq(Connection')
    BY <2>1, SeqMonotonic DEF Wanes
  <2>3. QED
    BY <2>1, <2>2 DEF Wanes
<1>4. DOMAIN conn' = Made
  BY <1>1, <1>3, LenProperties DEF Made
<1>5. HoldsOwn'
  <2>1. \A p \in Clients : client[p].pc \in Made \cup {0}
    BY DEF IInv, Shape, Client
  <2>2. QED
    BY <2>1 DEF IInv, Shape, HoldsOwn, Wanes
<1>6. OneConnection'
  BY <1>2, <1>4 DEF IInv, Shape, OneConnection, Wanes
<1>7. NotOneself'
  <2>1. \A p \in Clients : p # None
    BY ClientsAssumption
  <2>2. QED
    BY <2>1 DEF IInv, Shape, NotOneself, Wanes
<1>8. TargetsMatch'
  <2> SUFFICES ASSUME NEW d \in Made, conn[d].role = "callee"
               PROVE  LET c == conn[d].remote
                      IN  /\ Current(d)' => Target(d)' = conn[c].owner
                          /\ Current(c)' => Target(c)' = conn[d].owner
    BY <1>1, <1>2 DEF TargetsMatch, Wanes, IInv, Shape, RolesMatch
  <2>1. conn[d].remote \in Made
    BY <1>2 DEF IInv, Shape, RolesMatch
  <2>2. QED
    BY <1>1, <2>1 DEF IInv, Shape, TargetsMatch, Settles
<1>9. QED
  BY <1>3, <1>5, <1>6, <1>7, <1>8 DEF Shape

\* No description is given at all.
LEMMA WanesShape ==
  ASSUME IInv, Wanes,
         \A c \in Made :
           conn'[c].remote = conn[c].remote /\ conn'[c].awaiting = conn[c].awaiting
  PROVE  Shape'
<1>1. Made' = Made /\ \A c \in Made : conn[c].remote \in Made \cup {0}
  BY WanesSettles, ConnectionTypes DEF IInv, Shape
<1>2. RolesMatch'
  BY <1>1 DEF IInv, Shape, RolesMatch, Wanes
<1>3. QED
  BY <1>2, WanesKeeps

LEMMA WanesQueues ==
  ASSUME IInv, Wanes
  PROVE  Fits(posted, GoodEvents') /\ Fits(inbox, GoodMessages')
<1>1. /\ \A p \in Clients : GoodEvents[p] \subseteq GoodEvents'[p]
      /\ \A q \in Clients : GoodMessages[q] \subseteq GoodMessages'[q]
  BY WanesSettles, QueuesKeep
<1>2. QED
  BY <1>1, FitsMonotonic DEF IInv

\* Events other than those that publish are good for anybody.
LEMMA PlainEvents ==
  ASSUME NEW p \in Clients, NEW c \in Made'
  PROVE  /\ [type |-> "ended", conn |-> c] \in GoodEvents'[p]
         /\ \A type \in {"channel", "open"}, label \in Labels :
              [type |-> type, conn |-> c, label |-> label] \in GoodEvents'[p]
  BY DEF GoodEvents, Event

\* One connection changes, and still is a connection.
LEMMA ConnectionChanges ==
  ASSUME conn \in Seq(Connection), NEW c \in Made, NEW r \in Connection
  PROVE  LET changed == [conn EXCEPT ![c] = r]
         IN  /\ changed \in Seq(Connection) /\ Len(changed) = Len(conn)
             /\ \A d \in Made : changed[d] = IF d = c THEN r ELSE conn[d]
<1>1. c \in 1..Len(conn)
  BY DEF Made
<1>2. QED
  BY <1>1, ExceptSeq DEF Made

LEMMA LeftProperties ==
  ASSUME conn \in Seq(Connection), NEW p
  PROVE  /\ Left(conn, p) \in Seq(Connection) /\ Len(Left(conn, p)) = Len(conn)
         /\ \A c \in Made :
              Left(conn, p)[c] = IF conn[c].owner = p
                                 THEN [conn[c] EXCEPT !.phase = "over"] ELSE conn[c]
<1>1. /\ Len(conn) \in Nat /\ DOMAIN conn = Made
      /\ \A c \in Made : conn[c] \in Connection
  BY ConnectionTypes
<1>2. \A r \in Connection : [r EXCEPT !.phase = "over"] \in Connection
  BY DEF Connection, Phases
<1>3. Left(conn, p) \in [Made -> Connection]
  BY <1>1, <1>2 DEF Left
<1>4. QED
  BY <1>1, <1>3 DEF Left, Made

-----------------------------------------------------------------------------
(* One lemma for each action. *)

LEMMA InitIInv == Init => IInv
<1> SUFFICES ASSUME Init PROVE IInv
  OBVIOUS
<1>1. /\ <<>> \in Seq(Connection) /\ Len(<<>>) = 0
      /\ \A p \in Clients : /\ <<>> \in Seq(GoodEvents[p])
                           /\ <<>> \in Seq(GoodMessages[p])
  OBVIOUS
<1>2. Made = {} /\ DOMAIN conn = {}
  BY <1>1 DEF Init, Made
<1>3. Fits(posted, GoodEvents) /\ Fits(inbox, GoodMessages)
  BY <1>1 DEF Init, Fits
<1>4. NewClient \in Client
  BY DEF NewClient, Client
<1>5. HoldsOwn /\ NotOneself
  BY ClientsAssumption DEF Init, HoldsOwn, NotOneself, NewClient
<1>6. OneConnection /\ RolesMatch /\ TargetsMatch
  BY <1>2 DEF OneConnection, RolesMatch, TargetsMatch
<1>7. Scalars
  BY DEF Init, Scalars
<1>8. QED
  BY <1>1, <1>3, <1>4, <1>5, <1>6, <1>7 DEF Init, IInv, Shape

LEMMA UnchangedWanes ==
  ASSUME IInv, UNCHANGED <<client, conn>>
  PROVE  Wanes /\ Shape'
<1>1. Wanes
  BY DEF IInv, Shape, Wanes
<1>2. QED
  BY <1>1, WanesShape

\* One connection changes, but not in what it was given, nor back to life.
LEMMA OneChanges ==
  ASSUME IInv, client' = client, NEW c \in Made, NEW r \in Connection,
         conn' = [conn EXCEPT ![c] = r],
         r.owner = conn[c].owner, r.role = conn[c].role,
         r.remote = conn[c].remote, r.awaiting = conn[c].awaiting,
         r.phase # "over" => conn[c].phase # "over"
  PROVE  Wanes /\ Shape'
<1>1. /\ conn' \in Seq(Connection) /\ Len(conn') = Len(conn)
      /\ \A d \in Made : conn'[d] = IF d = c THEN r ELSE conn[d]
  BY ConnectionChanges DEF IInv, Shape
<1>2. Wanes
  BY <1>1 DEF Wanes, IInv, Shape
<1>3. QED
  BY <1>1, <1>2, WanesShape

\* What is left in a queue, and what joins it, after a step that wanes.
LEMMA WanesPosted ==
  ASSUME IInv, Wanes, NEW p \in Clients
  PROVE  /\ Fits(posted, GoodEvents')
         /\ posted[p] # <<>> =>
              Head(posted[p]) \in GoodEvents[p] /\ Fits(Taken(posted, p), GoodEvents')
         /\ \A queue : Fits(queue, GoodEvents') =>
              \A e \in GoodEvents'[p] : Fits(Put(queue, p, e), GoodEvents')
<1>1. Fits(posted, GoodEvents')
  BY WanesQueues
<1>2. posted[p] # <<>> => Head(posted[p]) \in GoodEvents[p]
  BY QueueSteps DEF IInv
<1>3. posted[p] # <<>> => Fits(Taken(posted, p), GoodEvents')
  BY <1>1, QueueSteps
<1>4. \A queue : Fits(queue, GoodEvents') =>
        \A e \in GoodEvents'[p] : Fits(Put(queue, p, e), GoodEvents')
  BY QueueSteps
<1>5. QED
  BY <1>1, <1>2, <1>3, <1>4

LEMMA WanesInbox ==
  ASSUME IInv, Wanes, NEW p \in Clients
  PROVE  /\ Fits(inbox, GoodMessages')
         /\ inbox[p] # <<>> =>
              Head(inbox[p]) \in GoodMessages[p] /\ Fits(Taken(inbox, p), GoodMessages')
<1>1. Fits(inbox, GoodMessages')
  BY WanesQueues
<1>2. inbox[p] # <<>> => Head(inbox[p]) \in GoodMessages[p]
  BY QueueSteps DEF IInv
<1>3. inbox[p] # <<>> => Fits(Taken(inbox, p), GoodMessages')
  BY <1>1, QueueSteps
<1>4. QED
  BY <1>1, <1>2, <1>3

LEMMA OnMQTTConnectedIInv ==
  ASSUME IInv, NEW p \in Clients, OnMQTTConnected(p)
  PROVE  IInv'
<1>1. Wanes /\ Shape'
  BY UnchangedWanes DEF OnMQTTConnected
<1>2. Fits(posted', GoodEvents') /\ Fits(inbox', GoodMessages')
  BY <1>1, WanesQueues DEF OnMQTTConnected
<1>3. Scalars'
  BY DEF OnMQTTConnected, IInv, Scalars
<1>4. QED
  BY <1>1, <1>2, <1>3 DEF IInv, Fits

LEMMA LoseMessageIInv ==
  ASSUME IInv, NEW p \in Clients, LoseMessage(p)
  PROVE  IInv'
<1>1. Wanes /\ Shape'
  BY UnchangedWanes DEF LoseMessage
<1>2. Fits(posted', GoodEvents')
  BY <1>1, WanesQueues DEF LoseMessage
<1>3. Fits(inbox', GoodMessages')
  BY <1>1, WanesInbox DEF LoseMessage
<1>4. Scalars'
  <2>1. events' \in Nat
    BY DEF LoseMessage, IInv, Scalars
  <2>2. QED
    BY <2>1 DEF LoseMessage, IInv, Scalars
<1>5. QED
  BY <1>1, <1>2, <1>3, <1>4 DEF IInv, Fits

\* The message goes to the target p has now: an offer of a current connection
\* was made for no other.
LEMMA PublishMessageIInv ==
  ASSUME IInv, NEW p \in Clients, PublishMessage(p)
  PROVE  IInv'
<1>1. Wanes /\ Shape'
  BY UnchangedWanes DEF PublishMessage
<1>2. /\ Fits(posted', GoodEvents')
      /\ Head(posted[p]) \in GoodEvents[p]
  BY <1>1, WanesPosted DEF PublishMessage, Handles
<1>3. Fits(inbox', GoodMessages')
  <2> DEFINE q == client[p].target
             m == Head(posted[p]).message
  <2>1. CASE inbox' = inbox
    BY <2>1, <1>1, WanesQueues
  <2>2. CASE q # None /\ inbox' = Put(inbox, q, m)
    <3>1. q \in Clients /\ q # p
      BY <2>2 DEF IInv, Shape, Client, NotOneself
    <3>2. /\ m \in Message /\ m.from = p /\ conn[m.conn].owner = p
          /\ RoleFits(m)
      BY <1>2 DEF GoodEvents, Event, PublishMessage, Handles
    <3>3. m \in GoodMessages[q]
      BY <3>1, <3>2 DEF GoodMessages, Target
    <3>4. m \in GoodMessages'[q]
      BY <3>1, <3>3, <1>1, WanesSettles, QueuesKeep
    <3>5. QED
      BY <2>2, <3>1, <3>4, <1>1, WanesQueues, QueueSteps
  <2>3. QED
    BY <2>1, <2>2 DEF PublishMessage
<1>4. Scalars'
  BY DEF PublishMessage, IInv, Scalars
<1>5. QED
  BY <1>1, <1>2, <1>3, <1>4 DEF IInv, Fits

LEMMA QuitIInv ==
  ASSUME IInv, NEW p \in Clients, Quit(p)
  PROVE  IInv'
<1>1. /\ conn' \in Seq(Connection) /\ Len(conn') = Len(conn)
      /\ \A c \in Made :
           /\ conn[c] \in Connection
           /\ conn'[c] = IF conn[c].owner = p
                         THEN [conn[c] EXCEPT !.phase = "over"] ELSE conn[c]
  BY LeftProperties, ConnectionTypes DEF IInv, Shape, Quit
<1>2. Wanes /\ \A c \in Made : /\ conn'[c].remote = conn[c].remote
                               /\ conn'[c].awaiting = conn[c].awaiting
  BY <1>1 DEF Wanes, Quit, IInv, Shape, Connection
<1>3. Shape'
  BY <1>2, WanesShape
<1>4. Fits(posted', GoodEvents') /\ Fits(inbox', GoodMessages')
  BY <1>2, WanesQueues DEF Quit
<1>5. Scalars'
  <2>1. events' \in Nat /\ status' \in [Clients -> {"starting", "online", "quit", "crashed"}]
    BY DEF Quit, IInv, Scalars
  <2>2. orderly' \in BOOLEAN
    BY DEF Quit
  <2>3. QED
    BY <2>1, <2>2 DEF Quit, IInv, Scalars
<1>6. QED
  BY <1>3, <1>4, <1>5 DEF IInv, Fits

LEMMA ReceiveCandidateIInv ==
  ASSUME IInv, NEW p \in Clients, ReceiveCandidate(p)
  PROVE  IInv'
<1> DEFINE c == client[p].pc
<1>1. Wanes /\ Shape'
  <2>1. CASE conn' = conn
    BY <2>1, UnchangedWanes DEF ReceiveCandidate
  <2>2. CASE c # 0 /\ conn' = [conn EXCEPT ![c].reachable = TRUE]
    <3> DEFINE r == [conn[c] EXCEPT !.reachable = TRUE]
    <3>1. conn[c] \in Connection /\ c \in Made
      BY <2>2, ConnectionTypes DEF IInv, Shape, Client
    <3>2. /\ r \in Connection /\ r.owner = conn[c].owner /\ r.role = conn[c].role
          /\ r.remote = conn[c].remote /\ r.awaiting = conn[c].awaiting
          /\ r.phase = conn[c].phase
      BY <3>1 DEF Connection
    <3>3. conn' = [conn EXCEPT ![c] = r] /\ client' = client
      BY <2>2 DEF ReceiveCandidate
    <3> HIDE DEF r, c
    <3>4. QED
      BY <3>1, <3>2, <3>3, OneChanges
  <2>3. QED
    BY <2>1, <2>2 DEF ReceiveCandidate
<1>2. Fits(posted', GoodEvents') /\ Fits(inbox', GoodMessages')
  BY <1>1, WanesQueues, WanesInbox DEF ReceiveCandidate, Receives
<1>3. Scalars'
  BY DEF ReceiveCandidate, IInv, Scalars
<1>4. QED
  BY <1>1, <1>2, <1>3 DEF IInv, Fits

\* A window goes offline; the connection that ended was over already.
LEMMA OnStateChangeIInv ==
  ASSUME IInv, NEW p \in Clients, OnStateChange(p)
  PROVE  IInv'
<1>1. Wanes /\ conn' = conn
  BY DEF OnStateChange, Wanes, IInv, Shape, Client
<1>2. Shape'
  BY <1>1, WanesShape
<1>3. Fits(posted', GoodEvents') /\ Fits(inbox', GoodMessages')
  BY <1>1, WanesPosted, WanesInbox DEF OnStateChange, Handles
<1>4. Scalars'
  BY DEF OnStateChange, IInv, Scalars
<1>5. QED
  BY <1>2, <1>3, <1>4 DEF IInv, Fits

LEMMA AssignChannelIInv ==
  ASSUME IInv, NEW p \in Clients, AssignChannel(p)
  PROVE  IInv'
<1> DEFINE e == Head(posted[p])
           open == [type |-> "open", conn |-> e.conn, label |-> e.label]
<1>1. e \in Event /\ e.type = "channel"
  BY QueueSteps DEF AssignChannel, Handles, IInv, GoodEvents
<1>2. e.conn \in Made /\ e.label \in Labels
  BY <1>1 DEF Event
<1>3. Wanes /\ conn' = conn
  BY <1>2 DEF AssignChannel, Assigned, Wanes, IInv, Shape, Client
<1>4. Shape' /\ Made' = Made
  BY <1>3, WanesShape, WanesSettles
<1>5. open \in GoodEvents'[p]
  BY <1>2, <1>4, PlainEvents
<1>6. Fits(posted', GoodEvents')
  BY <1>3, <1>5, WanesPosted DEF AssignChannel, Handles
<1>7. Fits(inbox', GoodMessages')
  BY <1>3, WanesQueues DEF AssignChannel
<1>8. Scalars'
  BY DEF AssignChannel, IInv, Scalars
<1>9. QED
  BY <1>4, <1>6, <1>7, <1>8 DEF IInv, Fits

LEMMA OnOpenIInv ==
  ASSUME IInv, NEW p \in Clients, OnOpen(p)
  PROVE  IInv'
<1>1. Wanes /\ conn' = conn
  <2> DEFINE label == Head(posted[p]).label
             m == [client[p] EXCEPT !.controlOpen = @ \/ label = "control",
                                    !.binaryOpen = @ \/ label = "binary"]
  <2>1. /\ client[p] \in Client /\ client[p].controlOpen \in BOOLEAN
        /\ client[p].binaryOpen \in BOOLEAN
    BY DEF IInv, Shape, Client
  <2>2. /\ (client[p].controlOpen \/ label = "control") \in BOOLEAN
        /\ (client[p].binaryOpen \/ label = "binary") \in BOOLEAN
    OBVIOUS
  <2>3. m \in Client /\ m.pc = client[p].pc /\ m.target = client[p].target
    BY <2>1, <2>2 DEF Client
  <2>4. client' = [client EXCEPT ![p] = m] /\ conn' = conn
    BY DEF OnOpen, ConnectionReady
  <2> HIDE DEF m
  <2>5. QED
    BY <2>3, <2>4 DEF Wanes, IInv, Shape
<1>2. Shape'
  BY <1>1, WanesShape
<1>3. Fits(posted', GoodEvents') /\ Fits(inbox', GoodMessages')
  BY <1>1, WanesPosted, WanesQueues DEF OnOpen, ConnectionReady, Handles
<1>4. Scalars'
  BY DEF OnOpen, ConnectionReady, IInv, Scalars
<1>5. QED
  BY <1>2, <1>3, <1>4 DEF IInv, Fits

LEMMA LocalDescriptionIInv ==
  ASSUME IInv, NEW c \in Made, LocalDescription(c)
  PROVE  IInv'
<1> DEFINE p == conn[c].owner
           r == [conn[c] EXCEPT !.described = TRUE]
           type == IF conn[c].role = "caller" THEN "offer" ELSE "answer"
<1>1. conn[c] \in Connection /\ p \in Clients
  BY ConnectionTypes DEF IInv, Shape
<1>2. /\ r \in Connection /\ r.owner = conn[c].owner /\ r.role = conn[c].role
      /\ r.remote = conn[c].remote /\ r.awaiting = conn[c].awaiting
      /\ r.phase = conn[c].phase
  BY <1>1 DEF Connection
<1>3. conn' = [conn EXCEPT ![c] = r] /\ client' = client
  BY DEF LocalDescription
<1>4. Wanes /\ Shape'
  <2> HIDE DEF r
  <2>1. QED
    BY <1>2, <1>3, OneChanges
<1>5. Publication(c, type) \in GoodEvents[p] /\ Publication(c, "candidate") \in GoodEvents[p]
  <2>1. conn[c].role \in {"caller", "callee"}
    BY <1>1 DEF Connection
  <2>2. QED
    BY <1>1, <2>1 DEF Publication, GoodEvents, Event, Message, RoleFits
<1>6. Publication(c, type) \in GoodEvents'[p] /\ Publication(c, "candidate") \in GoodEvents'[p]
  BY <1>1, <1>4, <1>5, WanesSettles, QueuesKeep
<1>7. Fits(posted', GoodEvents')
  <2>1. \/ posted' = posted
        \/ posted' = Put(Put(posted, p, Publication(c, type)), p,
                         Publication(c, "candidate"))
    BY DEF LocalDescription
  <2> HIDE DEF type, p
  <2>2. QED
    BY <1>1, <1>4, <1>6, <2>1, WanesPosted
<1>8. Fits(inbox', GoodMessages')
  BY <1>4, WanesQueues DEF LocalDescription
<1>9. Scalars'
  BY DEF LocalDescription, IInv, Scalars
<1>10. QED
  BY <1>4, <1>7, <1>8, <1>9 DEF IInv, Fits

\* Both connections are up, each as it was but for that.
LEMMA ConnectChanges ==
  ASSUME conn \in Seq(Connection), NEW c \in Made, NEW d \in Made, Connect(c, d)
  PROVE  /\ conn' \in Seq(Connection) /\ Len(conn') = Len(conn)
         /\ conn[c].phase = "new" /\ conn[d].phase = "new"
         /\ \A e \in Made :
              conn'[e] = IF e \in {c, d} THEN [conn[e] EXCEPT !.phase = "connected"]
                         ELSE conn[e]
<1> DEFINE up(e) == [conn[e] EXCEPT !.phase = "connected"]
           one == [conn EXCEPT ![c] = up(c)]
<1>1. conn[c] \in Connection /\ conn[d] \in Connection /\ Len(conn) \in Nat
  BY ConnectionTypes
<1>2. \A e \in {c, d} : up(e) \in Connection /\ conn[e].phase = "new"
  BY <1>1 DEF Connect, CanConnect, Connection, Phases, Live
<1>3. /\ one \in Seq(Connection) /\ Len(one) = Len(conn)
      /\ \A e \in Made : one[e] = IF e = c THEN up(c) ELSE conn[e]
  <2> HIDE DEF up
  <2>1. QED
    BY <1>1, <1>2, ConnectionChanges
<1>4. one[d] \in Connection /\ [one[d] EXCEPT !.phase = "connected"] = up(d)
  BY <1>1, <1>2, <1>3 DEF Connection
<1>5. conn' = [one EXCEPT ![d] = up(d)]
  BY <1>4 DEF Connect
<1> HIDE DEF one
<1>6. /\ conn' \in Seq(Connection) /\ Len(conn') = Len(conn)
      /\ \A e \in Made : conn'[e] = IF e \in {c, d} THEN up(e) ELSE conn[e]
  <2> HIDE DEF up
  <2>1. QED
    BY <1>1, <1>2, <1>3, <1>5, ExceptSeq DEF Made
<1>7. QED
  BY <1>2, <1>6

LEMMA ConnectIInv ==
  ASSUME IInv, NEW c \in Made, NEW d \in Made, Connect(c, d)
  PROVE  IInv'
<1>1. conn \in Seq(Connection) /\ \A e \in Made : conn[e] \in Connection
  BY ConnectionTypes DEF IInv, Shape
<1>2. /\ conn' \in Seq(Connection) /\ Len(conn') = Len(conn)
      /\ \A e \in Made :
           /\ conn'[e].owner = conn[e].owner /\ conn'[e].role = conn[e].role
           /\ conn'[e].remote = conn[e].remote /\ conn'[e].awaiting = conn[e].awaiting
           /\ conn'[e].phase # "over" => conn[e].phase # "over"
  <2>1. /\ conn' \in Seq(Connection) /\ Len(conn') = Len(conn)
        /\ conn[c].phase = "new" /\ conn[d].phase = "new"
        /\ \A e \in Made :
             conn'[e] = IF e \in {c, d} THEN [conn[e] EXCEPT !.phase = "connected"]
                        ELSE conn[e]
    BY <1>1, ConnectChanges
  <2>2. QED
    BY <1>1, <2>1 DEF Connection
<1>5. Wanes /\ \A e \in Made : /\ conn'[e].remote = conn[e].remote
                               /\ conn'[e].awaiting = conn[e].awaiting
  <2>1. client' = client
    BY DEF Connect
  <2>2. QED
    BY <1>2, <2>1 DEF Wanes, IInv, Shape
<1>6. Shape'
  BY <1>5, WanesShape
<1>7. Fits(posted', GoodEvents') /\ Fits(inbox', GoodMessages')
  BY <1>5, WanesQueues DEF Connect
<1>8. Scalars'
  BY DEF Connect, IInv, Scalars
<1>9. QED
  BY <1>6, <1>7, <1>8 DEF IInv, Fits

LEMMA ChannelsUpIInv ==
  ASSUME IInv, NEW c \in Made, NEW first \in Labels, ChannelsUp(c, first)
  PROVE  IInv'
<1> DEFINE p == conn[c].owner
           r == [conn[c] EXCEPT !.opened = TRUE]
           type == IF conn[c].role = "caller" THEN "open" ELSE "channel"
           second == CHOOSE label \in Labels : label # first
           event(label) == [type |-> type, conn |-> c, label |-> label]
<1>1. conn[c] \in Connection /\ p \in Clients
  BY ConnectionTypes DEF IInv, Shape
<1>2. /\ r \in Connection /\ r.owner = conn[c].owner /\ r.role = conn[c].role
      /\ r.remote = conn[c].remote /\ r.awaiting = conn[c].awaiting
      /\ r.phase = conn[c].phase
  BY <1>1 DEF Connection
<1>3. conn' = [conn EXCEPT ![c] = r] /\ client' = client
  BY DEF ChannelsUp
<1>4. Wanes /\ Shape' /\ Made' = Made
  <2> HIDE DEF r
  <2>1. Wanes /\ Shape'
    BY <1>2, <1>3, OneChanges
  <2>2. QED
    BY <2>1, WanesSettles
<1>5. event(first) \in GoodEvents'[p] /\ event(second) \in GoodEvents'[p]
  <2>1. second \in Labels
    BY DEF Labels
  <2> HIDE DEF second
  <2>2. QED
    BY <1>1, <1>4, <2>1, PlainEvents
<1>6. Fits(posted', GoodEvents')
  <2>1. posted' = Put(Put(posted, p, event(first)), p, event(second))
    BY DEF ChannelsUp
  <2> HIDE DEF event, p, second
  <2>2. QED
    BY <1>1, <1>4, <1>5, <2>1, WanesPosted
<1>7. Fits(inbox', GoodMessages')
  BY <1>4, WanesQueues DEF ChannelsUp
<1>8. Scalars'
  BY DEF ChannelsUp, IInv, Scalars
<1>9. QED
  BY <1>4, <1>6, <1>7, <1>8 DEF IInv, Fits

\* The end of a connection, announced twice.
LEMMA EndKeeps ==
  ASSUME IInv, NEW c \in Made, End(c), client' = client, inbox' = inbox
  PROVE  Shape' /\ Fits(posted', GoodEvents') /\ Fits(inbox', GoodMessages')
<1> DEFINE p == conn[c].owner
           r == [conn[c] EXCEPT !.phase = "over"]
           e == [type |-> "ended", conn |-> c]
<1>1. conn[c] \in Connection /\ p \in Clients /\ c # 0
  BY ConnectionTypes DEF IInv, Shape, Made
<1>2. /\ r \in Connection /\ r.owner = conn[c].owner /\ r.role = conn[c].role
      /\ r.remote = conn[c].remote /\ r.awaiting = conn[c].awaiting
      /\ r.phase = "over"
  BY <1>1 DEF Connection, Phases
<1>3. conn' = [conn EXCEPT ![c] = r]
  BY DEF End
<1>4. Wanes /\ Shape' /\ Made' = Made
  <2> HIDE DEF r
  <2>1. Wanes /\ Shape'
    BY <1>2, <1>3, OneChanges
  <2>2. QED
    BY <2>1, WanesSettles
<1>5. e \in GoodEvents'[p]
  BY <1>1, <1>4, PlainEvents
<1>6. Fits(posted', GoodEvents')
  <2>1. posted' = Put(Put(posted, p, e), p, e)
    BY <1>1 DEF End, Announced
  <2> HIDE DEF e, p
  <2>2. QED
    BY <1>1, <1>4, <1>5, <2>1, WanesPosted
<1>7. QED
  BY <1>4, <1>6, WanesQueues

LEMMA EndedIInv ==
  ASSUME IInv, NEW c \in Made, Ended(c)
  PROVE  IInv'
<1>1. Shape' /\ Fits(posted', GoodEvents') /\ Fits(inbox', GoodMessages')
  BY EndKeeps DEF Ended
<1>2. Scalars'
  BY DEF Ended, IInv, Scalars
<1>3. QED
  BY <1>1, <1>2 DEF IInv, Fits

LEMMA LinkLostIInv ==
  ASSUME IInv, NEW c \in Made, LinkLost(c)
  PROVE  IInv'
<1>1. Shape' /\ Fits(posted', GoodEvents') /\ Fits(inbox', GoodMessages')
  BY EndKeeps DEF LinkLost
<1>2. Scalars'
  <2>1. events' \in Nat
    BY DEF LinkLost, IInv, Scalars
  <2>2. orderly' \in BOOLEAN
    BY DEF LinkLost
  <2>3. QED
    BY <2>1, <2>2 DEF LinkLost, IInv, Scalars
<1>3. QED
  BY <1>1, <1>2 DEF IInv, Fits

\* An answer goes to a caller: a callee never awaits one.
LEMMA ReceiveAnswerIInv ==
  ASSUME IInv, NEW p \in Clients, ReceiveAnswer(p)
  PROVE  IInv'
<1> DEFINE c == client[p].pc
           m == Head(inbox[p])
<1>1. /\ c \in Made \cup {0} /\ conn \in Seq(Connection)
      /\ \A d \in Made : conn[d] \in Connection /\ conn[d].remote \in Made \cup {0}
  BY ConnectionTypes DEF IInv, Shape, Client
<1>2. m \in GoodMessages[p] /\ m.type = "answer"
  BY QueueSteps DEF ReceiveAnswer, Receives, IInv
<1>3. m.conn \in Made /\ conn[m.conn].role = "callee"
  BY <1>2 DEF GoodMessages, Message, RoleFits
<1>4. Wanes /\ Shape'
  <2>1. CASE conn' = conn
    BY <2>1, UnchangedWanes DEF ReceiveAnswer
  <2>2. CASE /\ c # 0 /\ conn[c].awaiting
             /\ conn' = [conn EXCEPT ![c].awaiting = FALSE, ![c].remote = m.conn]
    <3> DEFINE r == [conn[c] EXCEPT !.awaiting = FALSE, !.remote = m.conn]
    <3>1. c \in Made
      BY <1>1, <2>2
    <3>2. conn[c].role = "caller"
      BY <1>1, <2>2, <3>1 DEF IInv, Shape, RolesMatch, Connection
    <3>3. /\ r \in Connection /\ r.owner = conn[c].owner /\ r.role = conn[c].role
          /\ r.phase = conn[c].phase /\ r.remote = m.conn
      <4>1. conn[c] \in Connection
        BY <1>1, <3>1
      <4>2. QED
        BY <1>3, <4>1 DEF Connection
    <3>4. conn' = [conn EXCEPT ![c] = r] /\ client' = client
      <4>1. DOMAIN conn = Made /\ conn = [d \in DOMAIN conn |-> conn[d]]
        BY <1>1, ConnectionTypes
      <4>2. conn[c] = [x \in DOMAIN conn[c] |-> conn[c][x]] 
        BY <1>1, <3>1 DEF Connection
      <4>3. QED
        BY <2>2, <3>1, <4>1, <4>2 DEF ReceiveAnswer
    <3> HIDE DEF r, c, m
    <3>5. /\ conn' \in Seq(Connection) /\ Len(conn') = Len(conn)
          /\ \A d \in Made : conn'[d] = IF d = c THEN r ELSE conn[d]
      BY <1>1, <3>1, <3>3, <3>4, ConnectionChanges
    <3>6. Wanes
      BY <3>3, <3>4, <3>5 DEF Wanes, IInv, Shape
    <3>7. Made' = Made
      BY <3>6, WanesSettles
    <3>8. RolesMatch'
      BY <1>1, <1>3, <3>2, <3>3, <3>5, <3>7 DEF RolesMatch, IInv, Shape
    <3>9. QED
      BY <3>2, <3>5, <3>6, <3>8, WanesKeeps
  <2>3. CASE conn' = Left(conn, p)
    <3>1. /\ conn' \in Seq(Connection) /\ Len(conn') = Len(conn)
          /\ \A d \in Made :
               conn'[d] = IF conn[d].owner = p
                          THEN [conn[d] EXCEPT !.phase = "over"] ELSE conn[d]
      BY <1>1, <2>3, LeftProperties
    <3>2. Wanes /\ \A d \in Made : /\ conn'[d].remote = conn[d].remote
                                   /\ conn'[d].awaiting = conn[d].awaiting
      BY <1>1, <3>1 DEF Wanes, ReceiveAnswer, IInv, Shape, Connection
    <3>3. QED
      BY <3>2, WanesShape
  <2>4. QED
    BY <2>1, <2>2, <2>3 DEF ReceiveAnswer
<1>5. Fits(posted', GoodEvents') /\ Fits(inbox', GoodMessages')
  BY <1>4, WanesQueues, WanesInbox DEF ReceiveAnswer, Receives
<1>6. Scalars'
  BY DEF ReceiveAnswer, IInv, Scalars
<1>7. QED
  BY <1>4, <1>5, <1>6 DEF IInv, Fits

-----------------------------------------------------------------------------
(* Steps that replace a connection by a new one. *)

\* The connection that is replaced is over, the new one comes last.
LEMMA ClosedAndAppended ==
  ASSUME IInv, NEW p \in Clients, NEW r,
         conn' = Append(CloseConnection(conn, client[p].pc), r)
  PROVE  LET n == Len(conn) + 1 IN
         /\ Len(conn) \in Nat /\ Len(conn') = n
         /\ n \notin Made /\ n # 0 /\ Made' = Made \cup {n}
         /\ conn'[n] = r
         /\ \A d \in Made :
              conn'[d] = IF d = client[p].pc THEN [conn[d] EXCEPT !.phase = "over"]
                         ELSE conn[d]
         /\ r \in Connection' => conn' \in Seq(Connection')
<1> DEFINE c == client[p].pc
           closed == CloseConnection(conn, c)
           S == Connection \cup {r}
<1>1. /\ conn \in Seq(Connection) /\ c \in Made \cup {0} /\ Len(conn) \in Nat
      /\ \A d \in Made : conn[d] \in Connection
  BY ConnectionTypes DEF IInv, Shape, Client
<1>2. /\ closed \in Seq(Connection) /\ Len(closed) = Len(conn)
      /\ \A d \in Made : closed[d] = IF d = c THEN [conn[d] EXCEPT !.phase = "over"]
                                    ELSE conn[d]
  <2>1. CASE c = 0
    BY <1>1, <2>1 DEF CloseConnection, Made
  <2>2. CASE c # 0
    <3> DEFINE over == [conn[c] EXCEPT !.phase = "over"]
    <3>1. c \in Made /\ over \in Connection
      BY <1>1, <2>2 DEF Connection, Phases
    <3>2. closed = [conn EXCEPT ![c] = over]
      BY <2>2 DEF CloseConnection
    <3> HIDE DEF over, closed, c
    <3>3. QED
      BY <1>1, <3>1, <3>2, ConnectionChanges DEF over
  <2>3. QED
    BY <2>1, <2>2
<1>3. closed \in Seq(S) /\ r \in S
  BY <1>2, SeqMonotonic
<1>4. conn' = Append(closed, r)
  OBVIOUS
<1> HIDE DEF closed, c
<1>5. /\ Len(conn') = Len(conn) + 1 /\ conn'[Len(conn) + 1] = r
      /\ \A d \in Made : conn'[d] = closed[d] /\ d # Len(conn) + 1
  <2> HIDE DEF S
  <2>1. QED
    BY <1>1, <1>2, <1>3, <1>4, AppendProperties DEF Made
<1>6. LET n == Len(conn) + 1
      IN  n \notin Made /\ n # 0 /\ Made' = Made \cup {n}
  BY <1>1, <1>5 DEF Made
<1>7. ASSUME r \in Connection'
      PROVE  conn' \in Seq(Connection')
  <2>1. Connection \subseteq Connection'
    BY <1>6 DEF Connection
  <2>2. closed \in Seq(Connection')
    BY <1>2, <2>1, SeqMonotonic
  <2>3. QED
    BY <1>4, <1>7, <2>2, AppendProperties
<1>8. QED
  BY <1>1, <1>2, <1>5, <1>6, <1>7 DEF c

LEMMA AppendsOne ==
  ASSUME IInv, NEW p \in Clients, NEW r,
         conn' = Append(CloseConnection(conn, client[p].pc), r)
  PROVE  LET n == Len(conn) + 1 IN
         /\ Len(conn) \in Nat /\ Len(conn') = n
         /\ n \notin Made /\ n # 0 /\ Made' = Made \cup {n}
         /\ conn'[n] = r
         /\ \A d \in Made :
              /\ conn'[d].owner = conn[d].owner /\ conn'[d].role = conn[d].role
              /\ conn'[d].remote = conn[d].remote
              /\ conn'[d].awaiting = conn[d].awaiting
              /\ conn'[d].phase # "over" =>
                   conn[d].phase # "over" /\ d # client[p].pc
         /\ r \in Connection' => conn' \in Seq(Connection')
<1> DEFINE n == Len(conn) + 1
<1>1. \A d \in Made : conn[d] \in Connection
  BY ConnectionTypes DEF IInv, Shape
<1>2. /\ Len(conn) \in Nat /\ Len(conn') = n
      /\ n \notin Made /\ n # 0 /\ Made' = Made \cup {n}
      /\ conn'[n] = r
      /\ r \in Connection' => conn' \in Seq(Connection')
  BY ClosedAndAppended
<1>3. ASSUME NEW d \in Made
      PROVE  /\ conn'[d].owner = conn[d].owner /\ conn'[d].role = conn[d].role
             /\ conn'[d].remote = conn[d].remote
             /\ conn'[d].awaiting = conn[d].awaiting
             /\ conn'[d].phase # "over" => conn[d].phase # "over" /\ d # client[p].pc
  <2>1. conn'[d] = IF d = client[p].pc THEN [conn[d] EXCEPT !.phase = "over"]
                   ELSE conn[d]
    BY ClosedAndAppended
  <2>2. QED
    BY <1>1, <2>1 DEF Connection
<1>4. QED
  BY <1>2, <1>3

\* The client holds the new connection, and the one it closed is not current.
LEMMA Replaces ==
  ASSUME IInv, NEW p \in Clients, NEW r, NEW m,
         conn' = Append(CloseConnection(conn, client[p].pc), r),
         client' = [client EXCEPT ![p] = m],
         posted' = Announced(posted, p, client[p].pc),
         r \in Connection', r.owner = p,
         m \in Client', m.pc = Len(conn) + 1, m.target # p
  PROVE  /\ Grows /\ Settles
         /\ client' \in [Clients -> Client'] /\ conn' \in Seq(Connection')
         /\ HoldsOwn' /\ OneConnection' /\ NotOneself'
         /\ Fits(posted', GoodEvents') /\ Fits(inbox, GoodMessages')
<1> DEFINE n == Len(conn) + 1
<1>1. /\ Len(conn) \in Nat /\ Len(conn') = n
      /\ n \notin Made /\ n # 0 /\ Made' = Made \cup {n}
      /\ conn'[n].owner = p
      /\ \A d \in Made :
           /\ conn'[d].owner = conn[d].owner /\ conn'[d].role = conn[d].role
           /\ conn'[d].phase # "over" => conn[d].phase # "over" /\ d # client[p].pc
      /\ conn' \in Seq(Connection')
  BY AppendsOne
<1>2. \A d \in Made : conn[d].owner \in Clients
  BY ConnectionTypes DEF IInv, Shape
<1>3. DOMAIN conn = Made /\ DOMAIN conn' = Made'
  BY <1>1, LenProperties, ConnectionTypes DEF IInv, Shape, Made
<1>4. Grows
  <2>1. Len(conn') \in Nat /\ Len(conn) <= Len(conn')
    BY <1>1
  <2>2. QED
    BY <1>1, <2>1 DEF Grows
<1>5. \A q \in Clients : /\ client[q].pc \in Made \cup {0}
                         /\ client'[q] = IF q = p THEN m ELSE client[q]
  BY DEF IInv, Shape, Client
<1>6. Settles
  <2> SUFFICES ASSUME NEW d \in Made, Current(d)'
               PROVE  Current(d) /\ Target(d)' = Target(d)
    BY DEF Settles
  <2>1. d # n /\ conn'[d].owner = conn[d].owner /\ conn[d].owner \in Clients
    BY <1>1, <1>2
  <2>2. conn[d].owner # p
    BY <1>5, <2>1 DEF Current
  <2>3. client'[conn[d].owner] = client[conn[d].owner]
    BY <1>5, <2>1, <2>2
  <2>4. QED
    BY <2>1, <2>3 DEF Current, Target
<1>7. client' \in [Clients -> Client']
  BY <1>4, TypesGrow DEF IInv, Shape
<1>8. HoldsOwn'
  <2> SUFFICES ASSUME NEW q \in Clients, client'[q].pc # 0
               PROVE  conn'[client'[q].pc].owner = q
    BY DEF HoldsOwn
  <2>1. CASE q = p
    BY <1>1, <1>5, <2>1
  <2>2. CASE q # p
    <3>1. /\ client'[q] = client[q] /\ client[q].pc \in Made
          /\ conn[client[q].pc].owner = q
      BY <1>5, <2>2 DEF IInv, Shape, HoldsOwn
    <3>2. QED
      BY <1>1, <3>1
  <2>3. QED
    BY <2>1, <2>2
<1>9. OneConnection'
  BY <1>1, <1>2, <1>3, <1>5 DEF IInv, Shape, OneConnection
<1>10. NotOneself'
  BY <1>5 DEF IInv, Shape, NotOneself
<1>11. Fits(posted, GoodEvents') /\ Fits(inbox, GoodMessages')
  BY <1>4, <1>6, QueuesKeep, FitsMonotonic DEF IInv
<1>12. Fits(posted', GoodEvents')
  <2>1. CASE client[p].pc = 0
    BY <1>11, <2>1 DEF Announced
  <2>2. CASE client[p].pc # 0
    <3>1. [type |-> "ended", conn |-> client[p].pc] \in GoodEvents'[p]
      BY <1>1, <1>5, <2>2, PlainEvents
    <3>2. QED
      BY <1>11, <2>2, <3>1, QueueSteps DEF Announced
  <2>3. QED
    BY <2>1, <2>2
<1>13. QED
  BY <1>1, <1>4, <1>6, <1>7, <1>8, <1>9, <1>10, <1>11, <1>12

LEMMA CallIInv ==
  ASSUME IInv, NEW p \in Clients, NEW q \in Clients, Call(p, q)
  PROVE  IInv'
<1> DEFINE n == Len(conn) + 1
           r == NewConnection(p, "caller", 0)
           m == [NewClient EXCEPT !.target = q, !.pc = n, !.control = n, !.binary = n]
<1>1. /\ conn' = Append(CloseConnection(conn, client[p].pc), r)
      /\ client' = [client EXCEPT ![p] = m]
      /\ posted' = Announced(posted, p, client[p].pc)
      /\ inbox' = inbox /\ q # p
  BY DEF Call
<1>2. /\ Len(conn) \in Nat /\ n # 0 /\ Made' = Made \cup {n} /\ conn'[n] = r
      /\ \A d \in Made :
           /\ conn'[d].owner = conn[d].owner /\ conn'[d].role = conn[d].role
           /\ conn'[d].remote = conn[d].remote
           /\ conn'[d].awaiting = conn[d].awaiting
           /\ conn[d].remote \in Made \cup {0}
  BY <1>1, AppendsOne, ConnectionTypes DEF IInv, Shape
<1>3. /\ r \in Connection' /\ r.owner = p /\ r.role = "caller" /\ r.remote = 0
  BY DEF NewConnection, Connection, Phases, Live
<1>4. m \in Client' /\ m.pc = n /\ m.target = q
  BY <1>2 DEF NewClient, Client
<1>5. /\ Grows /\ Settles
      /\ client' \in [Clients -> Client'] /\ conn' \in Seq(Connection')
      /\ HoldsOwn' /\ OneConnection' /\ NotOneself'
      /\ Fits(posted', GoodEvents') /\ Fits(inbox', GoodMessages')
  <2> HIDE DEF r, m
  <2>1. QED
    BY <1>1, <1>3, <1>4, Replaces
<1> HIDE DEF r, m, n
<1>7. RolesMatch'
  BY <1>2, <1>3 DEF IInv, Shape, RolesMatch
<1>8. TargetsMatch'
  <2> SUFFICES ASSUME NEW d \in Made, conn[d].role = "callee"
               PROVE  LET c == conn[d].remote
                      IN  /\ Current(d)' => Target(d)' = conn'[c].owner
                          /\ Current(c)' => Target(c)' = conn'[d].owner
    BY <1>2, <1>3 DEF TargetsMatch
  <2>1. conn[d].remote \in Made
    BY <1>2 DEF IInv, Shape, RolesMatch
  <2>2. QED
    BY <1>5, <1>2, <2>1 DEF IInv, Shape, TargetsMatch, Settles
<1>9. Scalars'
  <2>1. events' \in Nat
    BY DEF Call, IInv, Scalars
  <2>2. orderly' \in BOOLEAN
    BY DEF Call
  <2>3. QED
    BY <2>1, <2>2 DEF Call, IInv, Scalars
<1>10. QED
  BY <1>5, <1>7, <1>8, <1>9 DEF IInv, Shape

\* The offer came to the target of its maker, if its maker still has one.
LEMMA ReceiveOfferIInv ==
  ASSUME IInv, NEW p \in Clients, ReceiveOffer(p)
  PROVE  IInv'
<1> DEFINE n == Len(conn) + 1
           offer == Head(inbox[p])
           r == NewConnection(p, "callee", offer.conn)
           m == [Disconnected(client[p]) EXCEPT !.target = offer.from, !.pc = n]
<1>1. /\ conn' = Append(CloseConnection(conn, client[p].pc), r)
      /\ client' = [client EXCEPT ![p] = m]
      /\ posted' = Announced(posted, p, client[p].pc)
      /\ inbox' = Taken(inbox, p)
      /\ inbox[p] # <<>> /\ offer.type = "offer"
  BY DEF ReceiveOffer, Receives
<1>2. /\ Len(conn) \in Nat /\ n # 0 /\ Made' = Made \cup {n} /\ conn'[n] = r
      /\ \A d \in Made :
           /\ conn'[d].owner = conn[d].owner /\ conn'[d].role = conn[d].role
           /\ conn'[d].remote = conn[d].remote
           /\ conn'[d].awaiting = conn[d].awaiting
           /\ conn[d].remote \in Made \cup {0}
  BY <1>1, AppendsOne, ConnectionTypes DEF IInv, Shape
<1>3. offer \in GoodMessages[p]
  BY <1>1, QueueSteps DEF IInv
<1>4. /\ offer.conn \in Made /\ offer.from \in Clients /\ offer.from # p
      /\ offer.from = conn[offer.conn].owner
      /\ conn[offer.conn].role = "caller"
      /\ Current(offer.conn) => Target(offer.conn) = p
  BY <1>1, <1>3 DEF GoodMessages, Message, RoleFits
<1>5. /\ r \in Connection' /\ r.owner = p /\ r.role = "callee"
      /\ r.remote = offer.conn /\ ~r.awaiting
  BY <1>2, <1>4 DEF NewConnection, Connection, Phases, Live
<1>6. m \in Client' /\ m.pc = n /\ m.target = offer.from
  BY <1>2, <1>4 DEF Disconnected, NewClient, Client
<1>7. offer.conn # 0
  BY <1>4 DEF Made
<1> HIDE DEF r, m, n, offer
<1>8. /\ Grows /\ Settles
      /\ client' \in [Clients -> Client'] /\ conn' \in Seq(Connection')
      /\ HoldsOwn' /\ OneConnection' /\ NotOneself'
      /\ Fits(posted', GoodEvents') /\ Fits(inbox, GoodMessages')
  BY <1>1, <1>4, <1>5, <1>6, Replaces DEF n
<1>9. Fits(inbox', GoodMessages')
  BY <1>1, <1>8, QueueSteps
<1>11. RolesMatch'
  BY <1>2, <1>4, <1>5, <1>7, <1>2 DEF IInv, Shape, RolesMatch
<1>12. PICK k \in Made : k = offer.conn
  BY <1>4
<1>13. TargetsMatch'
  <2> SUFFICES ASSUME NEW d \in Made', conn'[d].role = "callee"
               PROVE  (LET c == conn[d].remote
                       IN  /\ Current(d) => Target(d) = conn[c].owner
                           /\ Current(c) => Target(c) = conn[d].owner)'
    BY DEF TargetsMatch
  <2>1. CASE d \in Made
    <3>1. conn[d].remote \in Made
      BY <1>2, <2>1 DEF IInv, Shape, RolesMatch
    <3>2. QED
      BY <1>2, <1>8, <2>1, <3>1 DEF IInv, Shape, TargetsMatch, Settles
  <2>2. CASE d = n
    <3>1. Target(d)' = offer.from
      BY <1>1, <1>2, <1>5, <1>6, <2>2 DEF Target, IInv, Shape
    <3>2. Current(k)' => Target(k)' = p
      BY <1>4, <1>8, <1>12 DEF Settles
    <3>3. QED
      BY <1>2, <1>4, <1>5, <1>12, <2>2, <3>1, <3>2
  <2>3. QED
    BY <1>2, <2>1, <2>2
<1>14. Scalars'
  BY DEF ReceiveOffer, IInv, Scalars
<1>15. QED
  BY <1>8, <1>9, <1>11, <1>13, <1>14 DEF IInv, Shape

-----------------------------------------------------------------------------
(* The theorems. *)

LEMMA NextIInv == IInv /\ [Next]_vars => IInv'
<1> SUFFICES ASSUME IInv, [Next]_vars PROVE IInv'
  OBVIOUS
<1>1. DOMAIN conn = Made
  BY ConnectionTypes DEF IInv, Shape
<1>2. ASSUME NEW p \in Clients, Handler(p)
      PROVE  IInv'
  BY <1>2, OnMQTTConnectedIInv, PublishMessageIInv, ReceiveOfferIInv,
     ReceiveAnswerIInv, ReceiveCandidateIInv, OnStateChangeIInv,
     AssignChannelIInv, OnOpenIInv DEF Handler
<1>3. ASSUME NEW p \in Clients, User(p) \/ LoseMessage(p)
      PROVE  IInv'
  BY <1>3, QuitIInv, CallIInv, LoseMessageIInv DEF User
<1>4. ASSUME NEW c \in Made, Library(c) \/ LinkLost(c)
      PROVE  IInv'
  BY <1>1, <1>4, LocalDescriptionIInv, EndedIInv, ConnectIInv, ChannelsUpIInv,
     LinkLostIInv DEF Library
<1>5. CASE UNCHANGED vars
  <2>1. Wanes /\ Shape'
    BY <1>5, UnchangedWanes DEF vars
  <2>2. Fits(posted', GoodEvents') /\ Fits(inbox', GoodMessages')
    BY <1>5, <2>1, WanesQueues DEF vars
  <2>3. Scalars'
    BY <1>5 DEF vars, IInv, Scalars
  <2>4. QED
    BY <2>1, <2>2, <2>3 DEF IInv, Fits
<1>6. QED
  BY <1>1, <1>2, <1>3, <1>4, <1>5 DEF Next

LEMMA SpecIInv == Spec => []IInv
BY InitIInv, NextIInv, PTL DEF Spec

\* Every variable keeps its type: no client holds, and no message, lambda or
\* connection names, a connection that was never made.
THEOREM SpecTypeOK == Spec => []TypeOK
<1>1. ASSUME IInv
      PROVE  TypeOK
  <2>1. \A p \in Clients : GoodEvents[p] \subseteq Event /\ GoodMessages[p] \subseteq Message
    BY DEF GoodEvents, GoodMessages
  <2>2. \A p \in Clients : posted[p] \in Seq(Event) /\ inbox[p] \in Seq(Message)
    BY <1>1, <2>1, SeqMonotonic DEF IInv, Fits
  <2>3. posted \in [Clients -> Seq(Event)] /\ inbox \in [Clients -> Seq(Message)]
    BY <1>1, <2>2 DEF IInv, Fits
  <2>4. QED
    BY <1>1, <2>3 DEF IInv, Scalars, Shape, TypeOK
<1>2. QED
  BY <1>1, SpecIInv, PTL

\* However many calls and offers replace each other, a client has closed every
\* connection but the one it holds (call and handleSignalingMessage close the
\* old one before they make another).
THEOREM SpecOneConnection == Spec => []OneConnection
<1>1. IInv => OneConnection
  BY DEF IInv, Shape
<1>2. QED
  BY <1>1, SpecIInv, PTL

\* Whatever calls cross, are repeated or get lost, and although a description
\* goes to whoever is the target when it is published, two connections that can
\* talk belong to clients each of which has the other for its target.
THEOREM SpecPeerIsTarget == Spec => []PeerIsTarget
<1>1. ASSUME IInv
      PROVE  PeerIsTarget
  <2> SUFFICES ASSUME NEW p \in Clients, NEW c, c = client[p].pc,
                      NEW d, d = conn[c].remote,
                      c # 0, client[p].target # None, d # 0, conn[d].remote = c
               PROVE  conn[d].owner = client[p].target
    BY DEF PeerIsTarget
  <2>1. c \in Made /\ conn[c].owner = p
    BY <1>1 DEF IInv, Shape, HoldsOwn, Client
  <2>2. Current(c) /\ Target(c) = client[p].target
    BY <2>1 DEF Current, Target
  <2>3. d \in Made /\ conn[c].role \in {"caller", "callee"}
    BY <1>1, <2>1, ConnectionTypes DEF IInv, Shape, Connection
  <2>4. CASE conn[c].role = "callee"
    BY <1>1, <2>1, <2>2, <2>4 DEF IInv, Shape, TargetsMatch
  <2>5. CASE conn[c].role = "caller"
    <3>1. conn[d].role = "callee"
      BY <1>1, <2>1, <2>5 DEF IInv, Shape, RolesMatch
    <3>2. QED
      BY <1>1, <2>2, <2>3, <3>1 DEF IInv, Shape, TargetsMatch
  <2>6. QED
    BY <2>3, <2>4, <2>5
<1>2. QED
  BY <1>1, SpecIInv, PTL

=============================================================================
