---------------------------- MODULE OrderlyProofs ----------------------------
(***************************************************************************)
(* What holds of Signaling with users who wait for a set-up to end, over a *)
(* broker that loses nothing (OrderlySpec), for any number of clients and  *)
(* calls: a window that says Connected is connected.                       *)
(*                                                                         *)
(* The invariant has one part for each thing that can be under way.  What  *)
(* drives it is that one description at most is unsent or on its way, and  *)
(* that nothing is about to open while one is; so each step that applies a *)
(* description, or makes a connection, finds the channels at rest.         *)
(***************************************************************************)
EXTENDS SignalingProofs

-----------------------------------------------------------------------------
(* What waits in a queue. *)

Items(queue, p) == {queue[p][i] : i \in 1..Len(queue[p])}

\* An e waits in the queue, and an f behind it.
Precedes(queue, p, e, f) ==
  \E i, j \in 1..Len(queue[p]) : i < j /\ queue[p][i] = e /\ queue[p][j] = f

LEMMA QueueTail ==
  ASSUME NEW S, NEW s \in Seq(S), s # <<>>
  PROVE  /\ Len(s) \in Nat /\ Len(s) > 0 /\ Head(s) = s[1]
         /\ Len(Tail(s)) = Len(s) - 1
         /\ \A i \in 1..Len(Tail(s)) : Tail(s)[i] = s[i + 1]
BY HeadTailProperties, LenProperties

LEMMA PutItems ==
  ASSUME NEW S, NEW queue \in [Clients -> Seq(S)], NEW p \in Clients, NEW g \in S
  PROVE  /\ Put(queue, p, g) \in [Clients -> Seq(S)]
         /\ Items(Put(queue, p, g), p) = Items(queue, p) \cup {g}
<1> DEFINE after == Put(queue, p, g)
           n == Len(queue[p])
<1>1. /\ n \in Nat /\ after[p] = Append(queue[p], g)
      /\ after \in [Clients -> Seq(S)]
  BY LenProperties, AppendProperties DEF Put
<1>2. /\ Len(after[p]) = n + 1 /\ after[p][n + 1] = g
      /\ \A i \in 1..n : after[p][i] = queue[p][i]
  BY <1>1, AppendProperties
<1>3. 1..(n + 1) = 1..n \cup {n + 1}
  BY <1>1
<1> HIDE DEF after
<1>4. Items(after, p) = Items(queue, p) \cup {g}
  BY <1>2, <1>3 DEF Items
<1>5. QED
  BY <1>1, <1>4 DEF after

LEMMA ItemsPut ==
  ASSUME NEW S, NEW queue \in [Clients -> Seq(S)], NEW p \in Clients, NEW g \in S
  PROVE  LET after == Put(queue, p, g) IN
         /\ after \in [Clients -> Seq(S)]
         /\ Items(after, p) = Items(queue, p) \cup {g}
         /\ \A x \in Clients \ {p} :
              after[x] = queue[x] /\ Items(after, x) = Items(queue, x)
         /\ Len(after[p]) = Len(queue[p]) + 1 /\ after[p][Len(queue[p]) + 1] = g
         /\ \A i \in 1..Len(queue[p]) : after[p][i] = queue[p][i]
         /\ \A e, f : \A x \in Clients :
              Precedes(queue, x, e, f) => Precedes(after, x, e, f)
         /\ \A e \in Items(queue, p) : Precedes(after, p, e, g)
<1> DEFINE after == Put(queue, p, g)
           n == Len(queue[p])
<1>1. /\ n \in Nat /\ after[p] = Append(queue[p], g)
      /\ after \in [Clients -> Seq(S)]
      /\ \A x \in Clients \ {p} : after[x] = queue[x]
  BY LenProperties, AppendProperties DEF Put
<1>2. /\ Len(after[p]) = n + 1 /\ after[p][n + 1] = g
      /\ \A i \in 1..n : after[p][i] = queue[p][i]
  BY <1>1, AppendProperties
<1> HIDE DEF after
<1>3. Items(after, p) = Items(queue, p) \cup {g}
  BY PutItems DEF after
<1>4. \A x \in Clients \ {p} : Items(after, x) = Items(queue, x)
  BY <1>1 DEF Items
<1>5. ASSUME NEW x \in Clients, NEW e, NEW f, Precedes(queue, x, e, f)
      PROVE  Precedes(after, x, e, f)
  <2>1. CASE x = p
    <3>1. PICK i \in 1..n, j \in 1..n :
            i < j /\ queue[p][i] = e /\ queue[p][j] = f
      BY <1>5, <2>1 DEF Precedes
    <3>2. i \in 1..(n + 1) /\ j \in 1..(n + 1)
      BY <1>1
    <3>3. QED
      BY <1>2, <2>1, <3>1, <3>2 DEF Precedes
  <2>2. QED
    BY <1>1, <1>5, <2>1 DEF Precedes
<1>6. ASSUME NEW e \in Items(queue, p)
      PROVE  Precedes(after, p, e, g)
  <2>1. PICK i \in 1..n : queue[p][i] = e
    BY DEF Items
  <2>2. i \in 1..(n + 1) /\ n + 1 \in 1..(n + 1) /\ i < n + 1
    BY <1>1
  <2>3. QED
    BY <1>2, <2>1, <2>2 DEF Precedes
<1>7. QED
  BY <1>1, <1>2, <1>3, <1>4, <1>5, <1>6 DEF after

LEMMA PutTwice ==
  ASSUME NEW S, NEW queue \in [Clients -> Seq(S)], NEW p \in Clients,
         NEW e \in S, NEW f \in S
  PROVE  LET after == Put(Put(queue, p, e), p, f) IN
         /\ Put(queue, p, e) \in [Clients -> Seq(S)]
         /\ after \in [Clients -> Seq(S)]
         /\ Items(after, p) = Items(queue, p) \cup {e, f}
         /\ \A x \in Clients \ {p} : Items(after, x) = Items(queue, x)
         /\ \A g, h : \A x \in Clients :
              Precedes(queue, x, g, h) => Precedes(after, x, g, h)
         /\ Precedes(after, p, e, f)
<1> DEFINE once == Put(queue, p, e)
           after == Put(once, p, f)
<1>1. /\ once \in [Clients -> Seq(S)]
      /\ Items(once, p) = Items(queue, p) \cup {e}
  BY PutItems
<1>2. \A x \in Clients \ {p} : Items(once, x) = Items(queue, x)
  BY ItemsPut
<1>6. \A g, h : \A x \in Clients :
        Precedes(queue, x, g, h) => Precedes(once, x, g, h)
  BY ItemsPut
<1> HIDE DEF once
<1>3. /\ after \in [Clients -> Seq(S)]
      /\ Items(after, p) = Items(once, p) \cup {f}
  BY <1>1, PutItems
<1>4. /\ \A x \in Clients \ {p} : Items(after, x) = Items(once, x)
      /\ \A g, h : \A x \in Clients :
           Precedes(once, x, g, h) => Precedes(after, x, g, h)
      /\ \A g \in Items(once, p) : Precedes(after, p, g, f)
  BY <1>1, ItemsPut
<1> HIDE DEF after
<1>5. QED
  BY <1>1, <1>2, <1>3, <1>4, <1>6 DEF once, after

LEMMA ItemsTaken ==
  ASSUME NEW S, NEW queue \in [Clients -> Seq(S)], NEW p \in Clients,
         queue[p] # <<>>
  PROVE  LET after == Taken(queue, p) IN
         /\ after \in [Clients -> Seq(S)] /\ Head(queue[p]) \in S
         /\ Items(queue, p) = Items(after, p) \cup {Head(queue[p])}
         /\ \A x \in Clients \ {p} :
              after[x] = queue[x] /\ Items(after, x) = Items(queue, x)
         /\ Len(queue[p]) \in Nat /\ Len(queue[p]) > 0
         /\ Head(queue[p]) = queue[p][1] /\ Len(after[p]) = Len(queue[p]) - 1
         /\ \A i \in 1..Len(after[p]) :
              i + 1 \in 1..Len(queue[p]) /\ after[p][i] = queue[p][i + 1]
         /\ \A e, f : \A x \in Clients :
              Precedes(queue, x, e, f) =>
                \/ Precedes(after, x, e, f)
                \/ x = p /\ Head(queue[p]) = e /\ f \in Items(after, p)
<1> DEFINE after == Taken(queue, p)
           n == Len(queue[p])
<1>1. /\ n \in Nat /\ n > 0 /\ after[p] = Tail(queue[p]) /\ Head(queue[p]) = queue[p][1]
      /\ Head(queue[p]) \in S
      /\ after \in [Clients -> Seq(S)]
      /\ \A x \in Clients \ {p} : after[x] = queue[x]
  BY QueueTail, HeadTailProperties DEF Taken
<1>2. /\ Len(after[p]) = n - 1
      /\ \A i \in 1..(n - 1) : after[p][i] = queue[p][i + 1]
  BY <1>1, QueueTail
<1> HIDE DEF after
<1>3. Items(queue, p) = Items(after, p) \cup {queue[p][1]}
  <2>1. /\ \A i \in 1..n : i = 1 \/ (i - 1 \in 1..(n - 1) /\ (i - 1) + 1 = i)
        /\ 1 \in 1..n /\ \A i \in 1..(n - 1) : i + 1 \in 1..n
    BY <1>1
  <2>2. ASSUME NEW e \in Items(queue, p)
        PROVE  e \in Items(after, p) \cup {queue[p][1]}
    <3>1. PICK i \in 1..n : queue[p][i] = e
      BY DEF Items
    <3>2. CASE i # 1
      <4>1. i - 1 \in 1..(n - 1) /\ after[p][i - 1] = e
        BY <1>2, <2>1, <3>1, <3>2
      <4>2. QED
        BY <1>2, <4>1 DEF Items
    <3>3. QED
      BY <3>1, <3>2
  <2>3. ASSUME NEW e \in Items(after, p) \cup {queue[p][1]}
        PROVE  e \in Items(queue, p)
    BY <1>2, <2>1 DEF Items
  <2>4. QED
    BY <2>2, <2>3
<1>4. \A x \in Clients \ {p} : Items(after, x) = Items(queue, x)
  BY <1>1 DEF Items
<1>5. \A i \in 1..Len(after[p]) : i + 1 \in 1..n
  BY <1>1, <1>2
<1>6. ASSUME NEW x \in Clients, NEW e, NEW f, Precedes(queue, x, e, f)
      PROVE  \/ Precedes(after, x, e, f)
             \/ x = p /\ queue[p][1] = e /\ f \in Items(after, p)
  <2>1. CASE x = p
    <3>1. PICK i \in 1..n, j \in 1..n :
            i < j /\ queue[p][i] = e /\ queue[p][j] = f
      BY <1>6, <2>1 DEF Precedes
    <3>2. j - 1 \in 1..(n - 1) /\ after[p][j - 1] = f
      <4>1. j - 1 \in 1..(n - 1) /\ (j - 1) + 1 = j
        BY <1>1, <3>1
      <4>2. QED
        BY <1>2, <3>1, <4>1
    <3>3. CASE i = 1
      BY <1>2, <2>1, <3>1, <3>2, <3>3 DEF Items
    <3>4. CASE i # 1
      <4>1. i - 1 \in 1..(n - 1) /\ (i - 1) + 1 = i /\ i - 1 < j - 1
        BY <1>1, <3>1, <3>4
      <4>2. after[p][i - 1] = e
        BY <1>2, <3>1, <4>1
      <4>3. QED
        BY <1>2, <2>1, <3>2, <4>1, <4>2 DEF Precedes
    <3>5. QED
      BY <3>3, <3>4
  <2>2. QED
    BY <1>1, <1>6, <2>1 DEF Precedes
<1>7. QED
  BY <1>1, <1>2, <1>3, <1>4, <1>5, <1>6 DEF after

-----------------------------------------------------------------------------
(* What holds of one set-up at a time. *)

EndedLambda(c) == [type |-> "ended", conn |-> c]
ChannelLambda(type, c, label) == [type |-> type, conn |-> c, label |-> label]

\* A lambda of a channel: it acts on whatever connection p holds.
Opens(e) == e.type \in {"channel", "open"}

Describes(m) == m.type \in {"offer", "answer"}

Meets(c) ==
  conn[c].phase = "connected" /\ conn[conn[c].remote].phase = "connected"

\* Who holds a connection that is not over is online and has a target.
Lives ==
  \A c \in Made : conn[c].phase # "over" =>
    /\ status[conn[c].owner] = "online"
    /\ client[conn[c].owner].target # None

\* An end is announced after it came.
EndedAreOver ==
  \A p \in Clients : \A e \in Items(posted, p) :
    e.type = "ended" => conn[e.conn].phase = "over"

\* A connection is up when both ends have been linked; the other may be over.
Paired ==
  \A c \in Made :
    /\ conn[c].awaiting => conn[c].remote = 0
    /\ conn[c].phase = "new" => ~conn[c].opened
    /\ conn[c].phase = "connected" =>
         /\ conn[c].remote # 0 /\ conn[conn[c].remote].remote = c
         /\ conn[conn[c].remote].phase # "new"

\* While channels open, both ends stay connected.
Fresh ==
  /\ \A p \in Clients : Running(p) =>
       \A e \in Items(posted, p) : Opens(e) =>
         client[p].pc = e.conn /\ conn[e.conn].opened /\ Meets(e.conn)
  /\ \A c \in Made :
       conn[c].phase = "connected" /\ ~conn[c].opened => Meets(c)

\* No connection is about to open, and no channel.
Hush ==
  /\ \A p \in Clients : Running(p) => \A e \in Items(posted, p) : ~Opens(e)
  /\ \A c \in Made : conn[c].phase = "connected" => conn[c].opened
  /\ \A c, d \in Made :
       conn[c].phase = "new" /\ conn[d].phase = "new" => ~Linked(c, d)

PublishesAt(queue, x, i) ==
  /\ i \in 1..Len(queue[x]) /\ queue[x][i].type = "publish"
  /\ Describes(queue[x][i].message)

DescribesAt(queue, x, i) ==
  i \in 1..Len(queue[x]) /\ Describes(queue[x][i])

\* Where a description is: still to be made, to be published, or on its way.
Token(kind, x, i) ==
  \/ /\ kind = "made" /\ x \in Made /\ i = 0
     /\ conn[x].phase # "over" /\ ~conn[x].described
  \/ kind = "posted" /\ x \in Clients /\ Running(x) /\ PublishesAt(posted, x, i)
  \/ kind = "inbox" /\ x \in Clients /\ Running(x) /\ DescribesAt(inbox, x, i)

\* One description at most is under way, ...
OneToken ==
  \A k, x, i, l, y, j :
    Token(k, x, i) /\ Token(l, y, j) => k = l /\ x = y /\ i = j

\* ... and no channel opens meanwhile.
TokenHush == (\E k, x, i : Token(k, x, i)) => Hush

\* A window that says Connected has a connection, is getting one, or is about
\* to hear that it ended.
Shown ==
  \A p \in Clients :
    LET c == client[p].pc
    IN  Running(p) /\ connected[p] =>
          /\ c # 0
          /\ \/ conn[c].phase = "connected"
             \/ conn[c].phase = "new" /\ conn[c].role = "callee"
             \/ client[p].target # None /\ EndedLambda(c) \in Items(posted, p)

Channel(p, label) ==
  IF label = "control" THEN client[p].control ELSE client[p].binary

IsOpen(p, label) ==
  IF label = "control" THEN client[p].controlOpen ELSE client[p].binaryOpen

\* The channels of a connection that opened are open, or will be.
Wired ==
  \A p \in Clients :
    LET c == client[p].pc
    IN  Running(p) /\ c # 0 /\ conn[c].phase # "over" =>
          /\ conn[c].role = "caller" => \A label \in Labels : Channel(p, label) = c
          /\ (\A label \in Labels : IsOpen(p, label)) => connected[p]
          /\ conn[c].opened =>
               \A label \in Labels :
                 \/ ChannelLambda("channel", c, label) \in Items(posted, p)
                 \/ /\ Channel(p, label) = c
                    /\ \/ IsOpen(p, label)
                       \/ ChannelLambda("open", c, label) \in Items(posted, p)

Reply(c) == Publication(c, "answer")
Route(c) == Publication(c, "candidate")

\* The answer of c and its candidate are on their way to r, the answer first.
OnTheWay(c) ==
  LET k == conn[c].remote
      p == conn[c].owner
      r == conn[k].owner
  IN  \/ ~conn[c].described
      \/ Precedes(posted, p, Reply(c), Route(c))
      \/ /\ Reply(c).message \in Items(inbox, r)
         /\ \/ Route(c) \in Items(posted, p)
            \/ Precedes(inbox, r, Reply(c).message, Route(c).message)
      \/ /\ conn[k].remote = c
         /\ \/ Route(c) \in Items(posted, p)
            \/ Route(c).message \in Items(inbox, r)
            \/ conn[k].reachable

\* A callee whose caller can still take its answer is going to be heard.
Answering ==
  \A c \in Made :
    /\ conn[c].phase = "new" /\ conn[c].role = "callee"
    /\ conn[conn[c].remote].phase # "over"
    /\ conn[conn[c].remote].remote \in {0, c}
    => OnTheWay(c)

ORest ==
  /\ Lives /\ EndedAreOver /\ Paired /\ Fresh
  /\ OneToken /\ TokenHush /\ Shown /\ Wired /\ Answering

OInv == IInv /\ ORest

-----------------------------------------------------------------------------
(* Steps that end connections at most. *)

LEMMA OrderlyTypes ==
  ASSUME IInv
  PROVE  /\ DOMAIN conn = Made /\ Len(conn) \in Nat
         /\ \A c \in Made : /\ conn[c] \in Connection
                            /\ conn[c].owner \in Clients
                            /\ conn[c].remote \in Made \cup {0}
                            /\ conn[c].phase \in {"new", "connected", "over"}
                            /\ conn[c].role \in {"caller", "callee"}
                            /\ conn[c].role = "callee" => conn[c].remote \in Made
         /\ client \in [Clients -> Client]
         /\ posted \in [Clients -> Seq(Event)]
         /\ inbox \in [Clients -> Seq(Message)]
         /\ \A p \in Clients :
              /\ client[p].pc \in Made \cup {0}
              /\ client[p].target \in Clients \cup {None}
              /\ client[p].pc # 0 => conn[client[p].pc].owner = p
         /\ \A c \in Made :
              conn[c].phase # "over" => client[conn[c].owner].pc = c
<1>1. /\ DOMAIN conn = Made /\ Len(conn) \in Nat
      /\ \A c \in Made : /\ conn[c] \in Connection /\ conn[c].owner \in Clients
                         /\ conn[c].remote \in Made \cup {0}
  BY ConnectionTypes DEF IInv, Shape
<1>2. \A c \in Made : /\ conn[c].phase \in {"new", "connected", "over"}
                      /\ conn[c].role \in {"caller", "callee"}
  BY <1>1 DEF Connection, Phases, Live
<1>3. \A c \in Made : conn[c].role = "callee" => conn[c].remote \in Made
  BY <1>1 DEF IInv, Shape, RolesMatch
<1>4. posted \in [Clients -> Seq(Event)] /\ inbox \in [Clients -> Seq(Message)]
  <2>1. \A p \in Clients : GoodEvents[p] \subseteq Event /\ GoodMessages[p] \subseteq Message
    BY DEF GoodEvents, GoodMessages
  <2>2. \A p \in Clients : posted[p] \in Seq(Event) /\ inbox[p] \in Seq(Message)
    BY <2>1, SeqMonotonic DEF IInv, Fits
  <2>3. QED
    BY <2>2 DEF IInv, Fits
<1>5. client \in [Clients -> Client]
  BY DEF IInv, Shape
<1>6. \A p \in Clients :
        /\ client[p].pc \in Made \cup {0}
        /\ client[p].target \in Clients \cup {None}
        /\ client[p].pc # 0 => conn[client[p].pc].owner = p
  BY <1>5 DEF Client, IInv, Shape, HoldsOwn
<1>7. \A c \in Made : conn[c].phase # "over" => client[conn[c].owner].pc = c
  BY <1>1 DEF IInv, Shape, OneConnection
<1>8. QED
  BY <1>1, <1>2, <1>3, <1>4, <1>5, <1>6, <1>7

\* Nothing is made, linked or connected.
Fades ==
  /\ Made' = Made
  /\ \A c \in Made :
       /\ conn'[c].owner = conn[c].owner /\ conn'[c].role = conn[c].role
       /\ conn'[c].remote = conn[c].remote /\ conn'[c].awaiting = conn[c].awaiting
       /\ conn'[c].phase \in {conn[c].phase, "over"}
       /\ conn'[c].opened => conn[c].opened \/ conn[c].phase = "connected"
       /\ conn[c].opened => conn'[c].opened
       /\ conn[c].reachable => conn'[c].reachable
       /\ conn[c].described => conn'[c].described
  /\ \A p \in Clients :
       client'[p].pc = client[p].pc /\ (Running(p)' => Running(p))

\* No lambda of a channel joins a queue.
OpensLess ==
  \A p \in Clients :
    \A e \in Items(posted', p) : Opens(e) => e \in Items(posted, p)

\* What such a step keeps of each part of the invariant.
LEMMA FadesPaired ==
  ASSUME IInv, Paired, Fades
  PROVE  Paired'
BY OrderlyTypes, SMTT(20) DEF Fades, Paired

LEMMA FadesFresh ==
  ASSUME IInv, Fresh, Fades, OpensLess,
         Hush \/ \A c \in Made : Meets(c) => Meets(c)'
  PROVE  Fresh'
<1>1. ASSUME NEW p \in Clients, Running(p)', NEW e \in Items(posted', p), Opens(e)
      PROVE  client'[p].pc = e.conn /\ conn'[e.conn].opened /\ Meets(e.conn)'
  <2>1. Running(p) /\ e \in Items(posted, p) /\ ~Hush
    BY <1>1 DEF Fades, OpensLess, Hush
  <2>2. client[p].pc = e.conn /\ conn[e.conn].opened /\ Meets(e.conn)
    BY <1>1, <2>1 DEF Fresh
  <2>3. e.conn \in Made
    <3>1. posted \in [Clients -> Seq(Event)] /\ Opens(e)
      BY <1>1, OrderlyTypes
    <3>2. e \in Event
      BY <2>1, <3>1 DEF Items
    <3>3. QED
      BY <3>1, <3>2 DEF Event, Opens
  <2>4. QED
    BY <2>1, <2>2, <2>3 DEF Fades
<1>2. ASSUME NEW c \in Made, conn'[c].phase = "connected", ~conn'[c].opened
      PROVE  Meets(c)'
  BY <1>2 DEF Fades, Fresh, Hush
<1>3. QED
  BY <1>1, <1>2 DEF Fresh, Fades, Items

LEMMA FadesHush ==
  ASSUME Hush, Fades, OpensLess
  PROVE  Hush'
<1>1. \A p \in Clients : Running(p)' => \A e \in Items(posted', p) : ~Opens(e)
  BY DEF Hush, Fades, OpensLess
<1>2. \A c \in Made : conn'[c].phase = "connected" => conn'[c].opened
  BY DEF Hush, Fades
<1>3. \A c, d \in Made :
        conn'[c].phase = "new" /\ conn'[d].phase = "new" =>
          ~(conn'[c].remote = d /\ conn'[d].remote = c)
  BY DEF Hush, Fades, Linked
<1>4. QED
  BY <1>1, <1>2, <1>3 DEF Hush, Linked, Fades, Items

\* Every description was there before: where it is now, but for one place in
\* the queue of p, from which the first was taken.
Carried(kind, p) ==
  \A k, x, i : Token(k, x, i)' =>
    i \in Nat /\ Token(k, x, IF k = kind /\ x = p THEN i + 1 ELSE i)

NoToken == \A k, x, i : ~Token(k, x, i)

LEMMA CarriedTokens ==
  ASSUME OneToken, TokenHush, NEW kind, NEW p, Carried(kind, p), Hush => Hush'
  PROVE  /\ OneToken' /\ TokenHush'
         /\ NoToken => NoToken'
<1> DEFINE old(k, x, i) == IF k = kind /\ x = p THEN i + 1 ELSE i
<1>1. ASSUME NEW k, NEW x, NEW i, NEW l, NEW y, NEW j,
             Token(k, x, i)', Token(l, y, j)'
      PROVE  k = l /\ x = y /\ i = j
  <2>1. /\ i \in Nat /\ j \in Nat
        /\ Token(k, x, old(k, x, i)) /\ Token(l, y, old(l, y, j))
    BY <1>1 DEF Carried
  <2>2. k = l /\ x = y /\ old(k, x, i) = old(l, y, j)
    BY <2>1, Zenon DEF OneToken
  <2>3. QED
    BY <2>1, <2>2
<1>2. OneToken'
  BY <1>1, Zenon DEF OneToken
<1>3. ASSUME NEW k, NEW x, NEW i, Token(k, x, i)'
      PROVE  Hush'
  <2>1. Token(k, x, old(k, x, i))
    BY <1>3 DEF Carried
  <2>2. QED
    BY <2>1, Zenon DEF TokenHush
<1>4. TokenHush'
  BY <1>3, Zenon DEF TokenHush
<1>5. NoToken => NoToken'
  BY Zenon DEF NoToken, Carried
<1>6. QED
  BY <1>2, <1>4, <1>5

LEMMA NoTokens ==
  ASSUME NoToken
  PROVE  OneToken /\ TokenHush
BY Zenon DEF NoToken, OneToken, TokenHush

\* A description is nowhere but in this place.
LEMMA TokenAlone ==
  ASSUME OneToken, NEW k, NEW x, NEW i, Token(k, x, i)
  PROVE  \A l, y, j : Token(l, y, j) => l = k /\ y = x /\ j = i
BY Zenon DEF OneToken

LEMMA PutMarks ==
  ASSUME NEW S, NEW queue \in [Clients -> Seq(S)], NEW p \in Clients, NEW g \in S
  PROVE  /\ ~(g.type = "publish" /\ Describes(g.message)) =>
              \A x \in Clients : \A i :
                PublishesAt(Put(queue, p, g), x, i) => PublishesAt(queue, x, i)
         /\ ~Describes(g) =>
              \A x \in Clients : \A i :
                DescribesAt(Put(queue, p, g), x, i) => DescribesAt(queue, x, i)
<1> DEFINE after == Put(queue, p, g)
           n == Len(queue[p])
<1>1. /\ n \in Nat /\ Len(after[p]) = n + 1 /\ after[p][n + 1] = g
      /\ \A i \in 1..n : after[p][i] = queue[p][i]
      /\ \A x \in Clients \ {p} : after[x] = queue[x]
  BY ItemsPut, LenProperties
<1> HIDE DEF after
<1>2. \A i \in 1..(n + 1) : i \in 1..n \/ i = n + 1
  BY <1>1
<1>3. ASSUME ~(g.type = "publish" /\ Describes(g.message)), NEW x \in Clients, NEW i,
             PublishesAt(after, x, i)
      PROVE  PublishesAt(queue, x, i)
  BY <1>1, <1>2, <1>3 DEF PublishesAt
<1>4. ASSUME ~Describes(g), NEW x \in Clients, NEW i, DescribesAt(after, x, i)
      PROVE  DescribesAt(queue, x, i)
  BY <1>1, <1>2, <1>4 DEF DescribesAt
<1>5. QED
  BY <1>3, <1>4 DEF after

\* What a queue holds that it did not hold is what was put there, at its end.
LEMMA PutAdds ==
  ASSUME NEW S, NEW queue \in [Clients -> Seq(S)], NEW p \in Clients, NEW g \in S,
         NEW x \in Clients, NEW i
  PROVE  LET n == Len(queue[p]) + 1 IN
         /\ PublishesAt(Put(queue, p, g), x, i) =>
              PublishesAt(queue, x, i) \/ (x = p /\ i = n)
         /\ DescribesAt(Put(queue, p, g), x, i) =>
              DescribesAt(queue, x, i) \/ (x = p /\ i = n)
<1> DEFINE after == Put(queue, p, g)
           n == Len(queue[p])
<1>1. /\ n \in Nat /\ Len(after[p]) = n + 1
      /\ \A k \in 1..n : after[p][k] = queue[p][k]
      /\ \A y \in Clients \ {p} : after[y] = queue[y]
  BY ItemsPut, LenProperties
<1> HIDE DEF after
<1>2. \A k \in 1..(n + 1) : k \in 1..n \/ k = n + 1
  BY <1>1
<1>3. PublishesAt(after, x, i) => PublishesAt(queue, x, i) \/ (x = p /\ i = n + 1)
  BY <1>1, <1>2 DEF PublishesAt
<1>4. DescribesAt(after, x, i) => DescribesAt(queue, x, i) \/ (x = p /\ i = n + 1)
  BY <1>1, <1>2 DEF DescribesAt
<1>5. QED
  BY <1>3, <1>4 DEF after

LEMMA TakenMarks ==
  ASSUME NEW S, NEW queue \in [Clients -> Seq(S)], NEW p \in Clients,
         queue[p] # <<>>
  PROVE  \A x \in Clients : \A i :
           LET j == IF x = p THEN i + 1 ELSE i
           IN  /\ PublishesAt(Taken(queue, p), x, i) => PublishesAt(queue, x, j)
               /\ DescribesAt(Taken(queue, p), x, i) => DescribesAt(queue, x, j)
<1> DEFINE after == Taken(queue, p)
<1>1. /\ \A i \in 1..Len(after[p]) :
           i + 1 \in 1..Len(queue[p]) /\ after[p][i] = queue[p][i + 1]
      /\ \A x \in Clients \ {p} : after[x] = queue[x]
  BY ItemsTaken
<1> HIDE DEF after
<1>2. ASSUME NEW x \in Clients, NEW i, PublishesAt(after, x, i)
      PROVE  PublishesAt(queue, x, IF x = p THEN i + 1 ELSE i)
  BY <1>1, <1>2 DEF PublishesAt
<1>3. ASSUME NEW x \in Clients, NEW i, DescribesAt(after, x, i)
      PROVE  DescribesAt(queue, x, IF x = p THEN i + 1 ELSE i)
  BY <1>1, <1>3 DEF DescribesAt
<1>4. QED
  BY <1>2, <1>3 DEF after

LEMMA FadesTokens ==
  ASSUME IInv, Fades, NEW kind \in {"none", "posted", "inbox"}, NEW p,
         posted' \in [Clients -> Seq(Event)],
         inbox' \in [Clients -> Seq(Message)],
         \A x \in Clients : \A i :
           /\ PublishesAt(posted', x, i) =>
                PublishesAt(posted, x, IF kind = "posted" /\ x = p THEN i + 1 ELSE i)
           /\ DescribesAt(inbox', x, i) =>
                DescribesAt(inbox, x, IF kind = "inbox" /\ x = p THEN i + 1 ELSE i)
  PROVE  Carried(kind, p)
<1> SUFFICES ASSUME NEW k, NEW x, NEW i, Token(k, x, i)'
             PROVE  i \in Nat /\ Token(k, x, IF k = kind /\ x = p THEN i + 1 ELSE i)
  BY DEF Carried
<1>1. CASE /\ k = "made" /\ x \in Made' /\ i = 0
           /\ conn'[x].phase # "over" /\ ~conn'[x].described
  BY <1>1 DEF Fades, Token
<1>2. CASE /\ k = "posted" /\ x \in Clients /\ Running(x)' /\ PublishesAt(posted', x, i)
  <2>1. Len(posted'[x]) \in Nat
    BY <1>2, LenProperties
  <2>2. i \in Nat
    BY <1>2, <2>1 DEF PublishesAt
  <2>3. QED
    BY <1>2, <2>2 DEF Fades, Token
<1>3. CASE /\ k = "inbox" /\ x \in Clients /\ Running(x)' /\ DescribesAt(inbox', x, i)
  <2>1. Len(inbox'[x]) \in Nat
    BY <1>3, LenProperties
  <2>2. i \in Nat
    BY <1>3, <2>1 DEF DescribesAt
  <2>3. QED
    BY <1>3, <2>2 DEF Fades, Token
<1>4. QED
  BY <1>1, <1>2, <1>3 DEF Token, PublishesAt, DescribesAt

LEMMA FadesShown ==
  ASSUME IInv, Lives, Shown, Fades,
         \A p \in Clients : connected'[p] => connected[p],
         \A p \in Clients : client'[p].target = client[p].target,
         \A p \in Clients : \A e \in Items(posted, p) :
           e.type = "ended" => e \in Items(posted', p),
         \A c \in Made :
           conn'[c].phase # conn[c].phase /\ Running(conn[c].owner)' =>
             EndedLambda(c) \in Items(posted', conn[c].owner)
  PROVE  Shown'
<1> SUFFICES ASSUME NEW p \in Clients, Running(p)', connected'[p],
                    NEW c, c = client'[p].pc
             PROVE  /\ c # 0
                    /\ \/ conn'[c].phase = "connected"
                       \/ conn'[c].phase = "new" /\ conn'[c].role = "callee"
                       \/ /\ client'[p].target # None
                          /\ EndedLambda(c) \in Items(posted', p)
  BY DEF Shown, EndedLambda, Items
<1>1. /\ Running(p) /\ connected[p] /\ c = client[p].pc
      /\ client'[p].target = client[p].target
  BY DEF Fades
<1>2. /\ c # 0
      /\ \/ conn[c].phase = "connected"
         \/ conn[c].phase = "new" /\ conn[c].role = "callee"
         \/ client[p].target # None /\ EndedLambda(c) \in Items(posted, p)
  BY <1>1 DEF Shown
<1>3. c \in Made /\ conn[c].owner = p
  BY <1>1, <1>2, OrderlyTypes
<1>4. EndedLambda(c).type = "ended"
  BY DEF EndedLambda
<1>5. CASE conn'[c].phase = conn[c].phase
  BY <1>1, <1>2, <1>3, <1>4, <1>5 DEF Fades
<1>6. CASE conn'[c].phase # conn[c].phase
  <2>1. EndedLambda(c) \in Items(posted', p)
    BY <1>3, <1>6 DEF Fades, Running
  <2>2. conn[c].phase # "over"
    BY <1>3, <1>6 DEF Fades
  <2>3. QED
    BY <1>1, <1>2, <1>3, <2>1, <2>2 DEF Lives
<1>7. QED
  BY <1>5, <1>6

LEMMA FadesWired ==
  ASSUME IInv, Wired, Fades,
         \A p \in Clients : \A label \in Labels :
           /\ Channel(p, label)' = Channel(p, label)
           /\ IsOpen(p, label)' = IsOpen(p, label),
         \A p \in Clients :
           \/ connected[p] => connected'[p]
           \/ client[p].pc # 0 => conn[client[p].pc].phase = "over",
         \A c \in Made : conn'[c].opened = conn[c].opened,
         \A p \in Clients : \A e \in Items(posted, p) :
           Opens(e) => e \in Items(posted', p)
  PROVE  Wired'
<1> SUFFICES ASSUME NEW p \in Clients, Running(p)',
                    NEW c, c = client'[p].pc, c # 0, conn'[c].phase # "over"
             PROVE  /\ conn'[c].role = "caller" =>
                         \A label \in Labels : Channel(p, label)' = c
                    /\ (\A label \in Labels : IsOpen(p, label)') => connected'[p]
                    /\ conn'[c].opened =>
                         \A label \in Labels :
                           \/ ChannelLambda("channel", c, label) \in Items(posted', p)
                           \/ /\ Channel(p, label)' = c
                              /\ \/ IsOpen(p, label)'
                                 \/ ChannelLambda("open", c, label) \in Items(posted', p)
  BY DEF Wired, ChannelLambda, Items, Channel, IsOpen
<1>1. Running(p) /\ c = client[p].pc /\ c \in Made
  BY OrderlyTypes DEF Fades
<1>2. conn[c].phase # "over" /\ conn'[c].role = conn[c].role
  BY <1>1 DEF Fades
<1>3. /\ conn[c].role = "caller" => \A label \in Labels : Channel(p, label) = c
      /\ (\A label \in Labels : IsOpen(p, label)) => connected[p]
      /\ conn[c].opened =>
           \A label \in Labels :
             \/ ChannelLambda("channel", c, label) \in Items(posted, p)
             \/ /\ Channel(p, label) = c
                /\ \/ IsOpen(p, label)
                   \/ ChannelLambda("open", c, label) \in Items(posted, p)
  BY <1>1, <1>2 DEF Wired
<1>4. \A label : /\ Opens(ChannelLambda("channel", c, label))
                 /\ Opens(ChannelLambda("open", c, label))
  BY DEF Opens, ChannelLambda
<1>5. connected[p] => connected'[p]
  BY <1>1, <1>2
<1> HIDE DEF Channel, IsOpen, ChannelLambda, Items, Opens
<1>6. QED
  BY <1>1, <1>2, <1>3, <1>4, <1>5

LEMMA FadesAnswering ==
  ASSUME IInv, Answering, Fades,
         \A p \in Clients : \A e, f :
           e.type = "publish" /\ f.type = "publish" =>
             /\ e \in Items(posted, p) => e \in Items(posted', p)
             /\ Precedes(posted, p, e, f) => Precedes(posted', p, e, f),
         \A k \in Made : conn'[k].phase # "over" =>
           inbox'[conn[k].owner] = inbox[conn[k].owner],
         \A c \in Made :
           conn'[c].described /\ conn'[c].role = "callee" /\ ~conn[c].described =>
             Precedes(posted', conn[c].owner, Reply(c), Route(c))
  PROVE  Answering'
<1> SUFFICES ASSUME NEW c \in Made,
                    conn'[c].phase = "new", conn'[c].role = "callee",
                    conn'[conn'[c].remote].phase # "over",
                    conn'[conn'[c].remote].remote \in {0, c}
             PROVE  OnTheWay(c)'
  BY DEF Answering, Fades
<1> DEFINE k == conn[c].remote
           p == conn[c].owner
           r == conn[k].owner
<1>1. /\ conn'[c].remote = k /\ k \in Made /\ p \in Clients /\ r \in Clients
      /\ conn'[c].owner = p /\ conn'[k].owner = r /\ conn'[k].remote = conn[k].remote
      /\ conn[c].role = "callee"
  BY OrderlyTypes DEF Fades
<1>2. OnTheWay(c)
  BY <1>1 DEF Answering, Fades
<1>3. /\ Reply(c)' = Reply(c) /\ Route(c)' = Route(c)
      /\ Reply(c).type = "publish" /\ Route(c).type = "publish"
  BY <1>1 DEF Reply, Route, Publication
<1>4. /\ conn[c].described => conn'[c].described
      /\ conn[k].reachable => conn'[k].reachable
  BY <1>1 DEF Fades
<1>5. CASE ~conn[c].described /\ conn'[c].described
  BY <1>1, <1>3, <1>5 DEF OnTheWay
<1>6. CASE ~conn'[c].described
  BY <1>6 DEF OnTheWay
<1>7. CASE conn[c].described /\ conn'[c].described
  <2>1. /\ Precedes(posted, p, Reply(c), Route(c)) =>
             Precedes(posted', p, Reply(c), Route(c))
        /\ Route(c) \in Items(posted, p) => Route(c) \in Items(posted', p)
    BY <1>1, <1>3
  <2>4. /\ Items(inbox', r) = Items(inbox, r)
        /\ Precedes(inbox, r, Reply(c).message, Route(c).message) =>
             Precedes(inbox', r, Reply(c).message, Route(c).message)
    <3>1. inbox'[r] = inbox[r]
      BY <1>1
    <3>2. QED
      BY <3>1 DEF Items, Precedes
  <2>2. \/ Precedes(posted, p, Reply(c), Route(c))
        \/ /\ Reply(c).message \in Items(inbox, r)
           /\ \/ Route(c) \in Items(posted, p)
              \/ Precedes(inbox, r, Reply(c).message, Route(c).message)
        \/ /\ conn[k].remote = c
           /\ \/ Route(c) \in Items(posted, p)
              \/ Route(c).message \in Items(inbox, r)
              \/ conn[k].reachable
    BY <1>2, <1>7 DEF OnTheWay
  <2> SUFFICES
        \/ Precedes(posted', p, Reply(c), Route(c))
        \/ /\ Reply(c).message \in Items(inbox', r)
           /\ \/ Route(c) \in Items(posted', p)
              \/ Precedes(inbox', r, Reply(c).message, Route(c).message)
        \/ /\ conn'[k].remote = c
           /\ \/ Route(c) \in Items(posted', p)
              \/ Route(c).message \in Items(inbox', r)
              \/ conn'[k].reachable
    BY <1>1, <1>3 DEF OnTheWay
  <2>3. QED
    BY <1>1, <1>4, <2>1, <2>2, <2>4
<1>8. QED
  BY <1>5, <1>6, <1>7

LEMMA FadesEnded ==
  ASSUME IInv, EndedAreOver, Fades, posted' \in [Clients -> Seq(Event)],
         \A p \in Clients : \A e \in Items(posted', p) :
           e.type = "ended" =>
             e \in Items(posted, p) \/ conn'[e.conn].phase = "over"
  PROVE  EndedAreOver'
<1> SUFFICES ASSUME NEW p \in Clients, NEW e \in Items(posted', p),
                    e.type = "ended"
             PROVE  conn'[e.conn].phase = "over"
  BY DEF EndedAreOver, Items
<1>1. e \in Event
  BY DEF Items
<1>2. e.conn \in Made' /\ Made' = Made
  BY <1>1 DEF Event, Fades
<1>3. QED
  BY <1>2 DEF EndedAreOver, Fades

-----------------------------------------------------------------------------
(* When nothing is in flight. *)

\* Nothing is under way then: a callee that is still new would have an answer or
\* a candidate that waits, or its two ends could connect.
LEMMA QuietHush ==
  ASSUME OInv, Quiet
  PROVE  /\ NoToken /\ Hush
         /\ \A c \in Made : conn[c].phase = "new" => conn[c].role = "caller"
         /\ \A p \in Clients : Running(p) => posted[p] = <<>> /\ Items(posted, p) = {}
<1>1. DOMAIN conn = Made /\ IInv
  BY OrderlyTypes DEF OInv
<1>2. \A p \in Clients : Running(p) =>
        /\ status[p] = "online" /\ posted[p] = <<>> /\ inbox[p] = <<>>
        /\ Len(posted[p]) = 0 /\ Len(inbox[p]) = 0
        /\ Items(posted, p) = {} /\ Items(inbox, p) = {}
  BY DEF Quiet, Items
<1>3. \A c \in Made : /\ conn[c].phase \in {"new", "connected"} =>
                           conn[c].described /\ ~Severed(c)
                      /\ conn[c].phase = "connected" => conn[c].opened
                      /\ \A d \in Made : ~CanConnect(c, d)
  BY <1>1 DEF Quiet, Busy, Live
<1>4. NoToken
  <2> SUFFICES ASSUME NEW k, NEW x, NEW i, Token(k, x, i) PROVE FALSE
    BY DEF NoToken
  <2>1. CASE k = "made" /\ x \in Made /\ conn[x].phase # "over" /\ ~conn[x].described
    BY <1>1, <1>3, <2>1, OrderlyTypes
  <2>2. CASE k = "posted" /\ x \in Clients /\ Running(x) /\ PublishesAt(posted, x, i)
    BY <1>2, <2>2 DEF PublishesAt
  <2>3. CASE k = "inbox" /\ x \in Clients /\ Running(x) /\ DescribesAt(inbox, x, i)
    BY <1>2, <2>3 DEF DescribesAt
  <2>4. QED
    BY <2>1, <2>2, <2>3 DEF Token
<1>5. ASSUME NEW c \in Made, conn[c].phase = "new", conn[c].role = "callee"
      PROVE  FALSE
  <2> DEFINE k == conn[c].remote
             p == conn[c].owner
             r == conn[k].owner
  <2>1. k \in Made /\ p \in Clients /\ r \in Clients /\ k # 0
    BY <1>1, <1>5, OrderlyTypes DEF Made
  <2>2. conn[k].phase \in Live /\ conn[k].remote \in {0, c} /\ conn[c].described
    BY <1>3, <1>5, <2>1 DEF Severed
  <2>3. conn[k].phase # "over"
    BY <2>2 DEF Live
  <2>4. OnTheWay(c)
    BY <1>5, <2>2, <2>3 DEF OInv, ORest, Answering
  <2>5. Running(p) /\ Running(r)
    BY <1>5, <2>1, <2>3 DEF OInv, ORest, Lives, Running
  <2>6. conn[k].remote = c /\ conn[k].reachable
    <3>1. ~Precedes(posted, p, Reply(c), Route(c))
      BY <1>2, <2>1, <2>5 DEF Precedes
    <3>2. /\ Reply(c).message \notin Items(inbox, r) /\ Route(c) \notin Items(posted, p)
          /\ Route(c).message \notin Items(inbox, r)
      BY <1>2, <2>1, <2>5
    <3>3. QED
      BY <2>2, <2>4, <3>1, <3>2 DEF OnTheWay
  <2>7. conn[k].phase = "new"
    BY <1>5, <2>1, <2>2, <2>6 DEF OInv, ORest, Paired, Live
  <2>8. CanConnect(c, k)
    BY <1>5, <2>6, <2>7 DEF CanConnect, Linked
  <2>9. QED
    BY <1>3, <2>1, <2>8
<1>6. \A c \in Made : conn[c].phase = "new" => conn[c].role = "caller"
  BY <1>1, <1>5, OrderlyTypes
<1>7. \A c, d \in Made :
        conn[c].phase = "new" /\ conn[d].phase = "new" => ~Linked(c, d)
  <2>1. \A c \in Made : c # 0
    BY <1>1, OrderlyTypes DEF Made
  <2>2. QED
    BY <1>6, <2>1 DEF OInv, IInv, Shape, RolesMatch, Linked
<1>8. Hush
  BY <1>2, <1>3, <1>7 DEF Hush
<1>9. QED
  BY <1>2, <1>4, <1>6, <1>8

-----------------------------------------------------------------------------
(* The lambdas and the messages. *)

LEMMA FadesQuietly ==
  ASSUME OInv, UNCHANGED <<client, conn>>,
         \A p \in Clients : Running(p)' => Running(p)
  PROVE  /\ Fades /\ \A c \in Made : Meets(c)' <=> Meets(c)
         /\ \A p \in Clients : \A label \in Labels :
              /\ Channel(p, label)' = Channel(p, label)
              /\ IsOpen(p, label)' = IsOpen(p, label)
BY DEF Fades, Made, Meets, Channel, IsOpen

\* A client that hears from the broker, and a step of something else.
LEMMA OrderlyIdle ==
  ASSUME OInv, UNCHANGED <<client, connected, conn, posted, inbox>>,
         \A p \in Clients : /\ Running(p)' => Running(p)
                            /\ status[p] = "online" => status'[p] = "online"
  PROVE  ORest'
<1>1. IInv /\ Fades /\ OpensLess /\ \A c \in Made : Meets(c) => Meets(c)'
  BY FadesQuietly DEF OInv, OpensLess
<1>2. Lives'
  BY <1>1, OrderlyTypes DEF OInv, ORest, Lives, Fades
<1>3. EndedAreOver'
  BY <1>1, OrderlyTypes, FadesEnded DEF OInv, ORest
<1>4. Paired' /\ Fresh'
  BY <1>1, FadesPaired, FadesFresh DEF OInv, ORest
<1>5. OneToken' /\ TokenHush'
  <2>1. Carried("none", None)
    <3>1. /\ posted' \in [Clients -> Seq(Event)] /\ inbox' \in [Clients -> Seq(Message)]
          /\ \A x \in Clients : \A i :
               /\ PublishesAt(posted', x, i) => PublishesAt(posted, x, i)
               /\ DescribesAt(inbox', x, i) => DescribesAt(inbox, x, i)
      BY <1>1, OrderlyTypes
    <3>2. QED
      BY <1>1, <3>1, FadesTokens
  <2>2. Hush => Hush'
    BY <1>1, FadesHush
  <2>3. QED
    BY <2>1, <2>2, CarriedTokens DEF OInv, ORest
<1>6. Shown'
  BY <1>1, FadesShown DEF OInv, ORest
<1>7. Wired'
  BY <1>1, FadesQuietly, FadesWired DEF OInv, ORest
<1>8. Answering'
  BY <1>1, FadesAnswering DEF OInv, ORest
<1>9. QED
  BY <1>2, <1>3, <1>4, <1>5, <1>6, <1>7, <1>8 DEF ORest

\* The first lambda of p has been handled, and nothing joined a queue.
LEMMA LambdaHandled ==
  ASSUME IInv, Fades, NEW p \in Clients, posted[p] # <<>>,
         posted' = Taken(posted, p), inbox' = inbox
  PROVE  /\ OpensLess /\ posted' \in [Clients -> Seq(Event)]
         /\ Head(posted[p]) \in Event /\ Head(posted[p]) \in Items(posted, p)
         /\ \A x \in Clients : \A e \in Items(posted, x) :
              e \in Items(posted', x) \/ (x = p /\ e = Head(posted[p]))
         /\ \A x \in Clients : \A e \in Items(posted', x) : e \in Items(posted, x)
         /\ Head(posted[p]).type # "publish" =>
              \A x \in Clients : \A e, f :
                e.type = "publish" /\ f.type = "publish" =>
                  /\ e \in Items(posted, x) => e \in Items(posted', x)
                  /\ Precedes(posted, x, e, f) => Precedes(posted', x, e, f)
         /\ Carried("posted", p)
<1>1. posted \in [Clients -> Seq(Event)] /\ inbox \in [Clients -> Seq(Message)]
  BY OrderlyTypes
<1>2. /\ posted' \in [Clients -> Seq(Event)] /\ Head(posted[p]) \in Event
      /\ Items(posted, p) = Items(posted', p) \cup {Head(posted[p])}
      /\ \A x \in Clients \ {p} : Items(posted', x) = Items(posted, x)
      /\ \A e, f : \A x \in Clients :
           Precedes(posted, x, e, f) =>
             Precedes(posted', x, e, f) \/ Head(posted[p]) = e
  BY <1>1, ItemsTaken
<1>3. Carried("posted", p)
  <2>1. \A x \in Clients : \A i :
          /\ PublishesAt(posted', x, i) =>
               PublishesAt(posted, x, IF x = p THEN i + 1 ELSE i)
          /\ DescribesAt(inbox', x, i) => DescribesAt(inbox, x, i)
    BY <1>1, TakenMarks
  <2>2. QED
    BY <1>1, <1>2, <2>1, FadesTokens
<1>4. OpensLess
  BY <1>2 DEF OpensLess
<1>5. \A x \in Clients : \A e \in Items(posted, x) :
        e \in Items(posted', x) \/ (x = p /\ e = Head(posted[p]))
  <2>1. \A x \in Clients : x = p \/ x \in Clients \ {p}
    OBVIOUS
  <2>2. \A e \in Items(posted, p) : e \in Items(posted', p) \/ e = Head(posted[p])
    BY <1>2
  <2>3. QED
    BY <1>2, <2>1, <2>2, Zenon
<1>6. \A x \in Clients : \A e \in Items(posted', x) : e \in Items(posted, x)
  BY <1>2
<1>7. ASSUME Head(posted[p]).type # "publish", NEW x \in Clients, NEW e, NEW f,
             e.type = "publish", f.type = "publish"
      PROVE  /\ e \in Items(posted, x) => e \in Items(posted', x)
             /\ Precedes(posted, x, e, f) => Precedes(posted', x, e, f)
  BY <1>2, <1>5, <1>7
<1>8. QED
  BY <1>2, <1>3, <1>4, <1>5, <1>6, <1>7

LEMMA OrderlyOnStateChange ==
  ASSUME OInv, NEW p \in Clients, OnStateChange(p)
  PROVE  ORest'
<1> DEFINE e == Head(posted[p])
           reported == client[p].pc = e.conn /\ client[p].target # None
<1>1. /\ IInv /\ posted[p] # <<>> /\ e.type = "ended" /\ Running(p)
      /\ posted' = Taken(posted, p) /\ UNCHANGED <<status, conn, inbox>>
  BY DEF OnStateChange, Handles, OInv
<1>2. /\ client' = [client EXCEPT ![p].target = IF reported THEN None ELSE @]
      /\ connected' = [connected EXCEPT ![p] = @ /\ ~reported]
  BY DEF OnStateChange
<1>3. /\ client \in [Clients -> Client] /\ connected \in [Clients -> BOOLEAN]
      /\ posted \in [Clients -> Seq(Event)] /\ inbox \in [Clients -> Seq(Message)]
  BY <1>1, OrderlyTypes DEF IInv, Scalars
<1>4. \A x \in Clients :
        /\ client'[x].pc = client[x].pc
        /\ client'[x].control = client[x].control
        /\ client'[x].binary = client[x].binary
        /\ client'[x].controlOpen = client[x].controlOpen
        /\ client'[x].binaryOpen = client[x].binaryOpen
        /\ (x # p \/ ~reported) =>
             client'[x].target = client[x].target /\ connected'[x] = connected[x]
        /\ x = p /\ reported => ~connected'[x]
  BY <1>2, <1>3 DEF Client
<1> HIDE DEF reported
<1>5. Fades /\ \A c \in Made : Meets(c) => Meets(c)'
  BY <1>1, <1>4 DEF Fades, Made, Meets, Running
<1>6. /\ OpensLess /\ posted' \in [Clients -> Seq(Event)] /\ e \in Items(posted, p)
      /\ e \in Event
      /\ \A x \in Clients : \A f \in Items(posted, x) :
           f \in Items(posted', x) \/ (x = p /\ f = e)
      /\ \A x \in Clients : \A f \in Items(posted', x) : f \in Items(posted, x)
      /\ \A x \in Clients : \A f, g :
           f.type = "publish" /\ g.type = "publish" =>
             /\ f \in Items(posted, x) => f \in Items(posted', x)
             /\ Precedes(posted, x, f, g) => Precedes(posted', x, f, g)
      /\ Carried("posted", p)
  BY <1>1, <1>5, LambdaHandled
<1>7. conn[e.conn].phase = "over" /\ e.conn \in Made /\ e = EndedLambda(e.conn)
  <2>1. e \in [type : {"ended"}, conn : Made]
    BY <1>1, <1>6 DEF Event
  <2>2. QED
    BY <1>1, <1>6, <2>1 DEF OInv, ORest, EndedAreOver, EndedLambda
<1>8. reported => client[p].pc # 0 /\ conn[client[p].pc].phase = "over"
  BY <1>7 DEF reported, Made
<1>9. Lives'
  <2> SUFFICES ASSUME NEW c \in Made, conn[c].phase # "over"
               PROVE  status[conn[c].owner] = "online" /\ client'[conn[c].owner].target # None
    BY <1>1, <1>5 DEF Lives, Fades
  <2>1. client[conn[c].owner].pc = c /\ conn[c].owner \in Clients
    BY <1>1, OrderlyTypes
  <2>2. conn[c].owner # p \/ ~reported
    BY <1>8, <2>1
  <2>3. QED
    BY <1>4, <2>1, <2>2 DEF OInv, ORest, Lives
<1>10. EndedAreOver' /\ Paired' /\ Fresh'
  BY <1>1, <1>5, <1>6, FadesEnded, FadesPaired, FadesFresh DEF OInv, ORest
<1>11. OneToken' /\ TokenHush'
  BY <1>5, <1>6, FadesHush, CarriedTokens DEF OInv, ORest
<1>12. Shown'
  <2> SUFFICES ASSUME NEW x \in Clients, Running(x), connected'[x],
                      NEW c, c = client[x].pc
               PROVE  /\ c # 0
                      /\ \/ conn[c].phase = "connected"
                         \/ conn[c].phase = "new" /\ conn[c].role = "callee"
                         \/ /\ client'[x].target # None
                            /\ EndedLambda(c) \in Items(posted', x)
    BY <1>1, <1>4 DEF Shown, Running, EndedLambda, Items
  <2>1. x # p \/ ~reported
    BY <1>4
  <2>2. connected[x] /\ client'[x].target = client[x].target
    BY <1>4, <2>1
  <2>3. /\ c # 0
        /\ \/ conn[c].phase = "connected"
           \/ conn[c].phase = "new" /\ conn[c].role = "callee"
           \/ client[x].target # None /\ EndedLambda(c) \in Items(posted, x)
    BY <2>2 DEF OInv, ORest, Shown
  <2>4. ASSUME client[x].target # None, EndedLambda(c) \in Items(posted, x)
        PROVE  EndedLambda(c) \in Items(posted', x)
    <3>1. CASE x = p /\ EndedLambda(c) = e
      <4>1. c = e.conn
        BY <3>1 DEF EndedLambda
      <4>2. QED
        BY <2>1, <2>4, <3>1, <4>1 DEF reported
    <3>2. QED
      BY <1>6, <2>4, <3>1
  <2>5. QED
    BY <2>2, <2>3, <2>4
<1>13. Wired'
  <2>1. \A x \in Clients : \A label \in Labels :
          /\ Channel(x, label)' = Channel(x, label)
          /\ IsOpen(x, label)' = IsOpen(x, label)
    BY <1>4 DEF Channel, IsOpen
  <2>2. \A x \in Clients :
          \/ connected[x] => connected'[x]
          \/ client[x].pc # 0 => conn[client[x].pc].phase = "over"
    BY <1>4, <1>8
  <2>3. \A x \in Clients : \A f \in Items(posted, x) :
          Opens(f) => f \in Items(posted', x)
    BY <1>1, <1>6 DEF Opens
  <2>4. QED
    BY <1>1, <1>5, <2>1, <2>2, <2>3, FadesWired DEF OInv, ORest
<1>14. Answering'
  BY <1>1, <1>5, <1>6, FadesAnswering DEF OInv, ORest
<1>15. QED
  BY <1>9, <1>10, <1>11, <1>12, <1>13, <1>14 DEF ORest

\* A lambda of a channel runs when no description is anywhere, and is one of
\* the connection its client holds, which is up at both ends.
LEMMA ChannelLambdas ==
  ASSUME OInv, NEW p \in Clients, Running(p), NEW e \in Items(posted, p), Opens(e)
  PROVE  /\ e.conn \in Made /\ e.label \in Labels
         /\ e = ChannelLambda(e.type, e.conn, e.label)
         /\ client[p].pc = e.conn /\ conn[e.conn].opened /\ Meets(e.conn)
         /\ ~Hush /\ NoToken
<1>1. e \in Event
  BY OrderlyTypes DEF OInv, Items
<1>2. e \in [type : {"channel", "open"}, conn : Made, label : Labels]
  BY <1>1 DEF Event, Opens
<1>3. ~Hush
  BY DEF Hush
<1>4. NoToken
  BY <1>3 DEF OInv, ORest, TokenHush, NoToken
<1>5. client[p].pc = e.conn /\ conn[e.conn].opened /\ Meets(e.conn)
  BY DEF OInv, ORest, Fresh
<1>6. QED
  BY <1>2, <1>3, <1>4, <1>5 DEF ChannelLambda

LEMMA OrderlyAssignChannel ==
  ASSUME OInv, NEW p \in Clients, AssignChannel(p)
  PROVE  ORest'
<1> DEFINE e == Head(posted[p])
           c == e.conn
           open == [type |-> "open", conn |-> c, label |-> e.label]
           rest == Taken(posted, p)
<1>1. /\ IInv /\ posted[p] # <<>> /\ e.type = "channel" /\ Running(p)
      /\ UNCHANGED <<connected, status, conn, inbox>>
      /\ client' = [client EXCEPT ![p] = Assigned(@, c, e.label)]
      /\ \/ posted' = Put(rest, p, open)
         \/ conn[c].phase \notin Live
  BY DEF AssignChannel, Handles, OInv
<1>2. /\ client \in [Clients -> Client]
      /\ posted \in [Clients -> Seq(Event)] /\ inbox \in [Clients -> Seq(Message)]
  BY <1>1, OrderlyTypes
<1>3. /\ rest \in [Clients -> Seq(Event)]
      /\ Items(posted, p) = Items(rest, p) \cup {e}
      /\ \A x \in Clients \ {p} : Items(rest, x) = Items(posted, x)
      /\ \A f, g : \A x \in Clients :
           Precedes(posted, x, f, g) => Precedes(rest, x, f, g) \/ e = f
  <2>1. posted[p] # <<>> /\ posted \in [Clients -> Seq(Event)]
    BY <1>1, <1>2
  <2>2. QED
    BY <2>1, ItemsTaken
<1>4. /\ c \in Made /\ e.label \in Labels
      /\ e = ChannelLambda("channel", c, e.label)
      /\ client[p].pc = c /\ conn[c].opened /\ Meets(c)
      /\ ~Hush /\ NoToken
  BY <1>1, <1>3, ChannelLambdas DEF Opens
<1>5. open \in Event /\ open = ChannelLambda("open", c, e.label)
  BY <1>4 DEF Event, ChannelLambda
<1>6. posted' = Put(rest, p, open)
  BY <1>1, <1>4 DEF Meets, Live
<1> HIDE DEF rest, open, e
<1>7. /\ posted' \in [Clients -> Seq(Event)]
      /\ Items(posted', p) = Items(rest, p) \cup {open}
      /\ \A x \in Clients \ {p} : Items(posted', x) = Items(rest, x)
      /\ \A f, g : \A x \in Clients :
           Precedes(rest, x, f, g) => Precedes(posted', x, f, g)
  BY <1>3, <1>5, <1>6, ItemsPut
<1>8. /\ Items(posted', p) \cup {e} = Items(posted, p) \cup {open}
      /\ \A x \in Clients \ {p} : Items(posted', x) = Items(posted, x)
  BY <1>3, <1>7
<1>9. \A x \in Clients : /\ client'[x].pc = client[x].pc
                         /\ client'[x].target = client[x].target
                         /\ IsOpen(x, "control")' = IsOpen(x, "control")
                         /\ IsOpen(x, "binary")' = IsOpen(x, "binary")
                         /\ x # p => client'[x] = client[x]
  BY <1>1, <1>2 DEF Assigned, IsOpen, Client
<1>10. \A label \in Labels :
         Channel(p, label)' = IF label = e.label THEN c ELSE Channel(p, label)
  BY <1>1, <1>2, <1>4 DEF Assigned, Channel, Client, Labels
<1>11. Fades /\ \A d \in Made : Meets(d)' <=> Meets(d)
  BY <1>1, <1>9 DEF Fades, Made, Meets, Running
<1>12. open.type = "open" /\ open.conn = c
  BY <1>5 DEF ChannelLambda
<1>13. Lives' /\ Paired'
  BY <1>1, <1>9, <1>11, FadesPaired, OrderlyTypes DEF OInv, ORest, Lives, Fades
<1>14. EndedAreOver'
  <2>1. \A x \in Clients : \A f \in Items(posted', x) :
          f.type = "ended" => f \in Items(posted, x)
    BY <1>8, <1>12
  <2>2. QED
    BY <1>1, <1>7, <1>11, <2>1, FadesEnded DEF OInv, ORest
<1>15. Fresh'
  <2>1. ASSUME NEW x \in Clients, Running(x)', NEW f \in Items(posted', x), Opens(f)
        PROVE  client'[x].pc = f.conn /\ conn'[f.conn].opened /\ Meets(f.conn)'
    <3>1. CASE x = p /\ f = open
      BY <1>1, <1>4, <1>9, <1>11, <1>12, <3>1
    <3>2. CASE f \in Items(posted, x)
      <4>1. f.conn \in Made /\ client[x].pc = f.conn /\ conn[f.conn].opened /\ Meets(f.conn)
        BY <1>11, <2>1, <3>2, ChannelLambdas DEF Fades
      <4>2. QED
        BY <1>1, <1>9, <1>11, <4>1
    <3>3. QED
      BY <1>8, <2>1, <3>1, <3>2
  <2>2. \A d \in Made : conn'[d].phase = "connected" /\ ~conn'[d].opened => Meets(d)'
    BY <1>1, <1>11 DEF OInv, ORest, Fresh
  <2>3. QED
    BY <1>11, <2>1, <2>2 DEF Fresh, Fades, Items
<1>16. OneToken' /\ TokenHush'
  <2>1. \A x \in Clients : \A i :
          /\ PublishesAt(posted', x, i) =>
               PublishesAt(posted, x, IF x = p THEN i + 1 ELSE i)
          /\ DescribesAt(inbox', x, i) => DescribesAt(inbox, x, i)
    <3>1. \A x \in Clients : \A i :
            PublishesAt(rest, x, i) => PublishesAt(posted, x, IF x = p THEN i + 1 ELSE i)
      BY <1>1, <1>2, TakenMarks DEF rest
    <3>2. \A x \in Clients : \A i :
            PublishesAt(posted', x, i) => PublishesAt(rest, x, i)
      <4>1. ~(open.type = "publish" /\ Describes(open.message))
        BY <1>12
      <4>2. \A x \in Clients : \A i :
              PublishesAt(Put(rest, p, open), x, i) => PublishesAt(rest, x, i)
        BY <1>3, <1>5, <4>1, PutMarks
      <4>3. QED
        BY <1>6, <4>2, Zenon
    <3>3. QED
      BY <1>1, <3>1, <3>2
  <2>2. Carried("posted", p)
    BY <1>1, <1>2, <1>7, <1>11, <2>1, FadesTokens
  <2>3. QED
    BY <1>4, <2>2, CarriedTokens DEF OInv, ORest
<1>17. Shown'
  <2>1. \A x \in Clients : \A f \in Items(posted, x) :
          f.type = "ended" => f \in Items(posted', x)
    BY <1>1, <1>8
  <2>2. QED
    BY <1>1, <1>9, <1>11, <2>1, FadesShown DEF OInv, ORest
<1>18. Wired'
  <2> SUFFICES ASSUME NEW x \in Clients, Running(x),
                      NEW d, d = client[x].pc, d # 0, conn[d].phase # "over"
               PROVE  /\ conn[d].role = "caller" =>
                           \A label \in Labels : Channel(x, label)' = d
                      /\ (\A label \in Labels : IsOpen(x, label)') => connected[x]
                      /\ conn[d].opened =>
                           \A label \in Labels :
                             \/ ChannelLambda("channel", d, label) \in Items(posted', x)
                             \/ /\ Channel(x, label)' = d
                                /\ \/ IsOpen(x, label)'
                                   \/ ChannelLambda("open", d, label) \in Items(posted', x)
    BY <1>1, <1>9 DEF Wired, Running, ChannelLambda, Items, Channel, IsOpen
  <2>1. /\ conn[d].role = "caller" => \A label \in Labels : Channel(x, label) = d
        /\ (\A label \in Labels : IsOpen(x, label)) => connected[x]
        /\ conn[d].opened =>
             \A label \in Labels :
               \/ ChannelLambda("channel", d, label) \in Items(posted, x)
               \/ /\ Channel(x, label) = d
                  /\ \/ IsOpen(x, label)
                     \/ ChannelLambda("open", d, label) \in Items(posted, x)
    BY DEF OInv, ORest, Wired
  <2>2. \A label \in Labels : IsOpen(x, label)' = IsOpen(x, label)
    BY <1>9 DEF Labels
  <2>3. CASE x # p
    <3>1. \A label \in Labels : Channel(x, label)' = Channel(x, label)
      BY <1>9, <2>3 DEF Channel
    <3>2. Items(posted', x) = Items(posted, x)
      BY <1>8, <2>3
    <3>3. QED
      BY <2>1, <2>2, <3>1, <3>2
  <2>4. CASE x = p
    <3>1. d = c
      BY <1>4, <2>4
    <3>2. \A label \in Labels :
            /\ ChannelLambda("channel", c, label) \in Items(posted, p) =>
                 \/ ChannelLambda("channel", c, label) \in Items(posted', p)
                 \/ label = e.label
            /\ ChannelLambda("open", c, label) \in Items(posted, p) =>
                 ChannelLambda("open", c, label) \in Items(posted', p)
      BY <1>4, <1>8 DEF ChannelLambda
    <3>3. ChannelLambda("open", c, e.label) \in Items(posted', p)
      BY <1>5, <1>7
    <3>4. QED
      BY <1>10, <2>1, <2>2, <2>4, <3>1, <3>2, <3>3
  <2>5. QED
    BY <2>3, <2>4
<1>19. Answering'
  <2>1. \A x \in Clients : \A f, g :
          f.type = "publish" /\ g.type = "publish" =>
            /\ f \in Items(posted, x) => f \in Items(posted', x)
            /\ Precedes(posted, x, f, g) => Precedes(posted', x, f, g)
    <3>1. \A x \in Clients : \A f, g :
            f.type = "publish" /\ Precedes(posted, x, f, g) => Precedes(posted', x, f, g)
      BY <1>1, <1>3, <1>7
    <3>2. \A x \in Clients : \A f \in Items(posted, x) :
            f.type = "publish" => f \in Items(posted', x)
      BY <1>1, <1>8
    <3>3. QED
      BY <3>1, <3>2
  <2>2. QED
    BY <1>1, <1>11, <2>1, FadesAnswering DEF OInv, ORest
<1>20. QED
  BY <1>13, <1>14, <1>15, <1>16, <1>17, <1>18, <1>19 DEF ORest

LEMMA OrderlyOnOpen ==
  ASSUME OInv, NEW p \in Clients, OnOpen(p)
  PROVE  ORest'
<1> DEFINE e == Head(posted[p])
           c == e.conn
<1>1. /\ IInv /\ posted[p] # <<>> /\ e.type = "open" /\ Running(p)
      /\ posted' = Taken(posted, p) /\ UNCHANGED <<status, conn, inbox>>
  BY DEF OnOpen, ConnectionReady, Handles, OInv
<1>2. /\ client \in [Clients -> Client] /\ connected \in [Clients -> BOOLEAN]
      /\ posted \in [Clients -> Seq(Event)]
  BY <1>1, OrderlyTypes DEF IInv, Scalars
<1>3. e \in Items(posted, p)
  BY <1>1, <1>2, ItemsTaken
<1>4. /\ c \in Made /\ e.label \in Labels
      /\ e = ChannelLambda("open", c, e.label)
      /\ client[p].pc = c /\ conn[c].opened /\ Meets(c) /\ NoToken
  BY <1>1, <1>3, ChannelLambdas DEF Opens
<1> DEFINE m == [client[p] EXCEPT !.controlOpen = @ \/ e.label = "control",
                                  !.binaryOpen = @ \/ e.label = "binary"]
<1>5. /\ client' = [client EXCEPT ![p] = m]
      /\ connected' = [connected EXCEPT ![p] = @ \/ (m.controlOpen /\ m.binaryOpen)]
  BY DEF OnOpen, ConnectionReady
<1>6. /\ m.pc = client[p].pc /\ m.target = client[p].target
      /\ m.control = client[p].control /\ m.binary = client[p].binary
      /\ client[p].controlOpen => m.controlOpen
      /\ client[p].binaryOpen => m.binaryOpen
      /\ e.label = "control" => m.controlOpen
      /\ e.label = "binary" => m.binaryOpen
  BY <1>2 DEF Client
<1> HIDE DEF m, e
<1>7. /\ client'[p] = m /\ \A x \in Clients \ {p} : client'[x] = client[x]
      /\ connected'[p] <=> connected[p] \/ (m.controlOpen /\ m.binaryOpen)
      /\ \A x \in Clients \ {p} : connected'[x] = connected[x]
  BY <1>2, <1>5
<1>8. /\ \A label \in Labels : IsOpen(p, label) => IsOpen(p, label)'
      /\ \A label \in Labels : label = e.label => IsOpen(p, label)'
      /\ (\A label \in Labels : IsOpen(p, label)') => connected'[p]
      /\ \A label \in Labels : Channel(p, label)' = Channel(p, label)
  <2>1. /\ IsOpen(p, "control")' <=> m.controlOpen
        /\ IsOpen(p, "binary")' <=> m.binaryOpen
        /\ IsOpen(p, "control") <=> client[p].controlOpen
        /\ IsOpen(p, "binary") <=> client[p].binaryOpen
    BY <1>7 DEF IsOpen
  <2>2. \A label \in Labels : Channel(p, label)' = Channel(p, label)
    BY <1>6, <1>7 DEF Channel
  <2>3. \A label \in Labels : label = "control" \/ label = "binary"
    BY DEF Labels
  <2>4. \A label \in Labels : IsOpen(p, label) => IsOpen(p, label)'
    BY <1>6, <2>1, <2>3, Zenon
  <2>5. \A label \in Labels : label = e.label => IsOpen(p, label)'
    BY <1>4, <1>6, <2>1, <2>3, Zenon
  <2>6. (\A label \in Labels : IsOpen(p, label)') => connected'[p]
    <3>1. "control" \in Labels /\ "binary" \in Labels
      BY DEF Labels
    <3>2. QED
      BY <1>7, <2>1, <3>1, Zenon
  <2>7. QED
    BY <2>2, <2>4, <2>5, <2>6, Zenon
<1>9. \A x \in Clients :
        /\ client'[x].pc = client[x].pc
        /\ client'[x].target = client[x].target
        /\ \A label \in Labels :
             /\ Channel(x, label)' = Channel(x, label)
             /\ x # p => IsOpen(x, label)' = IsOpen(x, label)
        /\ x # p => connected'[x] = connected[x]
  BY <1>6, <1>7, <1>8 DEF Channel, IsOpen
<1>10. Fades /\ \A d \in Made : Meets(d) => Meets(d)'
  BY <1>1, <1>9 DEF Fades, Made, Meets, Running
<1>11. /\ OpensLess /\ posted' \in [Clients -> Seq(Event)]
       /\ \A x \in Clients : \A f \in Items(posted, x) :
            f \in Items(posted', x) \/ (x = p /\ f = e)
       /\ \A x \in Clients : \A f \in Items(posted', x) : f \in Items(posted, x)
       /\ \A x \in Clients : \A f, g :
            f.type = "publish" /\ g.type = "publish" =>
              /\ f \in Items(posted, x) => f \in Items(posted', x)
              /\ Precedes(posted, x, f, g) => Precedes(posted', x, f, g)
       /\ Carried("posted", p)
  BY <1>1, <1>10, LambdaHandled DEF e
<1>12. Lives'
  BY <1>1, <1>9, <1>10, OrderlyTypes DEF OInv, ORest, Lives, Fades
<1>13. EndedAreOver' /\ Paired' /\ Fresh'
  BY <1>1, <1>10, <1>11, FadesEnded, FadesPaired, FadesFresh DEF OInv, ORest
<1>14. OneToken' /\ TokenHush'
  BY <1>10, <1>11, FadesHush, CarriedTokens DEF OInv, ORest
<1>15. Shown'
  <2> SUFFICES ASSUME NEW x \in Clients, Running(x), connected'[x],
                      NEW d, d = client[x].pc
               PROVE  /\ d # 0
                      /\ \/ conn[d].phase = "connected"
                         \/ conn[d].phase = "new" /\ conn[d].role = "callee"
                         \/ /\ client[x].target # None
                            /\ EndedLambda(d) \in Items(posted', x)
    BY <1>1, <1>9 DEF Shown, Running, EndedLambda, Items
  <2>1. CASE x = p
    <3>1. c # 0
      BY <1>4 DEF Made
    <3>2. QED
      BY <1>4, <2>1, <3>1 DEF Meets
  <2>2. CASE x # p
    <3>1. connected[x]
      BY <1>9, <2>2
    <3>2. EndedLambda(d) \in Items(posted, x) => EndedLambda(d) \in Items(posted', x)
      BY <1>11, <2>2
    <3>3. QED
      BY <3>1, <3>2 DEF OInv, ORest, Shown
  <2>3. QED
    BY <2>1, <2>2
<1>16. Wired'
  <2> SUFFICES ASSUME NEW x \in Clients, Running(x),
                      NEW d, d = client[x].pc, d # 0, conn[d].phase # "over"
               PROVE  /\ conn[d].role = "caller" =>
                           \A label \in Labels : Channel(x, label) = d
                      /\ (\A label \in Labels : IsOpen(x, label)') => connected'[x]
                      /\ conn[d].opened =>
                           \A label \in Labels :
                             \/ ChannelLambda("channel", d, label) \in Items(posted', x)
                             \/ /\ Channel(x, label) = d
                                /\ \/ IsOpen(x, label)'
                                   \/ ChannelLambda("open", d, label) \in Items(posted', x)
    BY <1>1, <1>9 DEF Wired, Running, ChannelLambda, Items
  <2>1. /\ conn[d].role = "caller" => \A label \in Labels : Channel(x, label) = d
        /\ (\A label \in Labels : IsOpen(x, label)) => connected[x]
        /\ conn[d].opened =>
             \A label \in Labels :
               \/ ChannelLambda("channel", d, label) \in Items(posted, x)
               \/ /\ Channel(x, label) = d
                  /\ \/ IsOpen(x, label)
                     \/ ChannelLambda("open", d, label) \in Items(posted, x)
    BY DEF OInv, ORest, Wired
  <2>2. \A label :
          /\ ChannelLambda("channel", d, label) \in Items(posted, x) =>
               ChannelLambda("channel", d, label) \in Items(posted', x)
          /\ ChannelLambda("open", d, label) \in Items(posted, x) =>
               \/ ChannelLambda("open", d, label) \in Items(posted', x)
               \/ x = p /\ label = e.label
    BY <1>1, <1>11 DEF ChannelLambda
  <2>3. CASE x # p
    BY <1>9, <2>1, <2>2, <2>3
  <2>4. CASE x = p
    <3>1. /\ \A label \in Labels : IsOpen(x, label) => IsOpen(x, label)'
          /\ \A label \in Labels : label = e.label => IsOpen(x, label)'
          /\ (\A label \in Labels : IsOpen(x, label)') => connected'[x]
      BY <1>8, <2>4, Zenon
    <3>2. QED
      BY <2>1, <2>2, <2>4, <3>1, Zenon
  <2>5. QED
    BY <2>3, <2>4
<1>17. Answering'
  BY <1>1, <1>10, <1>11, FadesAnswering DEF OInv, ORest
<1>18. QED
  BY <1>12, <1>13, <1>14, <1>15, <1>16, <1>17 DEF ORest

\* The first message of p has been taken, and nothing else has moved.
LEMMA MessageTaken ==
  ASSUME IInv, Fades, NEW p \in Clients, inbox[p] # <<>>,
         inbox' = Taken(inbox, p), posted' = posted
  PROVE  /\ OpensLess /\ posted' \in [Clients -> Seq(Event)]
         /\ inbox' \in [Clients -> Seq(Message)]
         /\ Head(inbox[p]) \in Message /\ Head(inbox[p]) = inbox[p][1]
         /\ 1 \in 1..Len(inbox[p])
         /\ \A x \in Clients : x # p => inbox'[x] = inbox[x]
         /\ \A f \in Items(inbox, p) : f \in Items(inbox', p) \/ f = Head(inbox[p])
         /\ \A x \in Clients : \A e, f :
              Precedes(inbox, x, e, f) =>
                \/ Precedes(inbox', x, e, f)
                \/ x = p /\ Head(inbox[p]) = e /\ f \in Items(inbox', p)
         /\ Carried("inbox", p)
<1>1. posted \in [Clients -> Seq(Event)] /\ inbox \in [Clients -> Seq(Message)]
  BY OrderlyTypes
<1>2. /\ inbox' \in [Clients -> Seq(Message)] /\ Head(inbox[p]) \in Message
      /\ Head(inbox[p]) = inbox[p][1]
      /\ Len(inbox[p]) \in Nat /\ Len(inbox[p]) > 0
      /\ Items(inbox, p) = Items(inbox', p) \cup {Head(inbox[p])}
      /\ \A x \in Clients \ {p} : inbox'[x] = inbox[x]
      /\ \A e, f : \A x \in Clients :
           Precedes(inbox, x, e, f) =>
             \/ Precedes(inbox', x, e, f)
             \/ x = p /\ Head(inbox[p]) = e /\ f \in Items(inbox', p)
  BY <1>1, ItemsTaken, SMTT(20)
<1>3. Carried("inbox", p)
  <2>1. \A x \in Clients : \A i :
          /\ PublishesAt(posted', x, i) => PublishesAt(posted, x, i)
          /\ DescribesAt(inbox', x, i) =>
               DescribesAt(inbox, x, IF x = p THEN i + 1 ELSE i)
    BY <1>1, TakenMarks
  <2>2. posted' \in [Clients -> Seq(Event)] /\ inbox' \in [Clients -> Seq(Message)]
    BY <1>1, <1>2
  <2>3. QED
    BY <2>1, <2>2, FadesTokens
<1>4. 1 \in 1..Len(inbox[p])
  BY <1>2
<1>5. \A f \in Items(inbox, p) : f \in Items(inbox', p) \/ f = Head(inbox[p])
  BY <1>2
<1>6. QED
  BY <1>1, <1>2, <1>3, <1>4, <1>5 DEF OpensLess

\* A connection that is up names, in its client, the one its client holds; so
\* does the connection it answers.
LEMMA CalleeTarget ==
  ASSUME IInv, Lives, NEW c \in Made, conn[c].role = "callee",
         conn[c].phase # "over", conn[conn[c].remote].phase # "over"
  PROVE  LET k == conn[c].remote
             p == conn[c].owner
             r == conn[k].owner
         IN  /\ k \in Made /\ p \in Clients /\ r \in Clients
             /\ client[p].pc = c /\ client[r].pc = k
             /\ client[p].target = r
             /\ status[p] = "online" /\ status[r] = "online"
<1>1. /\ conn[c].remote \in Made /\ conn[c].owner \in Clients
      /\ conn[conn[c].remote].owner \in Clients
  BY OrderlyTypes
<1>2. /\ client[conn[c].owner].pc = c
      /\ client[conn[conn[c].remote].owner].pc = conn[c].remote
  BY <1>1, OrderlyTypes
<1>3. /\ status[conn[c].owner] = "online" /\ client[conn[c].owner].target # None
      /\ status[conn[conn[c].remote].owner] = "online"
  BY <1>1 DEF Lives
<1>4. client[conn[c].owner].target = conn[conn[c].remote].owner
  BY <1>2, <1>3 DEF IInv, Shape, TargetsMatch, Current, Target
<1>5. QED
  BY <1>1, <1>2, <1>3, <1>4

LEMMA OrderlyReceiveCandidate ==
  ASSUME OInv, NEW p \in Clients, ReceiveCandidate(p)
  PROVE  ORest'
<1> DEFINE h == client[p].pc
           m == Head(inbox[p])
<1>1. /\ IInv /\ inbox[p] # <<>> /\ m.type = "candidate"
      /\ inbox' = Taken(inbox, p)
      /\ UNCHANGED <<client, connected, status, posted>>
      /\ conn' = IF h # 0 /\ conn[h].remote = m.conn
                 THEN [conn EXCEPT ![h].reachable = TRUE] ELSE conn
  BY DEF ReceiveCandidate, Receives, OInv
<1>2. /\ Made' = Made
      /\ \A c \in Made :
           /\ conn'[c].owner = conn[c].owner /\ conn'[c].role = conn[c].role
           /\ conn'[c].remote = conn[c].remote /\ conn'[c].awaiting = conn[c].awaiting
           /\ conn'[c].phase = conn[c].phase /\ conn'[c].opened = conn[c].opened
           /\ conn'[c].described = conn[c].described
           /\ conn[c].reachable => conn'[c].reachable
      /\ h # 0 /\ conn[h].remote = m.conn => conn'[h].reachable
  <2>1. CASE ~(h # 0 /\ conn[h].remote = m.conn)
    <3>1. conn' = conn
      BY <1>1, <2>1
    <3>2. QED
      BY <2>1, <3>1 DEF Made
  <2>2. CASE h # 0 /\ conn[h].remote = m.conn
    <3> DEFINE r == [conn[h] EXCEPT !.reachable = TRUE]
    <3>1. h \in Made /\ conn[h] \in Connection
      BY <1>1, <2>2, OrderlyTypes
    <3>2. /\ r \in Connection /\ r.owner = conn[h].owner /\ r.role = conn[h].role
          /\ r.remote = conn[h].remote /\ r.awaiting = conn[h].awaiting
          /\ r.phase = conn[h].phase /\ r.opened = conn[h].opened
          /\ r.described = conn[h].described /\ r.reachable
      BY <3>1 DEF Connection
    <3>3. conn' = [conn EXCEPT ![h] = r]
      BY <1>1, <2>2
    <3>6. conn \in Seq(Connection)
      BY <1>1 DEF IInv, Shape
    <3> HIDE DEF r, h
    <3>4. /\ Len(conn') = Len(conn)
          /\ \A d \in Made : conn'[d] = IF d = h THEN r ELSE conn[d]
      BY <3>1, <3>2, <3>3, <3>6, ConnectionChanges
    <3>5. QED
      BY <3>1, <3>2, <3>4 DEF Made
  <2>3. QED
    BY <2>1, <2>2
<1> HIDE DEF h, m
<1>3. Fades /\ \A c \in Made : Meets(c) => Meets(c)'
  <2>1. Fades
    BY <1>1, <1>2 DEF Fades, Running
  <2>2. \A c \in Made : conn[c].phase = "connected" => conn[c].remote \in Made
    BY <1>1, OrderlyTypes DEF OInv, ORest, Paired
  <2>3. QED
    BY <1>2, <2>1, <2>2 DEF Meets
<1>4. /\ OpensLess /\ posted' \in [Clients -> Seq(Event)]
      /\ m \in Message
      /\ \A x \in Clients : x # p => inbox'[x] = inbox[x]
      /\ \A f \in Items(inbox, p) : f \in Items(inbox', p) \/ f = m
      /\ \A x \in Clients : \A e, f :
           Precedes(inbox, x, e, f) => Precedes(inbox', x, e, f) \/ (x = p /\ e = m)
      /\ Carried("inbox", p)
  BY <1>1, <1>3, MessageTaken DEF m
<1>5. Lives'
  BY <1>1, <1>2, OrderlyTypes DEF OInv, ORest, Lives
<1>6. EndedAreOver' /\ Paired' /\ Fresh'
  BY <1>1, <1>3, <1>4, FadesEnded, FadesPaired, FadesFresh DEF OInv, ORest
<1>7. OneToken' /\ TokenHush'
  BY <1>3, <1>4, FadesHush, CarriedTokens DEF OInv, ORest
<1>8. Shown'
  BY <1>1, <1>2, <1>3, FadesShown DEF OInv, ORest
<1>9. Wired'
  <2>1. \A x \in Clients : \A label \in Labels :
          /\ Channel(x, label)' = Channel(x, label)
          /\ IsOpen(x, label)' = IsOpen(x, label)
    BY <1>1 DEF Channel, IsOpen
  <2>2. QED
    BY <1>1, <1>2, <1>3, <2>1, FadesWired DEF OInv, ORest
<1>10. Answering'
  <2> SUFFICES ASSUME NEW c \in Made,
                      conn[c].phase = "new", conn[c].role = "callee",
                      conn[conn[c].remote].phase # "over",
                      conn[conn[c].remote].remote \in {0, c}
               PROVE  OnTheWay(c)'
    BY <1>1, <1>2, OrderlyTypes DEF Answering
  <2> DEFINE k == conn[c].remote
             q == conn[c].owner
             r == conn[k].owner
  <2>1. k \in Made /\ q \in Clients /\ r \in Clients /\ client[r].pc = k
    BY <1>1, CalleeTarget DEF OInv, ORest
  <2>2. OnTheWay(c)
    BY DEF OInv, ORest, Answering
  <2>3. /\ Reply(c)' = Reply(c) /\ Route(c)' = Route(c)
        /\ Reply(c).message.type = "answer" /\ Route(c).message.conn = c
    BY <1>2 DEF Reply, Route, Publication
  <2>4. Reply(c).message # m
    BY <1>1, <2>3
  <2>5. Reply(c).message \in Items(inbox, r) => Reply(c).message \in Items(inbox', r)
    <3>1. CASE r = p
      BY <1>4, <2>4, <3>1
    <3>2. CASE r # p
      <4>1. inbox'[r] = inbox[r]
        BY <1>4, <2>1, <3>2
      <4>2. QED
        BY <4>1 DEF Items
    <3>3. QED
      BY <3>1, <3>2
  <2>6. Precedes(inbox, r, Reply(c).message, Route(c).message) =>
          Precedes(inbox', r, Reply(c).message, Route(c).message)
    BY <1>4, <2>1, <2>4
  <2>7. conn[k].remote = c /\ Route(c).message \in Items(inbox, r) =>
          Route(c).message \in Items(inbox', r) \/ conn'[k].reachable
    <3>1. SUFFICES ASSUME conn[k].remote = c, Route(c).message \in Items(inbox, r),
                          Route(c).message \notin Items(inbox', r)
                   PROVE  conn'[k].reachable
      OBVIOUS
    <3>2. r = p /\ Route(c).message = m
      <4>1. CASE r = p
        BY <1>4, <3>1, <4>1
      <4>2. CASE r # p
        <5>1. inbox'[r] = inbox[r]
          BY <1>4, <2>1, <4>2
        <5>2. QED
          BY <3>1, <5>1 DEF Items
      <4>3. QED
        BY <4>1, <4>2
    <3>3. h = k /\ m.conn = c /\ k # 0
      BY <2>1, <2>3, <3>2 DEF h, Made
    <3>4. QED
      BY <1>2, <3>1, <3>3
  <2>8. QED
    <3>1. CASE ~conn[c].described
      BY <1>2, <3>1 DEF OnTheWay
    <3>2. CASE conn[c].described
      <4>1. \/ Precedes(posted, q, Reply(c), Route(c))
            \/ /\ Reply(c).message \in Items(inbox, r)
               /\ \/ Route(c) \in Items(posted, q)
                  \/ Precedes(inbox, r, Reply(c).message, Route(c).message)
            \/ /\ conn[k].remote = c
               /\ \/ Route(c) \in Items(posted, q)
                  \/ Route(c).message \in Items(inbox, r)
                  \/ conn[k].reachable
        BY <2>2, <3>2 DEF OnTheWay
      <4> SUFFICES
            \/ Precedes(posted', q, Reply(c), Route(c))
            \/ /\ Reply(c).message \in Items(inbox', r)
               /\ \/ Route(c) \in Items(posted', q)
                  \/ Precedes(inbox', r, Reply(c).message, Route(c).message)
            \/ /\ conn'[k].remote = c
               /\ \/ Route(c) \in Items(posted', q)
                  \/ Route(c).message \in Items(inbox', r)
                  \/ conn'[k].reachable
        BY <1>2, <2>1, <2>3 DEF OnTheWay
      <4>2. posted' = posted /\ conn'[k].remote = conn[k].remote
        BY <1>1, <1>2, <2>1
      <4>3. conn[k].reachable => conn'[k].reachable
        BY <1>2, <2>1
      <4>4. QED
        BY <2>5, <2>6, <2>7, <4>1, <4>2, <4>3
    <3>3. QED
      BY <3>1, <3>2
<1>11. QED
  BY <1>5, <1>6, <1>7, <1>8, <1>9, <1>10 DEF ORest

LEMMA OrderlyPublishMessage ==
  ASSUME OInv, NEW p \in Clients, PublishMessage(p)
  PROVE  ORest'
<1> DEFINE e == Head(posted[p])
           m == e.message
           q == client[p].target
           sent == q # None /\ status[p] = "online" /\ status[q] = "online"
<1>1. /\ IInv /\ posted[p] # <<>> /\ e.type = "publish" /\ Running(p)
      /\ posted' = Taken(posted, p) /\ UNCHANGED <<client, connected, status, conn>>
      /\ inbox' = IF sent THEN Put(inbox, q, m) ELSE inbox
  BY DEF PublishMessage, Handles, OInv
<1>2. /\ posted \in [Clients -> Seq(Event)] /\ inbox \in [Clients -> Seq(Message)]
      /\ q \in Clients \cup {None}
  BY <1>1, OrderlyTypes
<1> HIDE DEF e, m, q, sent
<1>3. /\ Made' = Made /\ \A c \in Made : Meets(c) => Meets(c)'
      /\ Fades
      /\ \A x \in Clients : \A label \in Labels :
           /\ Channel(x, label)' = Channel(x, label)
           /\ IsOpen(x, label)' = IsOpen(x, label)
  <2>1. \A x \in Clients : Running(x)' => Running(x)
    BY <1>1 DEF Running
  <2>2. QED
    BY <1>1, <2>1, FadesQuietly DEF Made
<1>4. /\ posted' \in [Clients -> Seq(Event)] /\ e \in Event
      /\ e = posted[p][1] /\ 1 \in 1..Len(posted[p])
      /\ Items(posted, p) = Items(posted', p) \cup {e}
      /\ \A x \in Clients \ {p} : Items(posted', x) = Items(posted, x)
      /\ \A f, g : \A x \in Clients :
           Precedes(posted, x, f, g) =>
             \/ Precedes(posted', x, f, g)
             \/ x = p /\ e = f /\ g \in Items(posted', p)
      /\ \A x \in Clients : \A i :
           PublishesAt(posted', x, i) =>
             PublishesAt(posted, x, IF x = p THEN i + 1 ELSE i)
  <2>1. posted[p] # <<>> /\ posted' = Taken(posted, p) /\ posted \in [Clients -> Seq(Event)]
    BY <1>1, <1>2
  <2>2. /\ posted' \in [Clients -> Seq(Event)] /\ e \in Event
        /\ e = posted[p][1] /\ Len(posted[p]) \in Nat /\ Len(posted[p]) > 0
        /\ Items(posted, p) = Items(posted', p) \cup {e}
        /\ \A x \in Clients \ {p} : Items(posted', x) = Items(posted, x)
        /\ \A f, g : \A x \in Clients :
             Precedes(posted, x, f, g) =>
               \/ Precedes(posted', x, f, g)
               \/ x = p /\ e = f /\ g \in Items(posted', p)
    BY <2>1, ItemsTaken DEF e
  <2>3. \A x \in Clients : \A i :
          PublishesAt(posted', x, i) =>
            PublishesAt(posted, x, IF x = p THEN i + 1 ELSE i)
    BY <1>1, <1>2, <2>1, TakenMarks
  <2>4. 1 \in 1..Len(posted[p])
    BY <2>2
  <2>5. QED
    BY <2>2, <2>3, <2>4
<1>5. m \in Message
  BY <1>1, <1>4 DEF Event, m
<1>6. /\ inbox' \in [Clients -> Seq(Message)]
      /\ \A x \in Clients : \A f \in Items(inbox, x) : f \in Items(inbox', x)
      /\ \A x \in Clients : \A f, g : Precedes(inbox, x, f, g) => Precedes(inbox', x, f, g)
      /\ sent => /\ q \in Clients /\ m \in Items(inbox', q)
                 /\ \A f \in Items(inbox, q) : Precedes(inbox', q, f, m)
      /\ \A x \in Clients : \A i :
           DescribesAt(inbox', x, i) =>
             \/ DescribesAt(inbox, x, i)
             \/ Describes(m) /\ x = q /\ i = Len(inbox[q]) + 1
  <2>1. CASE ~sent
    BY <1>1, <1>2, <2>1
  <2>2. CASE sent
    <3>1. q \in Clients /\ inbox' = Put(inbox, q, m)
      BY <1>1, <1>2, <2>2 DEF sent
    <3>7. q \in Clients /\ inbox \in [Clients -> Seq(Message)] /\ m \in Message
      BY <1>2, <1>5, <3>1
    <3> DEFINE after == Put(inbox, q, m)
    <3>8. /\ after \in [Clients -> Seq(Message)]
          /\ Items(after, q) = Items(inbox, q) \cup {m}
          /\ \A x \in Clients \ {q} :
               after[x] = inbox[x] /\ Items(after, x) = Items(inbox, x)
          /\ \A f, g : \A x \in Clients :
               Precedes(inbox, x, f, g) => Precedes(after, x, f, g)
          /\ \A f \in Items(inbox, q) : Precedes(after, q, f, m)
      <4>1. after \in [Clients -> Seq(Message)]
        BY <3>7, PutItems
      <4>5. Items(after, q) = Items(inbox, q) \cup {m}
        <5>1. ASSUME NEW x \in Clients, NEW g \in Message
              PROVE  Items(Put(inbox, x, g), x) = Items(inbox, x) \cup {g}
          BY <3>7, PutItems, SMTT(20)
        <5>2. QED
          BY <3>7, <5>1, Zenon
      <4>6. \A x \in Clients \ {q} :
              after[x] = inbox[x] /\ Items(after, x) = Items(inbox, x)
        BY <3>7, ItemsPut
      <4>2. \A f, g : \A x \in Clients :
              Precedes(inbox, x, f, g) => Precedes(after, x, f, g)
        BY <3>7, ItemsPut
      <4>3. \A f \in Items(inbox, q) : Precedes(after, q, f, m)
        BY <3>7, ItemsPut
      <4>4. QED
        BY <4>1, <4>2, <4>3, <4>5, <4>6
    <3>9. ASSUME NEW x \in Clients, NEW i, DescribesAt(after, x, i)
          PROVE  DescribesAt(inbox, x, i) \/ (x = q /\ i = Len(inbox[q]) + 1)
      BY <3>7, <3>9, PutAdds
    <3> HIDE DEF after
    <3>10. inbox' = after
      BY <3>1 DEF after
    <3>2. /\ inbox' \in [Clients -> Seq(Message)]
          /\ Items(inbox', q) = Items(inbox, q) \cup {m}
          /\ \A x \in Clients \ {q} : Items(inbox', x) = Items(inbox, x)
          /\ \A f, g : \A x \in Clients : Precedes(inbox, x, f, g) => Precedes(inbox', x, f, g)
          /\ \A f \in Items(inbox, q) : Precedes(inbox', q, f, m)
      BY <3>8, <3>10
    <3>3. \A x \in Clients : \A i :
            DescribesAt(inbox', x, i) =>
              DescribesAt(inbox, x, i) \/ (x = q /\ i = Len(inbox[q]) + 1)
      BY <3>9, <3>10
    <3>4. ~Describes(m) => \A x \in Clients : \A i :
            DescribesAt(inbox', x, i) => DescribesAt(inbox, x, i)
      BY <1>2, <1>5, <3>1, PutMarks
    <3>5. \A x \in Clients : \A f \in Items(inbox, x) : f \in Items(inbox', x)
      BY <3>2
    <3>6. QED
      BY <3>1, <3>2, <3>3, <3>4, <3>5
  <2>3. QED
    BY <2>1, <2>2
<1>7. Lives'
  BY <1>1, <1>3, OrderlyTypes DEF OInv, ORest, Lives
<1>8. OpensLess /\ \A x \in Clients : \A f \in Items(posted', x) : f \in Items(posted, x)
  BY <1>4 DEF OpensLess
<1>9. EndedAreOver' /\ Paired' /\ Fresh'
  BY <1>1, <1>3, <1>4, <1>8, FadesEnded, FadesPaired, FadesFresh DEF OInv, ORest
<1>10. OneToken' /\ TokenHush'
  <2>1. CASE ~Describes(m)
    <3>1. \A x \in Clients : \A i : DescribesAt(inbox', x, i) => DescribesAt(inbox, x, i)
      BY <1>6, <2>1
    <3>2. Carried("posted", p)
      BY <1>1, <1>3, <1>4, <1>6, <3>1, FadesTokens
    <3>3. QED
      BY <1>3, <1>8, <3>2, FadesHush, CarriedTokens DEF OInv, ORest
  <2>2. CASE Describes(m)
    <3>1. Token("posted", p, 1)
      BY <1>1, <1>4, <2>2 DEF Token, PublishesAt, m
    <3>2. /\ \A l, y, j : Token(l, y, j) => l = "posted" /\ y = p /\ j = 1
          /\ Hush
      BY <3>1, TokenAlone, Zenon DEF OInv, ORest, TokenHush
    <3>3. ASSUME NEW k, NEW x, NEW i, Token(k, x, i)'
          PROVE  k = "inbox" /\ x = q /\ i = Len(inbox[q]) + 1
      <4>1. CASE /\ k = "made" /\ x \in Made /\ i = 0
                 /\ conn[x].phase # "over" /\ ~conn[x].described
        <5>1. Token("made", x, 0)
          BY <4>1 DEF Token
        <5>2. QED
          BY <3>2, <5>1
      <4>2. CASE k = "posted" /\ x \in Clients /\ Running(x) /\ PublishesAt(posted', x, i)
        <5>1. Token("posted", x, IF x = p THEN i + 1 ELSE i)
          BY <1>4, <4>2 DEF Token
        <5>2. x = p /\ i + 1 = 1
          BY <3>2, <5>1
        <5>3. i \in 1..Len(posted'[p]) /\ Len(posted'[p]) \in Nat
          BY <1>4, <4>2, <5>2, LenProperties DEF PublishesAt
        <5>4. QED
          BY <5>2, <5>3
      <4>3. CASE k = "inbox" /\ x \in Clients /\ Running(x) /\ DescribesAt(inbox', x, i)
        <5>1. ~DescribesAt(inbox, x, i)
          <6>1. SUFFICES ASSUME DescribesAt(inbox, x, i) PROVE FALSE
            OBVIOUS
          <6>2. Token("inbox", x, i)
            BY <4>3, <6>1 DEF Token
          <6>3. QED
            BY <3>2, <6>2
        <5>2. QED
          BY <1>6, <4>3, <5>1
      <4>4. QED
        BY <1>1, <1>3, <3>3, <4>1, <4>2, <4>3 DEF Token, Running
    <3>4. OneToken'
      <4>1. ASSUME NEW k, NEW x, NEW i, NEW l, NEW y, NEW j,
                   Token(k, x, i)', Token(l, y, j)'
            PROVE  k = l /\ x = y /\ i = j
        <5>1. k = "inbox" /\ x = q /\ i = Len(inbox[q]) + 1
          BY <3>3, <4>1, Zenon
        <5>2. l = "inbox" /\ y = q /\ j = Len(inbox[q]) + 1
          BY <3>3, <4>1, Zenon
        <5>3. QED
          BY <5>1, <5>2, Zenon
      <4>2. QED
        BY <4>1, Zenon DEF OneToken
    <3>5. QED
      BY <1>3, <1>8, <3>2, <3>4, FadesHush DEF TokenHush
  <2>3. QED
    BY <2>1, <2>2
<1>11. \A x \in Clients : \A f \in Items(posted, x) :
         f.type # "publish" => f \in Items(posted', x)
  BY <1>1, <1>4
<1>12. Shown'
  BY <1>1, <1>3, <1>11, FadesShown DEF OInv, ORest
<1>13. Wired'
  BY <1>1, <1>3, <1>11, FadesWired DEF OInv, ORest, Opens
<1>14. Answering'
  <2> SUFFICES ASSUME NEW c \in Made,
                      conn[c].phase = "new", conn[c].role = "callee",
                      conn[conn[c].remote].phase # "over",
                      conn[conn[c].remote].remote \in {0, c}
               PROVE  OnTheWay(c)'
    BY <1>1, <1>3 DEF Answering
  <2> DEFINE k == conn[c].remote
             o == conn[c].owner
             r == conn[k].owner
  <2>1. /\ k \in Made /\ o \in Clients /\ r \in Clients
        /\ client[o].target = r /\ status[o] = "online" /\ status[r] = "online"
    BY <1>1, CalleeTarget DEF OInv, ORest
  <2>2. OnTheWay(c)
    BY DEF OInv, ORest, Answering
  <2>3. Reply(c)' = Reply(c) /\ Route(c)' = Route(c)
    BY <1>1 DEF Reply, Route, Publication
  <2>4. o = p => sent /\ q = r
    BY <2>1, ClientsAssumption DEF sent, q
  <2>5. o # p => Items(posted', o) = Items(posted, o)
    BY <1>4, <2>1
  <2>6. CASE ~conn[c].described
    BY <1>1, <2>6 DEF OnTheWay
  <2>7. CASE conn[c].described
    <3>1. \/ Precedes(posted, o, Reply(c), Route(c))
          \/ /\ Reply(c).message \in Items(inbox, r)
             /\ \/ Route(c) \in Items(posted, o)
                \/ Precedes(inbox, r, Reply(c).message, Route(c).message)
          \/ /\ conn[k].remote = c
             /\ \/ Route(c) \in Items(posted, o)
                \/ Route(c).message \in Items(inbox, r)
                \/ conn[k].reachable
      BY <2>2, <2>7 DEF OnTheWay
    <3> SUFFICES
          \/ Precedes(posted', o, Reply(c), Route(c))
          \/ /\ Reply(c).message \in Items(inbox', r)
             /\ \/ Route(c) \in Items(posted', o)
                \/ Precedes(inbox', r, Reply(c).message, Route(c).message)
          \/ /\ conn[k].remote = c
             /\ \/ Route(c) \in Items(posted', o)
                \/ Route(c).message \in Items(inbox', r)
                \/ conn[k].reachable
      BY <1>1, <2>3 DEF OnTheWay
    <3>2. Precedes(posted, o, Reply(c), Route(c)) =>
            \/ Precedes(posted', o, Reply(c), Route(c))
            \/ /\ Reply(c).message \in Items(inbox', r)
               /\ Route(c) \in Items(posted', o)
      BY <1>4, <1>6, <2>1, <2>4 DEF m
    <3>3. Route(c) \in Items(posted, o) =>
            \/ Route(c) \in Items(posted', o)
            \/ /\ Route(c).message \in Items(inbox', r)
               /\ \A f \in Items(inbox, r) : Precedes(inbox', r, f, Route(c).message)
      <4>1. CASE o = p /\ Route(c) = e
        BY <1>6, <2>4, <4>1 DEF m
      <4>2. CASE ~(o = p /\ Route(c) = e)
        BY <1>4, <2>5, <4>2
      <4>3. QED
        BY <4>1, <4>2
    <3>4. /\ Reply(c).message \in Items(inbox, r) => Reply(c).message \in Items(inbox', r)
          /\ Route(c).message \in Items(inbox, r) => Route(c).message \in Items(inbox', r)
          /\ Precedes(inbox, r, Reply(c).message, Route(c).message) =>
               Precedes(inbox', r, Reply(c).message, Route(c).message)
      BY <1>6, <2>1
    <3>5. QED
      BY <3>1, <3>2, <3>3, <3>4
  <2>8. QED
    BY <2>6, <2>7
<1>15. QED
  BY <1>7, <1>9, <1>10, <1>12, <1>13, <1>14 DEF ORest

\* An answer is the only description: none is left when it has been taken.
LEMMA DescriptionTaken ==
  ASSUME OInv, NEW p \in Clients, Running(p), inbox[p] # <<>>,
         Describes(Head(inbox[p]))
  PROVE  /\ Hush
         /\ \A l, y, j : Token(l, y, j) => l = "inbox" /\ y = p /\ j = 1
         /\ Taken(inbox, p) \in [Clients -> Seq(Message)]
         /\ \A x \in Clients : \A i :
              ~(Running(x) /\ DescribesAt(Taken(inbox, p), x, i))
<1>1. inbox \in [Clients -> Seq(Message)]
  BY OrderlyTypes DEF OInv
<1>2. /\ Head(inbox[p]) = inbox[p][1] /\ Len(inbox[p]) \in Nat /\ Len(inbox[p]) > 0
      /\ Taken(inbox, p) \in [Clients -> Seq(Message)]
  BY <1>1, ItemsTaken
<1>3. Token("inbox", p, 1)
  BY <1>2 DEF Token, DescribesAt
<1>4. /\ \A l, y, j : Token(l, y, j) => l = "inbox" /\ y = p /\ j = 1
      /\ Hush
  BY <1>3, TokenAlone, Zenon DEF OInv, ORest, TokenHush
<1>5. ASSUME NEW x \in Clients, NEW i, Running(x), DescribesAt(Taken(inbox, p), x, i)
      PROVE  FALSE
  <2>1. DescribesAt(inbox, x, IF x = p THEN i + 1 ELSE i)
    BY <1>1, <1>5, TakenMarks
  <2>2. Token("inbox", x, IF x = p THEN i + 1 ELSE i)
    BY <1>5, <2>1 DEF Token
  <2>3. x = p /\ i + 1 = 1
    BY <1>4, <2>2
  <2>4. i \in 1..Len(Taken(inbox, p)[p]) /\ Len(Taken(inbox, p)[p]) \in Nat
    BY <1>2, <1>5, <2>3, LenProperties DEF DescribesAt
  <2>5. QED
    BY <2>3, <2>4
<1>6. QED
  BY <1>2, <1>4, <1>5

\* The program of p ends, and its connections with it, when no other is about
\* to open.
LEMMA OrderlyLeaves ==
  ASSUME OInv, Hush, NEW p \in Clients, NEW s \in {"quit", "crashed"},
         status' = [status EXCEPT ![p] = s], conn' = Left(conn, p),
         UNCHANGED <<client, connected, posted>>,
         inbox' \in [Clients -> Seq(Message)],
         \A x \in Clients \ {p} : inbox'[x] = inbox[x]
  PROVE  /\ Fades
         /\ Lives' /\ EndedAreOver' /\ Paired' /\ Fresh' /\ Hush'
         /\ Shown' /\ Wired' /\ Answering'
<1>1. /\ IInv /\ conn \in Seq(Connection)
      /\ status \in [Clients -> {"starting", "online", "quit", "crashed"}]
      /\ posted \in [Clients -> Seq(Event)]
      /\ \A c \in Made : conn[c] \in Connection
  BY OrderlyTypes DEF OInv, IInv, Scalars, Shape
<1>2. /\ Made' = Made
      /\ \A c \in Made :
           conn'[c] = IF conn[c].owner = p
                      THEN [conn[c] EXCEPT !.phase = "over"] ELSE conn[c]
  BY <1>1, LeftProperties DEF Made
<1>3. \A c \in Made :
        /\ conn'[c].owner = conn[c].owner /\ conn'[c].role = conn[c].role
        /\ conn'[c].remote = conn[c].remote /\ conn'[c].awaiting = conn[c].awaiting
        /\ conn'[c].opened = conn[c].opened /\ conn'[c].reachable = conn[c].reachable
        /\ conn'[c].described = conn[c].described
        /\ conn'[c].phase = IF conn[c].owner = p THEN "over" ELSE conn[c].phase
  BY <1>1, <1>2 DEF Connection
<1>4. /\ ~Running(p)'
      /\ \A x \in Clients : Running(x)' => x # p /\ status'[x] = status[x] /\ Running(x)
      /\ \A x \in Clients : x # p => status'[x] = status[x]
  BY <1>1 DEF Running
<1>5. Fades
  <2>1. \A c \in Made : conn'[c].phase \in {conn[c].phase, "over"}
    BY <1>3
  <2>2. QED
    BY <1>2, <1>3, <1>4, <2>1 DEF Fades
<1>6. OpensLess
  BY DEF OpensLess
<1>7. Lives'
  <2> SUFFICES ASSUME NEW c \in Made, conn'[c].phase # "over"
               PROVE  status'[conn[c].owner] = "online" /\ client[conn[c].owner].target # None
    BY <1>2, <1>3 DEF Lives
  <2>1. conn[c].owner # p /\ conn[c].phase # "over" /\ conn[c].owner \in Clients
    BY <1>1, <1>3, OrderlyTypes
  <2>2. QED
    BY <1>4, <2>1 DEF OInv, ORest, Lives
<1>8. EndedAreOver' /\ Paired' /\ Fresh' /\ Hush'
  BY <1>1, <1>5, <1>6, FadesEnded, FadesPaired, FadesFresh, FadesHush DEF OInv, ORest
<1>9. Shown'
  <2>1. \A c \in Made :
          conn'[c].phase # conn[c].phase /\ Running(conn[c].owner)' =>
            EndedLambda(c) \in Items(posted', conn[c].owner)
    BY <1>3, <1>4, OrderlyTypes
  <2>2. QED
    BY <1>1, <1>5, <2>1, FadesShown DEF OInv, ORest
<1>10. Wired'
  <2>1. \A x \in Clients : \A label \in Labels :
          /\ Channel(x, label)' = Channel(x, label)
          /\ IsOpen(x, label)' = IsOpen(x, label)
    BY DEF Channel, IsOpen
  <2>2. QED
    BY <1>1, <1>3, <1>5, <2>1, FadesWired DEF OInv, ORest
<1>11. Answering'
  <2>1. \A k \in Made : conn'[k].phase # "over" =>
          inbox'[conn[k].owner] = inbox[conn[k].owner]
    BY <1>1, <1>3, OrderlyTypes
  <2>2. QED
    BY <1>1, <1>3, <1>5, <2>1, FadesAnswering DEF OInv, ORest
<1>12. QED
  BY <1>5, <1>7, <1>8, <1>9, <1>10, <1>11

LEMMA OrderlyQuit ==
  ASSUME OInv, NEW p \in Clients, Quit(p), orderly'
  PROVE  ORest'
<1>1. /\ IInv /\ Quiet
      /\ status' = [status EXCEPT ![p] = "quit"] /\ conn' = Left(conn, p)
      /\ UNCHANGED <<client, connected, posted, inbox>>
  BY DEF Quit, OInv
<1>2. Hush
  BY <1>1, QuietHush
<1>3. /\ inbox' \in [Clients -> Seq(Message)] /\ posted' \in [Clients -> Seq(Event)]
      /\ \A x \in Clients \ {p} : inbox'[x] = inbox[x]
  BY <1>1, OrderlyTypes
<1>4. /\ Fades
      /\ Lives' /\ EndedAreOver' /\ Paired' /\ Fresh' /\ Hush'
      /\ Shown' /\ Wired' /\ Answering'
  BY <1>1, <1>2, <1>3, OrderlyLeaves
<1>5. Carried("none", p)
  BY <1>1, <1>3, <1>4, FadesTokens
<1>6. OneToken' /\ TokenHush'
  BY <1>4, <1>5, CarriedTokens DEF OInv, ORest
<1>7. QED
  BY <1>4, <1>6 DEF ORest

\* The answer names a callee, which may answer this connection or another one.
LEMMA AnswerAccepted ==
  ASSUME OInv, NEW p \in Clients, Receives(p, "answer"),
         inbox' = Taken(inbox, p),
         NEW c \in Made, c = client[p].pc, conn[c].awaiting,
         UNCHANGED <<client, connected, status, posted>>,
         Made' = Made,
         \A d \in Made :
           /\ conn'[d].owner = conn[d].owner /\ conn'[d].role = conn[d].role
           /\ conn'[d].phase = conn[d].phase /\ conn'[d].opened = conn[d].opened
           /\ conn'[d].described = conn[d].described
           /\ conn'[d].reachable = conn[d].reachable
           /\ d # c => /\ conn'[d].remote = conn[d].remote
                       /\ conn'[d].awaiting = conn[d].awaiting,
         conn'[c].remote = Head(inbox[p]).conn, ~conn'[c].awaiting
  PROVE  ORest'
<1> DEFINE m == Head(inbox[p])
<1>1. /\ IInv /\ conn[c] \in Connection
      /\ status[p] = "online" /\ Running(p) /\ inbox[p] # <<>> /\ m.type = "answer"
      /\ client[p].pc = c /\ c # 0
      /\ posted \in [Clients -> Seq(Event)] /\ inbox \in [Clients -> Seq(Message)]
  BY OrderlyTypes DEF OInv, IInv, Shape, Receives, Running, Made
<1>2. /\ m \in GoodMessages[p]
      /\ m = [type |-> "answer", from |-> conn[m.conn].owner, conn |-> m.conn]
      /\ m.conn \in Made /\ m.conn # 0
  <2>1. m \in GoodMessages[p]
    BY <1>1, QueueSteps DEF IInv
  <2>2. m \in Message /\ m.from = conn[m.conn].owner
    BY <2>1 DEF GoodMessages
  <2>3. QED
    BY <1>1, <2>1, <2>2 DEF Message, Made
<1> HIDE DEF m
<1>6. /\ Made' = Made
      /\ \A d \in Made :
           /\ conn'[d].owner = conn[d].owner /\ conn'[d].role = conn[d].role
           /\ conn'[d].phase = conn[d].phase /\ conn'[d].opened = conn[d].opened
           /\ conn'[d].described = conn[d].described
           /\ conn'[d].reachable = conn[d].reachable
           /\ d # c => /\ conn'[d].remote = conn[d].remote
                       /\ conn'[d].awaiting = conn[d].awaiting
      /\ conn'[c].remote = m.conn /\ ~conn'[c].awaiting
  BY DEF m
<1>7. conn[c].remote = 0 /\ conn[c].phase # "connected"
  BY DEF OInv, ORest, Paired
<1>8. /\ Hush
      /\ \A l, y, j : Token(l, y, j) => l = "inbox" /\ y = p /\ j = 1
      /\ inbox' \in [Clients -> Seq(Message)]
      /\ \A x \in Clients : \A i : ~(Running(x) /\ DescribesAt(inbox', x, i))
  BY <1>1, DescriptionTaken DEF m, Describes
<1>9. /\ \A x \in Clients : x # p => inbox'[x] = inbox[x]
      /\ \A f \in Items(inbox, p) : f \in Items(inbox', p) \/ f = m
      /\ \A f, g : Precedes(inbox, p, f, g) =>
           Precedes(inbox', p, f, g) \/ g \in Items(inbox', p)
  <2>1. inbox[p] # <<>> /\ inbox \in [Clients -> Seq(Message)]
    BY <1>1
  <2>2. /\ Items(inbox, p) = Items(inbox', p) \cup {m}
        /\ \A x \in Clients \ {p} : inbox'[x] = inbox[x]
    BY <2>1, ItemsTaken DEF m
  <2>3. \A f, g : Precedes(inbox, p, f, g) =>
          Precedes(inbox', p, f, g) \/ g \in Items(inbox', p)
    BY <2>1, ItemsTaken
  <2>4. QED
    BY <2>2, <2>3
<1>10. Lives' /\ EndedAreOver'
  <2>1. Lives'
    BY <1>6 DEF OInv, ORest, Lives
  <2>2. EndedAreOver'
    <3> SUFFICES ASSUME NEW x \in Clients, NEW e \in Items(posted, x), e.type = "ended"
                 PROVE  conn'[e.conn].phase = "over"
      BY DEF EndedAreOver, Items
    <3>1. e \in Event
      BY <1>1 DEF Items
    <3>2. e.conn \in Made
      BY <3>1 DEF Event
    <3>3. QED
      BY <1>6, <3>2 DEF OInv, ORest, EndedAreOver
  <2>3. QED
    BY <2>1, <2>2
<1>11. Paired'
  <2> SUFFICES ASSUME NEW d \in Made
               PROVE  /\ conn'[d].awaiting => conn'[d].remote = 0
                      /\ conn'[d].phase = "new" => ~conn'[d].opened
                      /\ conn'[d].phase = "connected" =>
                           /\ conn'[d].remote # 0
                           /\ conn'[conn'[d].remote].remote = d
                           /\ conn'[conn'[d].remote].phase # "new"
    BY <1>6 DEF Paired
  <2>1. /\ conn[d].awaiting => conn[d].remote = 0
        /\ conn[d].phase = "new" => ~conn[d].opened
        /\ conn[d].phase = "connected" =>
             /\ conn[d].remote # 0 /\ conn[conn[d].remote].remote = d
             /\ conn[conn[d].remote].phase # "new"
    BY DEF OInv, ORest, Paired
  <2>2. conn[d].remote \in Made \cup {0} /\ d # 0
    BY <1>1, OrderlyTypes DEF Made
  <2>3. QED
    BY <1>6, <1>7, <2>1, <2>2
<1>12. Fresh'
  <2>1. Running(p)' = Running(p) /\ \A x \in Clients : Running(x)' = Running(x)
    BY DEF Running
  <2>2. \A x \in Clients : Running(x) => \A e \in Items(posted', x) : ~Opens(e)
    BY <1>8 DEF Hush, Items
  <2>3. \A d \in Made : conn'[d].phase = "connected" => conn'[d].opened
    BY <1>6, <1>8 DEF Hush
  <2>4. QED
    BY <1>6, <2>1, <2>2, <2>3 DEF Fresh
<1>13. \A k, x, i : ~Token(k, x, i)'
  <2> SUFFICES ASSUME NEW k, NEW x, NEW i, Token(k, x, i)' PROVE FALSE
    OBVIOUS
  <2>1. CASE /\ k = "made" /\ x \in Made /\ conn[x].phase # "over" /\ ~conn[x].described
    <3>1. Token("made", x, 0)
      BY <2>1 DEF Token
    <3>2. QED
      BY <1>8, <3>1
  <2>2. CASE k = "posted" /\ x \in Clients /\ Running(x) /\ PublishesAt(posted, x, i)
    <3>1. Token("posted", x, i)
      BY <2>2 DEF Token
    <3>2. QED
      BY <1>8, <3>1
  <2>3. CASE k = "inbox" /\ x \in Clients /\ Running(x) /\ DescribesAt(inbox', x, i)
    BY <1>8, <2>3
  <2>4. QED
    BY <1>6, <2>1, <2>2, <2>3 DEF Token, Running, PublishesAt
<1>14. OneToken' /\ TokenHush'
  BY <1>13, Zenon DEF OneToken, TokenHush
<1>15. Shown'
  <2>1. \A x \in Clients : client[x].pc # 0 => client[x].pc \in Made
    BY <1>1, OrderlyTypes
  <2>2. QED
    BY <1>6, <2>1 DEF OInv, ORest, Shown, Running, Items
<1>16. Wired'
  <2>1. \A x \in Clients : \A label \in Labels :
          /\ Channel(x, label)' = Channel(x, label)
          /\ IsOpen(x, label)' = IsOpen(x, label)
    BY DEF Channel, IsOpen
  <2>2. \A x \in Clients : client[x].pc # 0 => client[x].pc \in Made
    BY <1>1, OrderlyTypes
  <2>3. QED
    BY <1>6, <2>1, <2>2 DEF OInv, ORest, Wired, Running, Items, ChannelLambda
<1>17. Answering'
  <2> SUFFICES ASSUME NEW d \in Made,
                      conn[d].phase = "new", conn[d].role = "callee",
                      conn'[conn[d].remote].phase # "over",
                      conn'[conn[d].remote].remote \in {0, d},
                      conn'[d].remote = conn[d].remote
               PROVE  OnTheWay(d)'
    <3>1. conn[c].role = "caller"
      BY <1>1, <1>7, OrderlyTypes DEF OInv, IInv, Shape, RolesMatch
    <3>2. QED
      BY <1>6, <3>1 DEF Answering
  <2> DEFINE k == conn[d].remote
             o == conn[d].owner
             q == conn[k].owner
  <2>1. k \in Made /\ o \in Clients /\ q \in Clients /\ conn[k].phase # "over"
    BY <1>1, <1>6, OrderlyTypes
  <2>2. conn[k].remote \in {0, d}
    BY <1>6, <1>7, <2>1
  <2>3. /\ client[q].pc = k /\ status[o] = "online" /\ OnTheWay(d)
    <3>1. OnTheWay(d)
      BY <2>1, <2>2 DEF OInv, ORest, Answering
    <3>2. QED
      BY <1>1, <2>1, <3>1, CalleeTarget DEF OInv, ORest
  <2>4. /\ Reply(d)' = Reply(d) /\ Route(d)' = Route(d)
        /\ Reply(d).type = "publish"
        /\ Reply(d).message = [type |-> "answer", from |-> o, conn |-> d]
        /\ Route(d).message.type = "candidate"
    BY <1>6 DEF Reply, Route, Publication
  <2>5. CASE ~conn[d].described
    BY <1>6, <2>5 DEF OnTheWay
  <2>6. CASE conn[d].described
    <3>1. \/ Precedes(posted, o, Reply(d), Route(d))
          \/ /\ Reply(d).message \in Items(inbox, q)
             /\ \/ Route(d) \in Items(posted, o)
                \/ Precedes(inbox, q, Reply(d).message, Route(d).message)
          \/ /\ conn[k].remote = d
             /\ \/ Route(d) \in Items(posted, o)
                \/ Route(d).message \in Items(inbox, q)
                \/ conn[k].reachable
      BY <2>3, <2>6 DEF OnTheWay
    <3>2. SUFFICES
            \/ Precedes(posted, o, Reply(d), Route(d))
            \/ /\ Reply(d).message \in Items(inbox', q)
               /\ \/ Route(d) \in Items(posted, o)
                  \/ Precedes(inbox', q, Reply(d).message, Route(d).message)
            \/ /\ conn'[k].remote = d
               /\ \/ Route(d) \in Items(posted, o)
                  \/ Route(d).message \in Items(inbox', q)
                  \/ conn[k].reachable
      <4>1. /\ conn'[d].remote = k /\ conn'[d].owner = o /\ conn'[k].owner = q
            /\ conn'[k].reachable = conn[k].reachable /\ posted' = posted
        BY <1>6, <2>1
      <4>2. QED
        BY <2>4, <4>1 DEF OnTheWay
    <3>3. CASE k # c
      <4>1. q # p
        BY <1>1, <2>3, <3>3
      <4>2. inbox'[q] = inbox[q] /\ conn'[k].remote = conn[k].remote
        BY <1>6, <1>9, <2>1, <3>3, <4>1
      <4>3. /\ Items(inbox', q) = Items(inbox, q)
            /\ Precedes(inbox, q, Reply(d).message, Route(d).message) =>
                 Precedes(inbox', q, Reply(d).message, Route(d).message)
        BY <4>2, SMTT(20) DEF Items, Precedes
      <4>4. QED
        BY <3>1, <4>2, <4>3
    <3>4. CASE k = c
      <4>1. q = p
        BY <1>1, <3>4, OrderlyTypes
      <4>2. m.conn = d
        BY <1>2, <1>6, <3>4
      <4>3. conn'[k].remote = d /\ conn[k].remote # d
        BY <1>1, <1>2, <1>6, <1>7, <3>4, <4>2
      <4>4. ~Precedes(posted, o, Reply(d), Route(d))
        <5>1. SUFFICES ASSUME Precedes(posted, o, Reply(d), Route(d)) PROVE FALSE
          OBVIOUS
        <5>2. PICK i \in 1..Len(posted[o]) : posted[o][i] = Reply(d)
          BY <5>1 DEF Precedes
        <5>3. Token("posted", o, i)
          BY <2>1, <2>3, <2>4, <5>2 DEF Token, PublishesAt, Describes, Running
        <5>4. QED
          BY <1>8, <5>3
      <4>5. \/ Route(d) \in Items(posted, o)
            \/ Precedes(inbox, p, Reply(d).message, Route(d).message)
        BY <3>1, <4>1, <4>3, <4>4
      <4>6. Precedes(inbox, p, Reply(d).message, Route(d).message) =>
              Route(d).message \in Items(inbox', p)
        <5>1. SUFFICES ASSUME Precedes(inbox, p, Reply(d).message, Route(d).message)
                       PROVE  Route(d).message \in Items(inbox', p)
          OBVIOUS
        <5>2. Route(d).message \in Items(inbox, p)
          BY <5>1 DEF Precedes, Items
        <5>3. Route(d).message # m
          BY <1>1, <2>4
        <5>4. QED
          BY <1>9, <5>2, <5>3
      <4>7. QED
        BY <4>1, <4>3, <4>5, <4>6
    <3>5. QED
      BY <3>3, <3>4
  <2>7. QED
    BY <2>5, <2>6
<1>18. QED
  BY <1>10, <1>11, <1>12, <1>14, <1>15, <1>16, <1>17 DEF ORest

LEMMA OrderlyReceiveAnswer ==
  ASSUME OInv, NEW p \in Clients, ReceiveAnswer(p)
  PROVE  ORest'
<1> DEFINE c == client[p].pc
           m == Head(inbox[p])
<1>1. /\ IInv /\ conn \in Seq(Connection) /\ c \in Made \cup {0}
      /\ inbox[p] # <<>> /\ m.type = "answer" /\ Running(p)
      /\ inbox' = Taken(inbox, p) /\ UNCHANGED <<client, connected, posted>>
      /\ posted \in [Clients -> Seq(Event)] /\ inbox \in [Clients -> Seq(Message)]
  BY OrderlyTypes DEF OInv, IInv, Shape, ReceiveAnswer, Receives, Running
<1>2. /\ Hush
      /\ inbox' \in [Clients -> Seq(Message)]
      /\ \A x \in Clients : \A i : ~(Running(x) /\ DescribesAt(inbox', x, i))
      /\ \A l, y, j : Token(l, y, j) => l = "inbox" /\ y = p /\ j = 1
  BY <1>1, DescriptionTaken DEF Describes
<1>3. CASE c # 0 /\ conn[c].awaiting /\ UNCHANGED status
           /\ conn' = [conn EXCEPT ![c].awaiting = FALSE, ![c].remote = m.conn]
  <2> DEFINE r == [conn[c] EXCEPT !.awaiting = FALSE, !.remote = m.conn]
  <2>1. c \in Made /\ conn[c] \in Connection
    BY <1>1, <1>3, OrderlyTypes
  <2>2. m.conn \in Made
    <3>1. m \in Message
      BY <1>1, ItemsTaken
    <3>2. QED
      BY <3>1 DEF Message
  <2>3. /\ r \in Connection /\ r.owner = conn[c].owner /\ r.role = conn[c].role
        /\ r.phase = conn[c].phase /\ r.opened = conn[c].opened
        /\ r.described = conn[c].described /\ r.reachable = conn[c].reachable
        /\ r.remote = m.conn /\ ~r.awaiting
    BY <2>1, <2>2 DEF Connection
  <2>4. conn' = [conn EXCEPT ![c] = r]
    <3>1. DOMAIN conn = Made /\ conn = [d \in DOMAIN conn |-> conn[d]]
      BY <1>1, ConnectionTypes
    <3>2. conn[c] = [x \in DOMAIN conn[c] |-> conn[c][x]]
      BY <2>1 DEF Connection
    <3>3. QED
      BY <1>3, <2>1, <3>1, <3>2
  <2>5. /\ Len(conn') = Len(conn)
        /\ \A d \in Made : conn'[d] = IF d = c THEN r ELSE conn[d]
    <3> HIDE DEF r, c
    <3>1. QED
      BY <1>1, <2>1, <2>3, <2>4, ConnectionChanges
  <2> HIDE DEF r
  <2>6. Receives(p, "answer")
    BY DEF ReceiveAnswer
  <2>7. /\ Made' = Made /\ conn'[c].remote = m.conn /\ ~conn'[c].awaiting
        /\ \A d \in Made :
             /\ conn'[d].owner = conn[d].owner /\ conn'[d].role = conn[d].role
             /\ conn'[d].phase = conn[d].phase /\ conn'[d].opened = conn[d].opened
             /\ conn'[d].described = conn[d].described
             /\ conn'[d].reachable = conn[d].reachable
             /\ d # c => /\ conn'[d].remote = conn[d].remote
                         /\ conn'[d].awaiting = conn[d].awaiting
    BY <2>1, <2>3, <2>5 DEF Made
  <2>8. QED
    BY <1>1, <1>3, <2>1, <2>6, <2>7, AnswerAccepted
<1>4. CASE c = 0 /\ conn' = conn /\ UNCHANGED status
  <2>1. /\ Fades /\ \A d \in Made : Meets(d) => Meets(d)'
        /\ \A x \in Clients : \A label \in Labels :
             /\ Channel(x, label)' = Channel(x, label)
             /\ IsOpen(x, label)' = IsOpen(x, label)
    <3>1. \A x \in Clients : Running(x)' => Running(x)
      BY <1>4 DEF Running
    <3>2. QED
      BY <1>1, <1>4, <3>1, FadesQuietly
  <2>2. /\ OpensLess /\ posted' \in [Clients -> Seq(Event)] /\ Carried("inbox", p)
        /\ \A x \in Clients : x # p => inbox'[x] = inbox[x]
    BY <1>1, <2>1, MessageTaken
  <2>3. Lives'
    BY <1>1, <1>4, <2>1, OrderlyTypes DEF OInv, ORest, Lives, Fades
  <2>4. EndedAreOver' /\ Paired' /\ Fresh'
    BY <1>1, <2>1, <2>2, FadesEnded, FadesPaired, FadesFresh DEF OInv, ORest
  <2>5. OneToken' /\ TokenHush'
    BY <2>1, <2>2, FadesHush, CarriedTokens DEF OInv, ORest
  <2>6. Shown'
    BY <1>1, <1>4, <2>1, FadesShown DEF OInv, ORest
  <2>7. Wired'
    BY <1>1, <1>4, <2>1, FadesWired DEF OInv, ORest
  <2>8. Answering'
    <3>1. \A k \in Made : conn'[k].phase # "over" =>
            inbox'[conn[k].owner] = inbox[conn[k].owner]
      <4>1. \A k \in Made : conn[k].phase # "over" =>
              conn[k].owner \in Clients /\ conn[k].owner # p
        BY <1>1, <1>4, OrderlyTypes DEF Made
      <4>2. QED
        BY <1>4, <2>2, <4>1
    <3>2. QED
      BY <1>1, <1>4, <2>1, <3>1, FadesAnswering DEF OInv, ORest
  <2>9. QED
    BY <2>3, <2>4, <2>5, <2>6, <2>7, <2>8 DEF ORest
<1>5. CASE status' = [status EXCEPT ![p] = "crashed"] /\ conn' = Left(conn, p)
  <2>1. \A x \in Clients \ {p} : inbox'[x] = inbox[x]
    BY <1>1 DEF Taken
  <2>2. /\ Fades
        /\ Lives' /\ EndedAreOver' /\ Paired' /\ Fresh' /\ Hush'
        /\ Shown' /\ Wired' /\ Answering'
    BY <1>1, <1>2, <1>5, <2>1, OrderlyLeaves
  <2>3. Carried("inbox", p)
    BY <1>1, <2>2, MessageTaken
  <2>4. OneToken' /\ TokenHush'
    BY <2>2, <2>3, CarriedTokens DEF OInv, ORest
  <2>5. QED
    BY <2>2, <2>4 DEF ORest
<1>6. QED
  BY <1>3, <1>4, <1>5 DEF ReceiveAnswer

-----------------------------------------------------------------------------
(* The threads of libdatachannel, and links that break. *)

LEMMA OrderlyEnd ==
  ASSUME OInv, NEW c \in Made, End(c), conn[c].phase # "over",
         UNCHANGED <<client, connected, status, inbox>>,
         Hush \/ \A d \in Made : Meets(d) => d # c /\ conn[d].remote # c
  PROVE  ORest'
<1> DEFINE p == conn[c].owner
           r == [conn[c] EXCEPT !.phase = "over"]
           e == EndedLambda(c)
<1>1. /\ IInv /\ conn \in Seq(Connection) /\ conn[c] \in Connection
      /\ p \in Clients /\ c # 0
      /\ posted \in [Clients -> Seq(Event)] /\ inbox \in [Clients -> Seq(Message)]
  BY OrderlyTypes DEF OInv, IInv, Shape, Made
<1>2. /\ r \in Connection /\ r.owner = conn[c].owner /\ r.role = conn[c].role
      /\ r.phase = "over" /\ r.opened = conn[c].opened
      /\ r.described = conn[c].described /\ r.reachable = conn[c].reachable
      /\ r.remote = conn[c].remote /\ r.awaiting = conn[c].awaiting
  BY <1>1 DEF Connection, Phases
<1>3. /\ Len(conn') = Len(conn)
      /\ \A d \in Made : conn'[d] = IF d = c THEN r ELSE conn[d]
  <2>1. conn' = [conn EXCEPT ![c] = r]
    BY DEF End
  <2> HIDE DEF r
  <2>2. QED
    BY <1>1, <1>2, <2>1, ConnectionChanges
<1>4. e \in Event /\ e.type = "ended"
  BY DEF EndedLambda, Event
<1>5. posted' = Put(Put(posted, p, e), p, e)
  BY <1>1 DEF End, Announced, EndedLambda
<1> HIDE DEF r, e, p
<1>6. /\ posted' \in [Clients -> Seq(Event)]
      /\ Items(posted', p) = Items(posted, p) \cup {e}
      /\ \A x \in Clients \ {p} : Items(posted', x) = Items(posted, x)
      /\ \A f, g : \A x \in Clients :
           Precedes(posted, x, f, g) => Precedes(posted', x, f, g)
      /\ \A x \in Clients : \A i : PublishesAt(posted', x, i) => PublishesAt(posted, x, i)
  <2>1. ASSUME NEW x \in Clients, NEW f \in Event
        PROVE  /\ Put(posted, x, f) \in [Clients -> Seq(Event)]
               /\ Put(Put(posted, x, f), x, f) \in [Clients -> Seq(Event)]
               /\ Items(Put(Put(posted, x, f), x, f), x) = Items(posted, x) \cup {f}
               /\ \A y \in Clients \ {x} :
                    Items(Put(Put(posted, x, f), x, f), y) = Items(posted, y)
               /\ \A g, h : \A y \in Clients :
                    Precedes(posted, y, g, h) =>
                      Precedes(Put(Put(posted, x, f), x, f), y, g, h)
    <3> DEFINE after == Put(Put(posted, x, f), x, f)
    <3>1. posted \in [Clients -> Seq(Event)]
      BY <1>1
    <3>2. Put(posted, x, f) \in [Clients -> Seq(Event)] /\ after \in [Clients -> Seq(Event)]
      BY <3>1, PutTwice
    <3>3. Items(after, x) = Items(posted, x) \cup {f, f}
      BY <3>1, PutTwice
    <3>4. \A y \in Clients \ {x} : Items(after, y) = Items(posted, y)
      BY <3>1, PutTwice
    <3>5. \A g, h : \A y \in Clients :
            Precedes(posted, y, g, h) => Precedes(after, y, g, h)
      BY <3>1, PutTwice
    <3> HIDE DEF after
    <3>6. Items(after, x) = Items(posted, x) \cup {f}
      BY <3>3
    <3>7. QED
      BY <3>2, <3>4, <3>5, <3>6 DEF after
  <2>2. ASSUME NEW queue \in [Clients -> Seq(Event)], NEW x \in Clients,
               NEW f \in Event, f.type = "ended", NEW y \in Clients, NEW i,
               PublishesAt(Put(queue, x, f), y, i)
        PROVE  PublishesAt(queue, y, i)
    BY <2>2, PutMarks
  <2>3. \A x \in Clients : \A i : PublishesAt(posted', x, i) => PublishesAt(posted, x, i)
    BY <1>1, <1>4, <1>5, <2>1, <2>2
  <2>4. QED
    BY <1>1, <1>4, <1>5, <2>1, <2>3
<1>7. /\ Made' = Made
      /\ \A d \in Made :
           /\ conn'[d].owner = conn[d].owner /\ conn'[d].role = conn[d].role
           /\ conn'[d].remote = conn[d].remote /\ conn'[d].awaiting = conn[d].awaiting
           /\ conn'[d].opened = conn[d].opened /\ conn'[d].reachable = conn[d].reachable
           /\ conn'[d].described = conn[d].described
           /\ conn'[d].phase = IF d = c THEN "over" ELSE conn[d].phase
  BY <1>2, <1>3 DEF Made
<1>8. Fades
  <2>1. \A d \in Made : conn'[d].phase \in {conn[d].phase, "over"}
    BY <1>7
  <2>2. QED
    BY <1>7, <2>1 DEF Fades, Running
<1>9. Hush \/ \A d \in Made : Meets(d) => Meets(d)'
  <2>1. ASSUME \A d \in Made : Meets(d) => d # c /\ conn[d].remote # c,
               NEW d \in Made, Meets(d)
        PROVE  Meets(d)'
    <3>1. conn[d].remote \in Made /\ d # c /\ conn[d].remote # c
      BY <1>1, <2>1, OrderlyTypes DEF OInv, ORest, Paired, Meets
    <3>2. QED
      BY <1>7, <2>1, <3>1 DEF Meets
  <2>2. QED
    BY <2>1
<1>10. /\ OpensLess
       /\ \A x \in Clients : \A f \in Items(posted, x) : f \in Items(posted', x)
       /\ \A x \in Clients : \A f \in Items(posted', x) :
            f \in Items(posted, x) \/ f = e
  BY <1>4, <1>6 DEF OpensLess, Opens
<1>11. Lives'
  <2> SUFFICES ASSUME NEW d \in Made, conn[d].phase # "over"
               PROVE  status[conn[d].owner] = "online" /\ client[conn[d].owner].target # None
    BY <1>7 DEF Lives
  <2>1. QED
    BY DEF OInv, ORest, Lives
<1>12. EndedAreOver'
  <2>1. \A x \in Clients : \A f \in Items(posted', x) :
          f.type = "ended" => f \in Items(posted, x) \/ conn'[f.conn].phase = "over"
    BY <1>7, <1>10 DEF e, EndedLambda
  <2>2. QED
    BY <1>1, <1>6, <1>8, <2>1, FadesEnded DEF OInv, ORest
<1>13. Paired' /\ Fresh'
  BY <1>1, <1>8, <1>9, <1>10, FadesPaired, FadesFresh DEF OInv, ORest
<1>14. OneToken' /\ TokenHush'
  <2>1. Carried("none", p)
    BY <1>1, <1>6, <1>8, FadesTokens
  <2>2. QED
    BY <1>8, <1>10, <2>1, FadesHush, CarriedTokens DEF OInv, ORest
<1>15. Shown'
  <2>1. \A d \in Made :
          conn'[d].phase # conn[d].phase /\ Running(conn[d].owner)' =>
            EndedLambda(d) \in Items(posted', conn[d].owner)
    BY <1>6, <1>7 DEF e, p
  <2>2. QED
    BY <1>1, <1>8, <1>10, <2>1, FadesShown DEF OInv, ORest
<1>16. Wired'
  <2>1. \A x \in Clients : \A label \in Labels :
          /\ Channel(x, label)' = Channel(x, label)
          /\ IsOpen(x, label)' = IsOpen(x, label)
    BY DEF Channel, IsOpen
  <2>2. QED
    BY <1>1, <1>7, <1>8, <1>10, <2>1, FadesWired DEF OInv, ORest
<1>17. Answering'
  BY <1>1, <1>6, <1>7, <1>8, <1>10, FadesAnswering DEF OInv, ORest
<1>18. QED
  BY <1>11, <1>12, <1>13, <1>14, <1>15, <1>16, <1>17 DEF ORest

\* An end that another one follows is none that two channels are opening at.
LEMMA OrderlyEnded ==
  ASSUME OInv, NEW c \in Made, Ended(c)
  PROVE  ORest'
<1>1. /\ Severed(c) /\ conn[c].phase # "over" /\ End(c)
      /\ UNCHANGED <<client, connected, status, inbox>>
  BY DEF Ended, Live
<1>2. ASSUME NEW d \in Made, Meets(d)
      PROVE  d # c /\ conn[d].remote # c
  <2>1. /\ conn[d].phase = "connected" /\ conn[conn[d].remote].phase = "connected"
        /\ conn[d].remote # 0 /\ conn[conn[d].remote].remote = d
    BY <1>2 DEF Meets, OInv, ORest, Paired
  <2>2. QED
    BY <1>1, <2>1 DEF Severed, Live
<1>3. QED
  BY <1>1, <1>2, OrderlyEnd

LEMMA OrderlyLinkLost ==
  ASSUME OInv, NEW c \in Made, LinkLost(c), orderly'
  PROVE  ORest'
<1>1. Quiet /\ conn[c].phase # "over" /\ End(c)
  BY DEF LinkLost, Live
<1>2. Hush
  BY <1>1, QuietHush
<1>3. UNCHANGED <<client, connected, status, inbox>>
  BY DEF LinkLost
<1>4. QED
  BY <1>1, <1>2, <1>3, OrderlyEnd

\* The only description, until now to be made, is made and waits to be
\* published, before the candidate.
LEMMA OrderlyLocalDescription ==
  ASSUME OInv, NEW c \in Made, LocalDescription(c)
  PROVE  ORest'
<1> DEFINE p == conn[c].owner
           r == [conn[c] EXCEPT !.described = TRUE]
           type == IF conn[c].role = "caller" THEN "offer" ELSE "answer"
           e == Publication(c, type)
           f == Publication(c, "candidate")
           n == Len(posted[p]) + 1
<1>1. /\ IInv /\ conn \in Seq(Connection) /\ conn[c] \in Connection
      /\ p \in Clients /\ conn[c].phase # "over" /\ ~conn[c].described
      /\ posted \in [Clients -> Seq(Event)] /\ inbox \in [Clients -> Seq(Message)]
      /\ UNCHANGED <<client, connected, status, inbox>>
  BY OrderlyTypes DEF OInv, IInv, Shape, LocalDescription, Live
<1>2. /\ r \in Connection /\ r.owner = conn[c].owner /\ r.role = conn[c].role
      /\ r.phase = conn[c].phase /\ r.opened = conn[c].opened
      /\ r.described /\ r.reachable = conn[c].reachable
      /\ r.remote = conn[c].remote /\ r.awaiting = conn[c].awaiting
  BY <1>1 DEF Connection
<1>3. /\ Len(conn') = Len(conn)
      /\ \A d \in Made : conn'[d] = IF d = c THEN r ELSE conn[d]
  <2>1. conn' = [conn EXCEPT ![c] = r]
    BY DEF LocalDescription
  <2> HIDE DEF r
  <2>2. QED
    BY <1>1, <1>2, <2>1, ConnectionChanges
<1>4. e \in Event /\ f \in Event /\ e.type = "publish" /\ f.type = "publish"
      /\ ~Describes(f.message)
  BY <1>1 DEF Event, Message, Publication, Describes
<1>5. /\ posted' = Put(Put(posted, p, e), p, f)
      /\ status[p] = "online"
      /\ conn[c].role = "callee" => e = Reply(c)
      /\ f = Route(c)
  <2>1. client[p].target # None /\ status[p] = "online"
    BY <1>1 DEF OInv, ORest, Lives
  <2>2. posted' = Put(Put(posted, p, e), p, f)
    BY <2>1 DEF LocalDescription
  <2>3. QED
    BY <2>1, <2>2 DEF Reply, Route
<1> HIDE DEF r, e, f, p
<1>6. /\ posted' \in [Clients -> Seq(Event)]
      /\ Items(posted', p) = Items(posted, p) \cup {e, f}
      /\ \A x \in Clients \ {p} : Items(posted', x) = Items(posted, x)
      /\ \A g, h : \A x \in Clients :
           Precedes(posted, x, g, h) => Precedes(posted', x, g, h)
      /\ Precedes(posted', p, e, f)
      /\ \A x \in Clients : \A i :
           PublishesAt(posted', x, i) => PublishesAt(posted, x, i) \/ (x = p /\ i = n)
  <2>7. posted \in [Clients -> Seq(Event)]
    BY <1>1
  <2>1. ASSUME NEW y \in Clients, NEW g \in Event, NEW h \in Event
        PROVE  /\ Put(posted, y, g) \in [Clients -> Seq(Event)]
               /\ Put(Put(posted, y, g), y, h) \in [Clients -> Seq(Event)]
    BY <2>7, PutTwice
  <2>2. ASSUME NEW y \in Clients, NEW g \in Event, NEW h \in Event
        PROVE  Items(Put(Put(posted, y, g), y, h), y) = Items(posted, y) \cup {g, h}
    BY <2>7, PutTwice
  <2>3. ASSUME NEW y \in Clients, NEW g \in Event, NEW h \in Event
        PROVE  /\ \A x \in Clients \ {y} :
                    Items(Put(Put(posted, y, g), y, h), x) = Items(posted, x)
               /\ Precedes(Put(Put(posted, y, g), y, h), y, g, h)
    BY <2>7, PutTwice
  <2>4. ASSUME NEW y \in Clients, NEW g \in Event, NEW h \in Event
        PROVE  \A g1, h1 : \A x \in Clients :
                 Precedes(posted, x, g1, h1) =>
                   Precedes(Put(Put(posted, y, g), y, h), x, g1, h1)
    BY <2>7, PutTwice
  <2>5. ASSUME NEW x \in Clients, NEW i, PublishesAt(posted', x, i)
        PROVE  PublishesAt(posted, x, i) \/ (x = p /\ i = n)
    <3> DEFINE once == Put(posted, p, e)
    <3>1. once \in [Clients -> Seq(Event)]
      BY <1>1, <1>4, <2>1
    <3>2. PublishesAt(once, x, i) => PublishesAt(posted, x, i) \/ (x = p /\ i = n)
      <4>1. ASSUME NEW y \in Clients, NEW g \in Event, PublishesAt(Put(posted, y, g), x, i)
            PROVE  PublishesAt(posted, x, i) \/ (x = y /\ i = Len(posted[y]) + 1)
        BY <2>7, <4>1, PutAdds
      <4>2. QED
        BY <1>1, <1>4, <4>1 DEF n
    <3> HIDE DEF once
    <3>3. PublishesAt(Put(once, p, f), x, i) => PublishesAt(once, x, i)
      BY <1>1, <1>4, <3>1, PutMarks
    <3>4. PublishesAt(Put(once, p, f), x, i)
      BY <1>5, <2>5 DEF once
    <3>5. QED
      BY <3>2, <3>3, <3>4
  <2>6. QED
    BY <1>1, <1>4, <1>5, <2>1, <2>2, <2>3, <2>4, <2>5
<1> HIDE DEF n
<1>7. /\ Made' = Made
      /\ \A d \in Made :
           /\ conn'[d].owner = conn[d].owner /\ conn'[d].role = conn[d].role
           /\ conn'[d].remote = conn[d].remote /\ conn'[d].awaiting = conn[d].awaiting
           /\ conn'[d].opened = conn[d].opened /\ conn'[d].reachable = conn[d].reachable
           /\ conn'[d].phase = conn[d].phase
           /\ conn'[d].described <=> d = c \/ conn[d].described
  BY <1>2, <1>3 DEF Made
<1>8. Fades /\ \A d \in Made : Meets(d) => Meets(d)'
  <2>1. Fades
    BY <1>1, <1>7 DEF Fades, Running
  <2>2. \A d \in Made : conn[d].phase = "connected" => conn[d].remote \in Made
    BY <1>1, OrderlyTypes DEF OInv, ORest, Paired
  <2>3. QED
    BY <1>7, <2>1, <2>2 DEF Meets
<1>9. /\ OpensLess
      /\ \A x \in Clients : \A g \in Items(posted, x) : g \in Items(posted', x)
      /\ \A x \in Clients : \A g \in Items(posted', x) :
           g.type = "publish" \/ g \in Items(posted, x)
  BY <1>4, <1>6 DEF OpensLess, Opens
<1>10. Lives'
  <2> SUFFICES ASSUME NEW d \in Made, conn[d].phase # "over"
               PROVE  status[conn[d].owner] = "online" /\ client[conn[d].owner].target # None
    BY <1>1, <1>7 DEF Lives
  <2>1. QED
    BY DEF OInv, ORest, Lives
<1>11. EndedAreOver'
  <2>1. \A x \in Clients : \A g \in Items(posted', x) :
          g.type = "ended" => g \in Items(posted, x)
    BY <1>9
  <2>2. QED
    BY <1>1, <1>6, <1>8, <2>1, FadesEnded DEF OInv, ORest
<1>12. Paired' /\ Fresh'
  BY <1>1, <1>8, <1>9, FadesPaired, FadesFresh DEF OInv, ORest
<1>13. OneToken' /\ TokenHush'
  <2>1. Token("made", c, 0)
    BY <1>1 DEF Token
  <2>2. /\ \A l, y, j : Token(l, y, j) => l = "made" /\ y = c /\ j = 0
        /\ Hush
    BY <2>1, TokenAlone, Zenon DEF OInv, ORest, TokenHush
  <2>3. ASSUME NEW k, NEW x, NEW i, Token(k, x, i)'
        PROVE  k = "posted" /\ x = p /\ i = n
    <3>1. CASE /\ k = "made" /\ x \in Made /\ conn[x].phase # "over" /\ ~conn[x].described
               /\ x # c
      <4>1. Token("made", x, 0)
        BY <3>1 DEF Token
      <4>2. QED
        BY <2>2, <3>1, <4>1
    <3>2. CASE k = "posted" /\ x \in Clients /\ Running(x) /\ PublishesAt(posted', x, i)
      <4>1. ~PublishesAt(posted, x, i)
        <5>1. SUFFICES ASSUME PublishesAt(posted, x, i) PROVE FALSE
          OBVIOUS
        <5>2. Token("posted", x, i)
          BY <3>2, <5>1 DEF Token
        <5>3. QED
          BY <2>2, <5>2
      <4>2. QED
        BY <1>6, <3>2, <4>1
    <3>3. CASE k = "inbox" /\ x \in Clients /\ Running(x) /\ DescribesAt(inbox, x, i)
      <4>1. Token("inbox", x, i)
        BY <3>3 DEF Token
      <4>2. QED
        BY <2>2, <4>1
    <3>4. /\ \A y : Running(y)' <=> Running(y)
          /\ DescribesAt(inbox', x, i) <=> DescribesAt(inbox, x, i)
      BY <1>1 DEF Running
    <3>5. QED
      BY <1>7, <2>3, <3>1, <3>2, <3>3, <3>4 DEF Token
  <2>4. OneToken'
    <3>1. ASSUME NEW k, NEW x, NEW i, NEW l, NEW y, NEW j,
                 Token(k, x, i)', Token(l, y, j)'
          PROVE  k = l /\ x = y /\ i = j
      <4>1. k = "posted" /\ x = p /\ i = n
        BY <2>3, <3>1, Zenon
      <4>2. l = "posted" /\ y = p /\ j = n
        BY <2>3, <3>1, Zenon
      <4>3. QED
        BY <4>1, <4>2, Zenon
    <3>2. QED
      BY <3>1, Zenon DEF OneToken
  <2>5. QED
    BY <1>8, <1>9, <2>2, <2>4, FadesHush DEF TokenHush
<1>14. Shown'
  BY <1>1, <1>7, <1>8, <1>9, FadesShown DEF OInv, ORest
<1>15. Wired'
  <2>1. \A x \in Clients : \A label \in Labels :
          /\ Channel(x, label)' = Channel(x, label)
          /\ IsOpen(x, label)' = IsOpen(x, label)
    BY <1>1 DEF Channel, IsOpen
  <2>2. QED
    BY <1>1, <1>7, <1>8, <1>9, <2>1, FadesWired DEF OInv, ORest
<1>16. Answering'
  <2>1. \A d \in Made :
          conn'[d].described /\ conn'[d].role = "callee" /\ ~conn[d].described =>
            Precedes(posted', conn[d].owner, Reply(d), Route(d))
    BY <1>5, <1>6, <1>7 DEF p
  <2>2. QED
    BY <1>1, <1>6, <1>7, <1>8, <1>9, <2>1, FadesAnswering DEF OInv, ORest
<1>17. QED
  BY <1>10, <1>11, <1>12, <1>13, <1>14, <1>15, <1>16 DEF ORest

\* A connection that is up at both ends opens its channels at one of them.
LEMMA OrderlyChannelsUp ==
  ASSUME OInv, NEW c \in Made, NEW first \in Labels, ChannelsUp(c, first)
  PROVE  ORest'
<1> DEFINE p == conn[c].owner
           r == [conn[c] EXCEPT !.opened = TRUE]
           type == IF conn[c].role = "caller" THEN "open" ELSE "channel"
           second == CHOOSE label \in Labels : label # first
           e == ChannelLambda(type, c, first)
           f == ChannelLambda(type, c, second)
<1>1. /\ IInv /\ conn \in Seq(Connection) /\ conn[c] \in Connection
      /\ p \in Clients /\ conn[c].phase = "connected" /\ ~conn[c].opened
      /\ client[p].pc = c
      /\ posted \in [Clients -> Seq(Event)] /\ inbox \in [Clients -> Seq(Message)]
      /\ UNCHANGED <<client, connected, status, inbox>>
  BY OrderlyTypes DEF OInv, IInv, Shape, ChannelsUp
<1>2. /\ r \in Connection /\ r.owner = conn[c].owner /\ r.role = conn[c].role
      /\ r.phase = conn[c].phase /\ r.opened
      /\ r.described = conn[c].described /\ r.reachable = conn[c].reachable
      /\ r.remote = conn[c].remote /\ r.awaiting = conn[c].awaiting
  BY <1>1 DEF Connection
<1>3. /\ Len(conn') = Len(conn)
      /\ \A d \in Made : conn'[d] = IF d = c THEN r ELSE conn[d]
  <2>1. conn' = [conn EXCEPT ![c] = r]
    BY DEF ChannelsUp
  <2> HIDE DEF r
  <2>2. QED
    BY <1>1, <1>2, <2>1, ConnectionChanges
<1>4. second \in Labels /\ \A label \in Labels : label = first \/ label = second
  BY DEF Labels
<1> HIDE DEF second
<1>5. /\ e \in Event /\ f \in Event /\ e.type = type /\ f.type = type
      /\ e.conn = c /\ f.conn = c /\ type \in {"open", "channel"}
  BY <1>4 DEF Event, ChannelLambda
<1>6. posted' = Put(Put(posted, p, e), p, f)
  BY DEF ChannelsUp, ChannelLambda, second
<1> HIDE DEF r, e, f, p, type
<1>7. /\ posted' \in [Clients -> Seq(Event)]
      /\ Items(posted', p) = Items(posted, p) \cup {e, f}
      /\ \A x \in Clients \ {p} : Items(posted', x) = Items(posted, x)
      /\ \A g, h : \A x \in Clients :
           Precedes(posted, x, g, h) => Precedes(posted', x, g, h)
      /\ \A x \in Clients : \A i :
           PublishesAt(posted', x, i) => PublishesAt(posted, x, i)
  <2>7. posted \in [Clients -> Seq(Event)]
    BY <1>1
  <2>1. ASSUME NEW y \in Clients, NEW g \in Event, NEW h \in Event
        PROVE  /\ Put(posted, y, g) \in [Clients -> Seq(Event)]
               /\ Put(Put(posted, y, g), y, h) \in [Clients -> Seq(Event)]
    BY <2>7, PutTwice
  <2>2. ASSUME NEW y \in Clients, NEW g \in Event, NEW h \in Event
        PROVE  Items(Put(Put(posted, y, g), y, h), y) = Items(posted, y) \cup {g, h}
    BY <2>7, PutTwice
  <2>3. ASSUME NEW y \in Clients, NEW g \in Event, NEW h \in Event
        PROVE  \A x \in Clients \ {y} :
                 Items(Put(Put(posted, y, g), y, h), x) = Items(posted, x)
    BY <2>7, PutTwice
  <2>4. ASSUME NEW y \in Clients, NEW g \in Event, NEW h \in Event
        PROVE  \A g1, h1 : \A x \in Clients :
                 Precedes(posted, x, g1, h1) =>
                   Precedes(Put(Put(posted, y, g), y, h), x, g1, h1)
    BY <2>7, PutTwice
  <2>5. ASSUME NEW queue \in [Clients -> Seq(Event)], NEW y \in Clients,
               NEW g \in Event, g.type # "publish", NEW x \in Clients, NEW i,
               PublishesAt(Put(queue, y, g), x, i)
        PROVE  PublishesAt(queue, x, i)
    BY <2>5, PutMarks
  <2>6. \A x \in Clients : \A i : PublishesAt(posted', x, i) => PublishesAt(posted, x, i)
    BY <1>1, <1>5, <1>6, <2>1, <2>5
  <2>8. QED
    BY <1>1, <1>5, <1>6, <2>1, <2>2, <2>3, <2>4, <2>6
<1>8. /\ Made' = Made
      /\ \A d \in Made :
           /\ conn'[d].owner = conn[d].owner /\ conn'[d].role = conn[d].role
           /\ conn'[d].remote = conn[d].remote /\ conn'[d].awaiting = conn[d].awaiting
           /\ conn'[d].reachable = conn[d].reachable
           /\ conn'[d].described = conn[d].described
           /\ conn'[d].phase = conn[d].phase
           /\ conn'[d].opened <=> d = c \/ conn[d].opened
  BY <1>2, <1>3 DEF Made
<1>9. Fades /\ \A d \in Made : Meets(d) => Meets(d)'
  <2>1. Fades
    BY <1>1, <1>8 DEF Fades, Running
  <2>2. \A d \in Made : conn[d].phase = "connected" => conn[d].remote \in Made
    BY <1>1, OrderlyTypes DEF OInv, ORest, Paired
  <2>3. QED
    BY <1>8, <2>1, <2>2 DEF Meets
<1>10. Meets(c) /\ ~Hush
  BY <1>1 DEF OInv, ORest, Fresh, Hush
<1>11. /\ \A x \in Clients : \A g \in Items(posted, x) : g \in Items(posted', x)
       /\ \A x \in Clients : \A g \in Items(posted', x) :
            g \in Items(posted, x) \/ (x = p /\ g \in {e, f})
  BY <1>7
<1>12. Lives'
  <2> SUFFICES ASSUME NEW d \in Made, conn[d].phase # "over"
               PROVE  status[conn[d].owner] = "online" /\ client[conn[d].owner].target # None
    BY <1>1, <1>8 DEF Lives
  <2>1. QED
    BY DEF OInv, ORest, Lives
<1>13. EndedAreOver'
  <2>1. \A x \in Clients : \A g \in Items(posted', x) :
          g.type = "ended" => g \in Items(posted, x)
    BY <1>5, <1>11
  <2>2. QED
    BY <1>1, <1>7, <1>9, <2>1, FadesEnded DEF OInv, ORest
<1>14. Paired'
  BY <1>1, <1>9, FadesPaired DEF OInv, ORest
<1>15. Fresh'
  <2>1. ASSUME NEW x \in Clients, Running(x), NEW g \in Items(posted', x), Opens(g)
        PROVE  client[x].pc = g.conn /\ conn'[g.conn].opened /\ Meets(g.conn)'
    <3>1. CASE x = p /\ g \in {e, f}
      BY <1>1, <1>5, <1>8, <1>9, <1>10, <3>1
    <3>2. CASE g \in Items(posted, x)
      <4>1. g.conn \in Made /\ client[x].pc = g.conn /\ conn[g.conn].opened /\ Meets(g.conn)
        BY <2>1, <3>2, ChannelLambdas
      <4>2. QED
        BY <1>8, <1>9, <4>1
    <3>3. QED
      BY <1>11, <2>1, <3>1, <3>2
  <2>2. \A d \in Made : conn'[d].phase = "connected" /\ ~conn'[d].opened => Meets(d)'
    BY <1>8, <1>9 DEF OInv, ORest, Fresh
  <2>3. QED
    BY <1>1, <1>8, <2>1, <2>2 DEF Fresh, Running
<1>16. OneToken' /\ TokenHush'
  <2>1. Carried("none", p)
    BY <1>1, <1>7, <1>9, FadesTokens
  <2>2. QED
    BY <1>10, <2>1, CarriedTokens DEF OInv, ORest
<1>17. Shown'
  BY <1>1, <1>8, <1>9, <1>11, FadesShown DEF OInv, ORest
<1>18. Wired'
  <2> SUFFICES ASSUME NEW x \in Clients, Running(x),
                      NEW d, d = client[x].pc, d # 0, conn'[d].phase # "over"
               PROVE  /\ conn'[d].role = "caller" =>
                           \A label \in Labels : Channel(x, label) = d
                      /\ (\A label \in Labels : IsOpen(x, label)) => connected[x]
                      /\ conn'[d].opened =>
                           \A label \in Labels :
                             \/ ChannelLambda("channel", d, label) \in Items(posted', x)
                             \/ /\ Channel(x, label) = d
                                /\ \/ IsOpen(x, label)
                                   \/ ChannelLambda("open", d, label) \in Items(posted', x)
    <3>1. /\ client' = client /\ connected' = connected
          /\ \A x : Running(x)' <=> Running(x)
          /\ \A x, label : Channel(x, label)' = Channel(x, label)
          /\ \A x, label : IsOpen(x, label)' = IsOpen(x, label)
      BY <1>1 DEF Running, Channel, IsOpen
    <3>2. QED
      BY <3>1, Zenon DEF Wired, ChannelLambda, Items
  <2>1. d \in Made /\ conn[d].owner = x /\ conn[d].role \in {"caller", "callee"}
    BY <1>1, OrderlyTypes
  <2>2. /\ conn[d].role = "caller" => \A label \in Labels : Channel(x, label) = d
        /\ (\A label \in Labels : IsOpen(x, label)) => connected[x]
        /\ conn[d].opened =>
             \A label \in Labels :
               \/ ChannelLambda("channel", d, label) \in Items(posted, x)
               \/ /\ Channel(x, label) = d
                  /\ \/ IsOpen(x, label)
                     \/ ChannelLambda("open", d, label) \in Items(posted, x)
    BY <1>8, <2>1 DEF OInv, ORest, Wired
  <2>3. CASE d # c
    <3>1. conn'[d].role = conn[d].role /\ (conn'[d].opened => conn[d].opened)
      BY <1>8, <2>1, <2>3
    <3>2. QED
      BY <1>11, <2>2, <3>1
  <2>4. CASE d = c
    <3>1. x = p
      BY <2>1, <2>4 DEF p
    <3>2. \A label \in Labels : ChannelLambda(type, c, label) \in Items(posted', p)
      <4>1. e \in Items(posted', p) /\ f \in Items(posted', p)
        BY <1>7
      <4>2. QED
        BY <1>4, <4>1 DEF e, f
    <3>3. conn'[d].role = conn[d].role
      BY <1>8, <2>1
    <3>4. CASE conn[d].role = "caller"
      BY <2>2, <2>4, <3>1, <3>2, <3>3, <3>4 DEF type
    <3>5. CASE conn[d].role = "callee"
      BY <2>2, <2>4, <3>1, <3>2, <3>3, <3>5 DEF type
    <3>6. QED
      BY <2>1, <3>4, <3>5
  <2>5. QED
    BY <2>3, <2>4
<1>19. Answering'
  BY <1>1, <1>7, <1>8, <1>9, <1>11, FadesAnswering DEF OInv, ORest
<1>20. QED
  BY <1>12, <1>13, <1>14, <1>15, <1>16, <1>17, <1>18, <1>19 DEF ORest

\* Two connections that can talk come up together, when no description is
\* anywhere.
LEMMA OrderlyConnect ==
  ASSUME OInv, NEW c \in Made, NEW d \in Made, Connect(c, d)
  PROVE  ORest'
<1>1. /\ IInv /\ conn \in Seq(Connection) /\ \A e \in Made : conn[e] \in Connection
      /\ c # 0 /\ d # 0
      /\ posted \in [Clients -> Seq(Event)] /\ inbox \in [Clients -> Seq(Message)]
      /\ UNCHANGED <<client, connected, status, posted, inbox>>
      /\ Linked(c, d)
  BY OrderlyTypes DEF OInv, IInv, Shape, Connect, CanConnect, Made
<1>2. /\ Made' = Made
      /\ \A e \in Made :
           /\ conn'[e].owner = conn[e].owner /\ conn'[e].role = conn[e].role
           /\ conn'[e].remote = conn[e].remote /\ conn'[e].awaiting = conn[e].awaiting
           /\ conn'[e].reachable = conn[e].reachable
           /\ conn'[e].described = conn[e].described
           /\ conn'[e].opened = conn[e].opened
           /\ conn'[e].phase = IF e \in {c, d} THEN "connected" ELSE conn[e].phase
      /\ conn[c].phase = "new" /\ conn[d].phase = "new"
  <2>1. /\ Len(conn') = Len(conn)
        /\ conn[c].phase = "new" /\ conn[d].phase = "new"
        /\ \A e \in Made :
             conn'[e] = IF e \in {c, d} THEN [conn[e] EXCEPT !.phase = "connected"]
                        ELSE conn[e]
    BY <1>1, ConnectChanges
  <2>2. Made' = Made
    BY <2>1 DEF Made
  <2>3. \A e \in Made : conn[e] \in Connection
    BY <1>1
  <2>4. QED
    <3>2. ASSUME NEW e \in Made, e \in {c, d}
          PROVE  /\ conn'[e].owner = conn[e].owner /\ conn'[e].role = conn[e].role
                 /\ conn'[e].remote = conn[e].remote
                 /\ conn'[e].awaiting = conn[e].awaiting
                 /\ conn'[e].reachable = conn[e].reachable
                 /\ conn'[e].described = conn[e].described
                 /\ conn'[e].opened = conn[e].opened /\ conn'[e].phase = "connected"
      <4>1. conn[e] \in Connection /\ conn'[e] = [conn[e] EXCEPT !.phase = "connected"]
        BY <2>1, <2>3, <3>2
      <4>2. QED
        BY <4>1 DEF Connection
    <3>3. \A e \in Made : e \notin {c, d} => conn'[e] = conn[e]
      BY <2>1
    <3>4. QED
      BY <2>1, <2>2, <3>2, <3>3
<1>3. NoToken
  <2>1. ~Hush
    BY <1>1, <1>2 DEF Hush
  <2>2. QED
    BY <2>1 DEF OInv, ORest, TokenHush, NoToken
<1>4. /\ \A x : Running(x)' <=> Running(x)
      /\ \A x, label : Channel(x, label)' = Channel(x, label)
      /\ \A x, label : IsOpen(x, label)' = IsOpen(x, label)
      /\ client' = client /\ connected' = connected /\ status' = status
      /\ posted' = posted /\ inbox' = inbox
  BY <1>1 DEF Running, Channel, IsOpen
<1>5. /\ \A e \in Made : conn[e].remote \in Made \cup {0}
      /\ \A x \in Clients : client[x].pc \in Made \cup {0}
      /\ conn[c].remote = d /\ conn[d].remote = c
  BY <1>1, OrderlyTypes DEF Linked
<1>6. \A e \in Made : Meets(e) => Meets(e)'
  <2>1. \A e \in Made : conn[e].phase = "connected" => conn[e].remote \in Made
    BY <1>1, <1>5 DEF OInv, ORest, Paired
  <2>2. QED
    BY <1>2, <2>1 DEF Meets
<1>7. Lives'
  BY <1>2, <1>4 DEF OInv, ORest, Lives
<1>8. EndedAreOver'
  <2> SUFFICES ASSUME NEW x \in Clients, NEW e \in Items(posted, x), e.type = "ended"
               PROVE  conn'[e.conn].phase = "over"
    BY <1>4 DEF EndedAreOver, Items
  <2>1. e \in Event
    BY <1>1 DEF Items
  <2>2. e.conn \in Made
    BY <2>1 DEF Event
  <2>3. conn[e.conn].phase = "over"
    BY DEF OInv, ORest, EndedAreOver
  <2>4. QED
    BY <1>2, <2>2, <2>3
<1>9. Paired'
  <2> SUFFICES ASSUME NEW e \in Made
               PROVE  /\ conn'[e].awaiting => conn'[e].remote = 0
                      /\ conn'[e].phase = "new" => ~conn'[e].opened
                      /\ conn'[e].phase = "connected" =>
                           /\ conn'[e].remote # 0
                           /\ conn'[conn'[e].remote].remote = e
                           /\ conn'[conn'[e].remote].phase # "new"
    BY <1>2 DEF Paired
  <2>1. /\ conn[e].awaiting => conn[e].remote = 0
        /\ conn[e].phase = "new" => ~conn[e].opened
        /\ conn[e].phase = "connected" =>
             /\ conn[e].remote # 0 /\ conn[conn[e].remote].remote = e
             /\ conn[conn[e].remote].phase # "new"
    BY DEF OInv, ORest, Paired
  <2>2. CASE e \in {c, d}
    BY <1>1, <1>2, <1>5, <2>1, <2>2
  <2>3. CASE e \notin {c, d}
    BY <1>2, <1>5, <2>1, <2>3
  <2>4. QED
    BY <2>2, <2>3
<1>10. Fresh'
  <2>1. ASSUME NEW x \in Clients, Running(x), NEW g \in Items(posted, x), Opens(g)
        PROVE  client[x].pc = g.conn /\ conn'[g.conn].opened /\ Meets(g.conn)'
    <3>1. g.conn \in Made /\ client[x].pc = g.conn /\ conn[g.conn].opened /\ Meets(g.conn)
      BY <2>1, ChannelLambdas
    <3>2. QED
      BY <1>2, <1>6, <3>1
  <2>2. ASSUME NEW e \in Made, conn'[e].phase = "connected", ~conn'[e].opened
        PROVE  Meets(e)'
    <3>1. CASE e \in {c, d}
      BY <1>2, <1>5, <3>1 DEF Meets
    <3>2. CASE e \notin {c, d}
      BY <1>2, <1>6, <2>2, <3>2 DEF OInv, ORest, Fresh
    <3>3. QED
      BY <3>1, <3>2
  <2>3. QED
    BY <1>2, <1>4, <2>1, <2>2 DEF Fresh, Items
<1>11. OneToken' /\ TokenHush'
  <2>1. ASSUME NEW k, NEW x, NEW i, Token(k, x, i)'
        PROVE  Token(k, x, i)
    <3>1. x \in Made' => x \in Made /\ (conn'[x].phase # "over" => conn[x].phase # "over")
                         /\ conn'[x].described = conn[x].described
      BY <1>2
    <3>2. /\ PublishesAt(posted', x, i) <=> PublishesAt(posted, x, i)
          /\ DescribesAt(inbox', x, i) <=> DescribesAt(inbox, x, i)
      BY <1>4
    <3>3. QED
      BY <1>4, <2>1, <3>1, <3>2 DEF Token
  <2>2. \A k, x, i : ~Token(k, x, i)'
    BY <1>3, <2>1 DEF NoToken
  <2>3. QED
    BY <2>2, Zenon DEF OneToken, TokenHush
<1>12. Shown'
  <2> SUFFICES ASSUME NEW x \in Clients, Running(x), connected[x],
                      NEW e, e = client[x].pc
               PROVE  /\ e # 0
                      /\ \/ conn'[e].phase = "connected"
                         \/ conn'[e].phase = "new" /\ conn'[e].role = "callee"
                         \/ client[x].target # None /\ EndedLambda(e) \in Items(posted, x)
    BY <1>4 DEF Shown, EndedLambda, Items
  <2>1. /\ e # 0
        /\ \/ conn[e].phase = "connected"
           \/ conn[e].phase = "new" /\ conn[e].role = "callee"
           \/ client[x].target # None /\ EndedLambda(e) \in Items(posted, x)
    BY DEF OInv, ORest, Shown
  <2>2. e \in Made
    BY <1>5, <2>1
  <2>3. QED
    BY <1>2, <2>1, <2>2
<1>13. Wired'
  <2> SUFFICES ASSUME NEW x \in Clients, Running(x),
                      NEW e, e = client[x].pc, e # 0, conn'[e].phase # "over"
               PROVE  /\ conn'[e].role = "caller" =>
                           \A label \in Labels : Channel(x, label) = e
                      /\ (\A label \in Labels : IsOpen(x, label)) => connected[x]
                      /\ conn'[e].opened =>
                           \A label \in Labels :
                             \/ ChannelLambda("channel", e, label) \in Items(posted', x)
                             \/ /\ Channel(x, label) = e
                                /\ \/ IsOpen(x, label)
                                   \/ ChannelLambda("open", e, label) \in Items(posted', x)
    BY <1>4, Zenon DEF Wired, ChannelLambda, Items
  <2>1. /\ conn[e].phase # "over" /\ conn'[e].role = conn[e].role
        /\ conn'[e].opened = conn[e].opened
    BY <1>2, <1>5
  <2>2. QED
    BY <1>4, <2>1 DEF OInv, ORest, Wired
<1>14. Answering'
  <2> SUFFICES ASSUME NEW e \in Made,
                      conn'[e].phase = "new", conn[e].role = "callee",
                      conn'[conn[e].remote].phase # "over",
                      conn[conn[e].remote].remote \in {0, e}
               PROVE  OnTheWay(e)'
    BY <1>1, <1>2, OrderlyTypes DEF Answering
  <2> DEFINE k == conn[e].remote
             o == conn[e].owner
             q == conn[k].owner
  <2>1. k \in Made
    BY <1>1, OrderlyTypes
  <2>2. conn[e].phase = "new" /\ conn[k].phase # "over"
    BY <1>2, <2>1
  <2>3. OnTheWay(e)
    BY <2>2 DEF OInv, ORest, Answering
  <2>4. Reply(e)' = Reply(e) /\ Route(e)' = Route(e)
    BY <1>2 DEF Reply, Route, Publication
  <2>5. /\ conn'[e].remote = k /\ conn'[e].owner = o /\ conn'[k].owner = q
        /\ conn'[k].reachable = conn[k].reachable /\ conn'[k].remote = conn[k].remote
        /\ conn'[e].described = conn[e].described
    BY <1>2, <2>1
  <2>6. QED
    BY <1>4, <2>3, <2>4, <2>5 DEF OnTheWay
<1>15. QED
  BY <1>7, <1>8, <1>9, <1>10, <1>11, <1>12, <1>13, <1>14 DEF ORest

-----------------------------------------------------------------------------
(* Calls, and offers that are accepted. *)

\* When nothing is about to open, and no description is left, p replaces its
\* connection by a new one, which has one to make.
LEMMA OrderlyReplaces ==
  ASSUME OInv, Hush, NEW p \in Clients, status[p] = "online", NEW r, NEW m,
         conn' = Append(CloseConnection(conn, client[p].pc), r),
         client' = [client EXCEPT ![p] = m],
         posted' = Announced(posted, p, client[p].pc),
         UNCHANGED <<connected, status>>,
         r.owner = p, r.role \in {"caller", "callee"}, r.phase = "new",
         r.remote \in Made \cup {0}, r.awaiting => r.remote = 0,
         ~r.described, ~r.opened,
         m.pc = Len(conn) + 1, m.target # None, ~m.controlOpen, ~m.binaryOpen,
         r.role = "caller" =>
           ~connected[p] /\ m.control = m.pc /\ m.binary = m.pc,
         inbox' \in [Clients -> Seq(Message)],
         \A x \in Clients : x # p => inbox'[x] = inbox[x],
         \A l, y, j : Token(l, y, j) => l = "inbox",
         \A x \in Clients : \A i : ~(Running(x) /\ DescribesAt(inbox', x, i))
  PROVE  ORest'
<1> DEFINE n == Len(conn) + 1
           c == client[p].pc
           e == EndedLambda(c)
<1>1. /\ IInv /\ conn \in Seq(Connection) /\ c \in Made \cup {0}
      /\ \A d \in Made : /\ conn[d] \in Connection /\ conn[d].owner \in Clients
                         /\ conn[d].remote \in Made \cup {0}
                         /\ d # 0
      /\ \A x \in Clients : client[x].pc \in Made \cup {0}
      /\ client \in [Clients -> Client]
      /\ posted \in [Clients -> Seq(Event)] /\ inbox \in [Clients -> Seq(Message)]
  BY OrderlyTypes DEF OInv, IInv, Shape, Made
<1>2. /\ n \notin Made /\ n # 0 /\ Made' = Made \cup {n} /\ conn'[n] = r
      /\ \A d \in Made :
           conn'[d] = IF d = c THEN [conn[d] EXCEPT !.phase = "over"] ELSE conn[d]
  BY <1>1, ClosedAndAppended
<1>3. \A d \in Made :
        /\ conn'[d].owner = conn[d].owner /\ conn'[d].role = conn[d].role
        /\ conn'[d].remote = conn[d].remote /\ conn'[d].awaiting = conn[d].awaiting
        /\ conn'[d].reachable = conn[d].reachable
        /\ conn'[d].described = conn[d].described
        /\ conn'[d].opened = conn[d].opened
        /\ conn'[d].phase = IF d = c THEN "over" ELSE conn[d].phase
  <2> SUFFICES ASSUME NEW d \in Made
               PROVE  /\ conn'[d].owner = conn[d].owner /\ conn'[d].role = conn[d].role
                      /\ conn'[d].remote = conn[d].remote
                      /\ conn'[d].awaiting = conn[d].awaiting
                      /\ conn'[d].reachable = conn[d].reachable
                      /\ conn'[d].described = conn[d].described
                      /\ conn'[d].opened = conn[d].opened
                      /\ conn'[d].phase = IF d = c THEN "over" ELSE conn[d].phase
    OBVIOUS
  <2>1. /\ conn[d] \in Connection
        /\ conn'[d] = IF d = c THEN [conn[d] EXCEPT !.phase = "over"] ELSE conn[d]
    BY <1>1, <1>2
  <2>2. QED
    BY <2>1 DEF Connection
<1>4. \A d \in Made : conn'[d].phase # "over" =>
        conn[d].phase # "over" /\ conn[d].owner # p
  <2> SUFFICES ASSUME NEW d \in Made, conn'[d].phase # "over"
               PROVE  conn[d].phase # "over" /\ conn[d].owner # p
    OBVIOUS
  <2>1. d # c /\ conn[d].phase # "over"
    BY <1>3
  <2>2. client[conn[d].owner].pc = d
    BY <1>1, <2>1, OrderlyTypes
  <2>3. QED
    BY <2>1, <2>2
<1>5. client'[p] = m /\ \A x \in Clients : x # p => client'[x] = client[x]
  BY <1>1
<1>6. posted' = IF c = 0 THEN posted ELSE Put(posted, p, e)
  BY DEF Announced, EndedLambda
<1>0. m.pc = n
  OBVIOUS
<1>7. c # 0 => e \in Event /\ e.type = "ended" /\ conn'[c].phase = "over"
  BY <1>1, <1>3 DEF EndedLambda, Event
<1> HIDE DEF n, c, e
<1>8. /\ posted' \in [Clients -> Seq(Event)]
      /\ \A x \in Clients : x # p => posted'[x] = posted[x]
      /\ \A f \in Items(posted', p) : f \in Items(posted, p) \/ (c # 0 /\ f = e)
      /\ \A x \in Clients : \A i : PublishesAt(posted', x, i) => PublishesAt(posted, x, i)
  <2>1. CASE c = 0
    BY <1>1, <1>6, <2>1
  <2>2. CASE c # 0
    <3>1. posted \in [Clients -> Seq(Event)]
      BY <1>1
    <3>2. ASSUME NEW x \in Clients, NEW f \in Event
          PROVE  /\ Put(posted, x, f) \in [Clients -> Seq(Event)]
                 /\ Items(Put(posted, x, f), x) = Items(posted, x) \cup {f}
      <4>1. Put(posted, x, f) \in [Clients -> Seq(Event)]
        BY <3>1, PutItems
      <4>2. Items(Put(posted, x, f), x) = Items(posted, x) \cup {f}
        BY <3>1, PutItems
      <4>3. QED
        BY <4>1, <4>2
    <3>3. ASSUME NEW f \in Event, f.type = "ended", NEW x \in Clients, NEW i,
                 PublishesAt(Put(posted, p, f), x, i)
          PROVE  PublishesAt(posted, x, i)
      BY <3>1, <3>3, PutMarks
    <3>4. posted' = Put(posted, p, e) /\ e \in Event /\ e.type = "ended"
      BY <1>6, <1>7, <2>2
    <3>5. \A x \in Clients : x # p => posted'[x] = posted[x]
      BY <3>1, <3>4 DEF Put
    <3>6. QED
      BY <2>2, <3>2, <3>3, <3>4, <3>5
  <2>3. QED
    BY <2>1, <2>2
<1>9. \A x \in Clients : \A f \in Items(posted', x) :
        f \in Items(posted, x) \/ (x = p /\ c # 0 /\ f = e)
  <2>1. \A x \in Clients : x # p => Items(posted', x) = Items(posted, x)
    BY <1>8 DEF Items
  <2>2. QED
    BY <1>8, <2>1
<1>10. \A x : Running(x)' <=> Running(x)
  BY DEF Running
<1>11. Lives'
  <2> SUFFICES ASSUME NEW d \in Made', conn'[d].phase # "over"
               PROVE  /\ status[conn'[d].owner] = "online"
                      /\ client'[conn'[d].owner].target # None
    BY DEF Lives
  <2>1. CASE d = n
    BY <1>2, <1>5, <2>1
  <2>2. CASE d \in Made
    <3>1. /\ conn[d].phase # "over" /\ conn[d].owner # p
          /\ conn'[d].owner = conn[d].owner /\ conn[d].owner \in Clients
      BY <1>1, <1>3, <1>4, <2>2
    <3>2. client'[conn[d].owner] = client[conn[d].owner]
      BY <1>5, <3>1
    <3>3. QED
      BY <2>2, <3>1, <3>2 DEF OInv, ORest, Lives
  <2>3. QED
    BY <1>2, <2>1, <2>2
<1>12. EndedAreOver'
  <2> SUFFICES ASSUME NEW x \in Clients, NEW f \in Items(posted', x), f.type = "ended"
               PROVE  conn'[f.conn].phase = "over"
    BY DEF EndedAreOver, Items
  <2>1. CASE c # 0 /\ f = e
    BY <1>7, <2>1 DEF e, EndedLambda
  <2>2. CASE f \in Items(posted, x)
    <3>1. f \in Event
      BY <1>1, <2>2 DEF Items
    <3>2. f.conn \in Made
      BY <3>1 DEF Event
    <3>3. conn[f.conn].phase = "over"
      BY <2>2 DEF OInv, ORest, EndedAreOver
    <3>4. QED
      BY <1>3, <3>2, <3>3
  <2>3. QED
    BY <1>9, <2>1, <2>2
<1>13. Paired'
  <2> SUFFICES ASSUME NEW d \in Made'
               PROVE  /\ conn'[d].awaiting => conn'[d].remote = 0
                      /\ conn'[d].phase = "new" => ~conn'[d].opened
                      /\ conn'[d].phase = "connected" =>
                           /\ conn'[d].remote # 0
                           /\ conn'[conn'[d].remote].remote = d
                           /\ conn'[conn'[d].remote].phase # "new"
    BY DEF Paired
  <2>1. CASE d = n
    BY <1>2, <2>1
  <2>2. CASE d \in Made
    <3>1. /\ conn[d].awaiting => conn[d].remote = 0
          /\ conn[d].phase = "new" => ~conn[d].opened
          /\ conn[d].phase = "connected" =>
               /\ conn[d].remote # 0 /\ conn[conn[d].remote].remote = d
               /\ conn[conn[d].remote].phase # "new"
      BY <2>2 DEF OInv, ORest, Paired
    <3>2. conn[d].remote \in Made \cup {0}
      BY <1>1, <2>2
    <3>3. QED
      BY <1>3, <2>2, <3>1, <3>2, ZenonT(40)
  <2>3. QED
    BY <1>2, <2>1, <2>2
<1>14. \A x \in Clients : Running(x) => \A f \in Items(posted', x) : ~Opens(f)
  BY <1>7, <1>9 DEF Hush, Opens
<1>15. \A d \in Made' : conn'[d].phase = "connected" => conn'[d].opened
  <2> SUFFICES ASSUME NEW d \in Made', conn'[d].phase = "connected"
               PROVE  conn'[d].opened
    OBVIOUS
  <2>1. d \in Made
    BY <1>2
  <2>2. conn[d].phase = "connected"
    BY <1>3, <2>1
  <2>3. QED
    BY <1>3, <2>1, <2>2 DEF Hush
<1>16. Fresh'
  BY <1>10, <1>14, <1>15 DEF Fresh, Items
<1>17. Hush'
  <2>1. ASSUME NEW d \in Made', NEW k \in Made',
               conn'[d].phase = "new", conn'[k].phase = "new",
               conn'[d].remote = k, conn'[k].remote = d
        PROVE  FALSE
    <3>1. \A y \in Made' : conn'[y].remote \in Made \cup {0}
      BY <1>1, <1>2, <1>3
    <3>2. d \in Made /\ k \in Made
      BY <1>2, <2>1, <3>1, ZenonT(40)
    <3>3. conn[d].phase = "new" /\ conn[k].phase = "new" /\ Linked(d, k)
      BY <1>3, <2>1, <3>2 DEF Linked
    <3>4. QED
      BY <3>2, <3>3 DEF Hush
  <2>2. QED
    BY <1>10, <1>14, <1>15, <2>1 DEF Hush, Linked, Items
<1>18. OneToken' /\ TokenHush'
  <2>1. ASSUME NEW k, NEW x, NEW i, Token(k, x, i)'
        PROVE  k = "made" /\ x = n /\ i = 0
    <3>1. CASE /\ k = "made" /\ x \in Made' /\ i = 0
               /\ conn'[x].phase # "over" /\ ~conn'[x].described
      <4>1. x \notin Made
        <5>1. SUFFICES ASSUME x \in Made PROVE FALSE
          OBVIOUS
        <5>2. conn[x].phase # "over" /\ ~conn[x].described
          BY <1>3, <3>1, <5>1
        <5>3. Token("made", x, 0)
          BY <5>1, <5>2 DEF Token
        <5>4. QED
          BY <5>3
      <4>2. QED
        BY <1>2, <3>1, <4>1
    <3>2. ~(k = "posted" /\ x \in Clients /\ Running(x) /\ PublishesAt(posted', x, i))
      <4>1. SUFFICES ASSUME k = "posted", x \in Clients, Running(x), PublishesAt(posted', x, i)
                     PROVE  FALSE
        OBVIOUS
      <4>2. Token("posted", x, i)
        BY <1>8, <4>1 DEF Token
      <4>3. QED
        BY <4>2
    <3>3. ~(k = "inbox" /\ x \in Clients /\ Running(x) /\ DescribesAt(inbox', x, i))
      OBVIOUS
    <3>4. QED
      BY <1>10, <2>1, <3>1, <3>2, <3>3 DEF Token
  <2>2. ASSUME NEW k, NEW x, NEW i, NEW l, NEW y, NEW j,
               Token(k, x, i)', Token(l, y, j)'
        PROVE  k = l /\ x = y /\ i = j
    <3>1. k = "made" /\ x = n /\ i = 0
      BY <2>1, <2>2, Zenon
    <3>2. l = "made" /\ y = n /\ j = 0
      BY <2>1, <2>2, Zenon
    <3>3. QED
      BY <3>1, <3>2, Zenon
  <2>3. OneToken'
    BY <2>2, Zenon DEF OneToken
  <2>4. QED
    BY <1>17, <2>3 DEF TokenHush
<1>19. Shown'
  <2> SUFFICES ASSUME NEW x \in Clients, Running(x), connected[x],
                      NEW d, d = client'[x].pc
               PROVE  /\ d # 0
                      /\ \/ conn'[d].phase = "connected"
                         \/ conn'[d].phase = "new" /\ conn'[d].role = "callee"
                         \/ /\ client'[x].target # None
                            /\ EndedLambda(d) \in Items(posted', x)
    BY <1>10 DEF Shown, EndedLambda, Items
  <2>1. CASE x = p
    <3>1. d = n /\ n # 0 /\ conn'[n] = r
      BY <1>0, <1>2, <1>5, <2>1
    <3>2. r.role = "callee"
      BY <2>1
    <3>3. QED
      BY <3>1, <3>2
  <2>2. CASE x # p
    <3>1. client'[x] = client[x] /\ posted'[x] = posted[x]
      BY <1>5, <1>8, <2>2
    <3>2. Items(posted', x) = Items(posted, x)
      BY <3>1 DEF Items
    <3>3. /\ d # 0
          /\ \/ conn[d].phase = "connected"
             \/ conn[d].phase = "new" /\ conn[d].role = "callee"
             \/ client[x].target # None /\ EndedLambda(d) \in Items(posted, x)
      BY <3>1 DEF OInv, ORest, Shown
    <3>4. d \in Made /\ conn[d].owner = x
      BY <1>1, <3>1, <3>3, OrderlyTypes
    <3>5. d # c
      BY <1>1, <2>2, <3>4, OrderlyTypes DEF c
    <3>6. conn'[d].phase = conn[d].phase /\ conn'[d].role = conn[d].role
      <4>1. d \in Made
        BY <3>4
      <4>2. QED
        BY <1>3, <3>5, <4>1, ZenonT(40)
    <3>7. QED
      BY <3>1, <3>2, <3>3, <3>6
  <2>3. QED
    BY <2>1, <2>2
<1>20. Wired'
  <2> SUFFICES ASSUME NEW x \in Clients, Running(x),
                      NEW d, d = client'[x].pc, d # 0, conn'[d].phase # "over"
               PROVE  /\ conn'[d].role = "caller" =>
                           \A label \in Labels : Channel(x, label)' = d
                      /\ (\A label \in Labels : IsOpen(x, label)') => connected[x]
                      /\ conn'[d].opened =>
                           \A label \in Labels :
                             \/ ChannelLambda("channel", d, label) \in Items(posted', x)
                             \/ /\ Channel(x, label)' = d
                                /\ \/ IsOpen(x, label)'
                                   \/ ChannelLambda("open", d, label) \in Items(posted', x)
    BY <1>10, ZenonT(40) DEF Wired, ChannelLambda, Items, Channel, IsOpen
  <2>1. CASE x = p
    <3>1. d = n /\ conn'[d] = r
      BY <1>0, <1>2, <1>5, <2>1
    <3>2. /\ IsOpen(p, "control")' <=> m.controlOpen
          /\ Channel(p, "control")' = m.control
          /\ Channel(p, "binary")' = m.binary
      BY <1>5 DEF IsOpen, Channel
    <3>3. Labels = {"control", "binary"}
      BY DEF Labels
    <3>4. ~ \A label \in Labels : IsOpen(p, label)'
      BY <3>2, <3>3, Zenon
    <3>5. conn'[d].role = "caller" => \A label \in Labels : Channel(p, label)' = d
      BY <3>1, <3>2, <3>3 DEF n
    <3>6. QED
      BY <2>1, <3>1, <3>4, <3>5
  <2>2. CASE x # p
    <3>1. client'[x] = client[x] /\ posted'[x] = posted[x]
      BY <1>5, <1>8, <2>2
    <3>2. Items(posted', x) = Items(posted, x)
      BY <3>1 DEF Items
    <3>3. /\ \A label \in Labels : Channel(x, label)' = Channel(x, label)
          /\ \A label \in Labels : IsOpen(x, label)' <=> IsOpen(x, label)
      BY <3>1 DEF Channel, IsOpen
    <3>4. d \in Made /\ conn[d].phase # "over"
      BY <1>1, <1>3, <3>1, ZenonT(40)
    <3>5. /\ conn[d].role = "caller" => \A label \in Labels : Channel(x, label) = d
          /\ (\A label \in Labels : IsOpen(x, label)) => connected[x]
          /\ conn[d].opened =>
               \A label \in Labels :
                 \/ ChannelLambda("channel", d, label) \in Items(posted, x)
                 \/ /\ Channel(x, label) = d
                    /\ \/ IsOpen(x, label)
                       \/ ChannelLambda("open", d, label) \in Items(posted, x)
      BY <3>1, <3>4 DEF OInv, ORest, Wired
    <3>6. conn'[d].role = conn[d].role /\ conn'[d].opened = conn[d].opened
      BY <1>3, <3>4
    <3>7. QED
      BY <3>2, <3>3, <3>5, <3>6
  <2>3. QED
    BY <2>1, <2>2
<1>21. Answering'
  <2> SUFFICES ASSUME NEW d \in Made',
                      conn'[d].phase = "new", conn'[d].role = "callee",
                      conn'[conn'[d].remote].phase # "over",
                      conn'[conn'[d].remote].remote \in {0, d}
               PROVE  OnTheWay(d)'
    BY DEF Answering
  <2>1. CASE d = n
    BY <1>2, <2>1 DEF OnTheWay
  <2>2. CASE d \in Made
    <3> DEFINE k == conn[d].remote
               o == conn[d].owner
               q == conn[k].owner
    <3>1. /\ conn'[d].remote = k /\ conn'[d].owner = o /\ conn[d].role = "callee"
          /\ conn[d].phase = "new"
          /\ conn'[d].described = conn[d].described
      BY <1>2, <1>3, <2>2
    <3>2. k \in Made /\ o \in Clients /\ q \in Clients
      BY <1>1, <2>2, <3>1, OrderlyTypes
    <3>3. /\ conn'[k].owner = q /\ conn'[k].remote = conn[k].remote
          /\ conn'[k].reachable = conn[k].reachable
          /\ conn[k].phase # "over" /\ q # p
      BY <1>3, <1>4, <3>1, <3>2, ZenonT(40)
    <3>4. o # p
      BY <1>4, <2>2
    <3>5. OnTheWay(d)
      BY <2>2, <3>1, <3>3 DEF OInv, ORest, Answering
    <3>6. Reply(d)' = Reply(d) /\ Route(d)' = Route(d)
      BY <3>1 DEF Reply, Route, Publication
    <3>7. inbox'[q] = inbox[q] /\ posted'[o] = posted[o]
      BY <1>8, <3>2, <3>3, <3>4
    <3>8. /\ Items(inbox', q) = Items(inbox, q)
          /\ Items(posted', o) = Items(posted, o)
          /\ \A f, g : Precedes(inbox', q, f, g) <=> Precedes(inbox, q, f, g)
          /\ \A f, g : Precedes(posted', o, f, g) <=> Precedes(posted, o, f, g)
      BY <3>7 DEF Items, Precedes
    <3>9. QED
      BY <3>1, <3>3, <3>5, <3>6, <3>8 DEF OnTheWay
  <2>3. QED
    BY <1>2, <2>1, <2>2
<1>22. QED
  BY <1>11, <1>12, <1>13, <1>16, <1>18, <1>19, <1>20, <1>21 DEF ORest

\* An orderly user calls when all is quiet.
LEMMA OrderlyCall ==
  ASSUME OInv, NEW p \in Clients, NEW q \in Clients, Call(p, q), orderly'
  PROVE  ORest'
<1> DEFINE n == Len(conn) + 1
           r == NewConnection(p, "caller", 0)
           m == [NewClient EXCEPT !.target = q, !.pc = n, !.control = n, !.binary = n]
<1>1. /\ IInv /\ Quiet /\ Running(p) /\ ~connected[p]
      /\ conn' = Append(CloseConnection(conn, client[p].pc), r)
      /\ client' = [client EXCEPT ![p] = m]
      /\ posted' = Announced(posted, p, client[p].pc)
      /\ UNCHANGED <<connected, status, inbox>>
  BY DEF Call, OInv
<1>2. status[p] = "online"
  BY <1>1 DEF Quiet
<1>3. NoToken /\ Hush
  BY <1>1, QuietHush
<1>4. /\ r.owner = p /\ r.role \in {"caller", "callee"} /\ r.phase = "new"
      /\ r.remote \in Made \cup {0} /\ (r.awaiting => r.remote = 0)
      /\ ~r.described /\ ~r.opened
  BY DEF NewConnection
<1>5. /\ m.pc = Len(conn) + 1 /\ m.target # None /\ ~m.controlOpen /\ ~m.binaryOpen
      /\ m.control = m.pc /\ m.binary = m.pc
  BY ClientsAssumption DEF NewClient
<1>6. inbox' \in [Clients -> Seq(Message)] /\ \A x \in Clients : inbox'[x] = inbox[x]
  BY <1>1, OrderlyTypes
<1>7. \A l, y, j : ~Token(l, y, j)
  BY <1>3 DEF NoToken
<1>8. ASSUME NEW x \in Clients, NEW i, Running(x), DescribesAt(inbox', x, i)
      PROVE  FALSE
  <2>1. Token("inbox", x, i)
    BY <1>1, <1>8 DEF Token
  <2>2. QED
    BY <1>7, <2>1
<1> HIDE DEF r, m
<1>9. QED
  BY <1>1, <1>2, <1>3, <1>4, <1>5, <1>6, <1>7, <1>8, OrderlyReplaces

\* The offer was the only description under way, and it has been taken.
LEMMA OrderlyReceiveOffer ==
  ASSUME OInv, NEW p \in Clients, ReceiveOffer(p)
  PROVE  ORest'
<1> DEFINE n == Len(conn) + 1
           o == Head(inbox[p])
           r == NewConnection(p, "callee", o.conn)
           m == [Disconnected(client[p]) EXCEPT !.target = o.from, !.pc = n]
<1>1. /\ IInv /\ Running(p) /\ status[p] = "online" /\ inbox[p] # <<>>
      /\ o.type = "offer"
      /\ inbox' = Taken(inbox, p)
      /\ conn' = Append(CloseConnection(conn, client[p].pc), r)
      /\ posted' = Announced(posted, p, client[p].pc)
      /\ UNCHANGED <<connected, status>>
  BY DEF ReceiveOffer, Receives, Running, OInv
<1>2. client' = [client EXCEPT ![p] = m]
  BY DEF ReceiveOffer
<1>3. /\ inbox \in [Clients -> Seq(Message)] /\ o \in Message
      /\ o.conn \in Made /\ o.from \in Clients
  <2>1. inbox \in [Clients -> Seq(Message)]
    BY <1>1, OrderlyTypes
  <2>2. o \in Message
    BY <1>1, <2>1, ItemsTaken
  <2>3. QED
    BY <2>1, <2>2 DEF Message
<1>4. Describes(o)
  BY <1>1 DEF Describes
<1>5. /\ Hush /\ inbox' \in [Clients -> Seq(Message)]
      /\ \A l, y, j : Token(l, y, j) => l = "inbox"
      /\ \A x \in Clients : \A i : ~(Running(x) /\ DescribesAt(inbox', x, i))
  BY <1>1, <1>4, DescriptionTaken
<1>6. /\ r.owner = p /\ r.role = "callee" /\ r.phase = "new"
      /\ r.remote \in Made \cup {0} /\ ~r.awaiting
      /\ ~r.described /\ ~r.opened
  BY <1>3 DEF NewConnection
<1>7. m.pc = Len(conn) + 1 /\ m.target # None /\ ~m.controlOpen /\ ~m.binaryOpen
  BY <1>3, ClientsAssumption DEF NewClient, Disconnected
<1>8. \A x \in Clients : x # p => inbox'[x] = inbox[x]
  BY <1>1, <1>3 DEF Taken
<1> HIDE DEF r, m
<1>9. QED
  BY <1>1, <1>2, <1>5, <1>6, <1>7, <1>8, OrderlyReplaces

-----------------------------------------------------------------------------
(* All steps, and the theorem. *)

LEMMA InitORest == Init => ORest
<1> SUFFICES ASSUME Init PROVE ORest
  OBVIOUS
<1>1. /\ Made = {} /\ conn = <<>>
      /\ \A p \in Clients :
           /\ ~connected[p] /\ client[p] = NewClient
           /\ Len(posted[p]) = 0 /\ Len(inbox[p]) = 0
  BY DEF Init, Made
<1>2. \A p \in Clients : Items(posted, p) = {} /\ Items(inbox, p) = {}
  <2>1. \A n : n = 0 => 1..n = {}
    OBVIOUS
  <2>2. \A p \in Clients : 1..Len(posted[p]) = {} /\ 1..Len(inbox[p]) = {}
    BY <1>1, <2>1
  <2>3. QED
    BY <2>2, Zenon DEF Items
<1>3. \A k, x, i : ~Token(k, x, i)
  BY <1>1 DEF Token, PublishesAt, DescribesAt
<1>4. OneToken /\ TokenHush
  BY <1>3 DEF OneToken, TokenHush
<1>5. Lives /\ EndedAreOver /\ Paired /\ Fresh /\ Answering
  BY <1>1, <1>2 DEF Lives, EndedAreOver, Paired, Fresh, Answering
<1>6. Shown
  BY <1>1 DEF Shown
<1>7. Wired
  BY <1>1 DEF Wired, NewClient
<1>8. QED
  BY <1>4, <1>5, <1>6, <1>7 DEF ORest

LEMMA NextOInv == OInv /\ [Next /\ orderly']_vars => OInv'
<1> SUFFICES ASSUME OInv, [Next /\ orderly']_vars PROVE OInv'
  OBVIOUS
<1>1. IInv /\ DOMAIN conn = Made
  BY OrderlyTypes DEF OInv
<1>2. IInv'
  BY <1>1, NextIInv
<1>3. ASSUME UNCHANGED vars
      PROVE  ORest'
  <2>1. /\ UNCHANGED <<client, connected, conn, posted, inbox>>
        /\ status' = status
    BY <1>3 DEF vars
  <2>2. \A p \in Clients : /\ Running(p)' => Running(p)
                           /\ status[p] = "online" => status'[p] = "online"
    BY <2>1 DEF Running
  <2>3. QED
    BY <2>1, <2>2, OrderlyIdle
<1>4. ASSUME NEW p \in Clients, Handler(p)
      PROVE  ORest'
  <2>1. CASE OnMQTTConnected(p)
    <3>1. /\ UNCHANGED <<client, connected, conn, posted, inbox>>
          /\ status' = [status EXCEPT ![p] = "online"] /\ status[p] = "starting"
      BY <2>1 DEF OnMQTTConnected
    <3>2. status \in [Clients -> {"starting", "online", "quit", "crashed"}]
      BY <1>1 DEF IInv, Scalars
    <3>3. \A x \in Clients : /\ Running(x)' => Running(x)
                             /\ status[x] = "online" => status'[x] = "online"
      BY <3>1, <3>2 DEF Running
    <3>4. QED
      BY <3>1, <3>3, OrderlyIdle
  <2>2. CASE PublishMessage(p)
    BY <2>2, OrderlyPublishMessage
  <2>3. CASE ReceiveOffer(p)
    BY <2>3, OrderlyReceiveOffer
  <2>4. CASE ReceiveAnswer(p)
    BY <2>4, OrderlyReceiveAnswer
  <2>5. CASE ReceiveCandidate(p)
    BY <2>5, OrderlyReceiveCandidate
  <2>6. CASE OnStateChange(p)
    BY <2>6, OrderlyOnStateChange
  <2>7. CASE AssignChannel(p)
    BY <2>7, OrderlyAssignChannel
  <2>8. CASE OnOpen(p)
    BY <2>8, OrderlyOnOpen
  <2>9. QED
    BY <1>4, <2>1, <2>2, <2>3, <2>4, <2>5, <2>6, <2>7, <2>8 DEF Handler
<1>5. ASSUME NEW p \in Clients, orderly', User(p) \/ LoseMessage(p)
      PROVE  ORest'
  <2>1. ~LoseMessage(p)
    BY <1>5 DEF LoseMessage
  <2>2. CASE Quit(p)
    BY <1>5, <2>2, OrderlyQuit
  <2>3. ASSUME NEW q \in Clients, Call(p, q)
        PROVE  ORest'
    BY <1>5, <2>3, OrderlyCall
  <2>4. QED
    BY <1>5, <2>1, <2>2, <2>3 DEF User
<1>6. ASSUME NEW c \in Made, Library(c)
      PROVE  ORest'
  <2>1. CASE LocalDescription(c)
    BY <2>1, OrderlyLocalDescription
  <2>2. CASE Ended(c)
    BY <2>2, OrderlyEnded
  <2>3. ASSUME NEW d \in Made, Connect(c, d)
        PROVE  ORest'
    BY <2>3, OrderlyConnect
  <2>4. ASSUME NEW first \in Labels, ChannelsUp(c, first)
        PROVE  ORest'
    BY <2>4, OrderlyChannelsUp
  <2>5. QED
    BY <1>1, <1>6, <2>1, <2>2, <2>3, <2>4 DEF Library
<1>7. ASSUME NEW c \in Made, orderly', LinkLost(c)
      PROVE  ORest'
  BY <1>7, OrderlyLinkLost
<1>8. ORest'
  BY <1>1, <1>3, <1>4, <1>5, <1>6, <1>7 DEF Next
<1>9. QED
  BY <1>2, <1>8 DEF OInv

\* With users who wait for a set-up to end, and a broker that loses nothing, a
\* window that says Connected has, once nothing is in flight, both channels of
\* a connection that is up, and so has the window at the other end
\* (p2pclient.cpp:99, :117, :128).
THEOREM SpecConnectedIsLive == OrderlySpec => []ConnectedIsLive
<1>1. OInv => ConnectedIsLive
  <2> SUFFICES ASSUME OInv, Quiet, NEW p \in Clients, Running(p), connected[p]
               PROVE  Talking(p)
    BY DEF ConnectedIsLive
  <2> DEFINE c == client[p].pc
             d == conn[c].remote
             q == conn[d].owner
  <2>1. /\ IInv /\ DOMAIN conn = Made
        /\ \A k \in Made : ~Busy(k)
        /\ \A k \in Made : conn[k].phase = "new" => conn[k].role = "caller"
        /\ \A x \in Clients : Running(x) => Items(posted, x) = {}
    BY QuietHush, OrderlyTypes DEF Quiet, OInv
  <2>2. c # 0 /\ c \in Made
    BY <2>1, OrderlyTypes DEF OInv, ORest, Shown
  <2>3. conn[c].phase = "connected"
    BY <2>1, <2>2 DEF OInv, ORest, Shown
  <2>4. \A k \in Made : conn[k].phase = "connected" => conn[k].opened /\ ~Severed(k)
    BY <2>1 DEF Busy, Live
  <2>5. ASSUME NEW x \in Clients, Running(x), client[x].pc \in Made,
               conn[client[x].pc].phase = "connected"
        PROVE  /\ connected[x]
               /\ \A label \in Labels : Channel(x, label) = client[x].pc
    <3> DEFINE k == client[x].pc
    <3>1. k # 0 /\ conn[k].phase # "over" /\ conn[k].opened
      BY <2>1, <2>4, <2>5, OrderlyTypes DEF Made
    <3>2. Items(posted, x) = {}
      BY <2>1, <2>5
    <3>3. \A label \in Labels : Channel(x, label) = k /\ IsOpen(x, label)
      BY <2>5, <3>1, <3>2 DEF OInv, ORest, Wired
    <3>4. connected[x]
      BY <2>5, <3>1, <3>3 DEF OInv, ORest, Wired
    <3>5. QED
      BY <3>3, <3>4
  <2>6. client[p].control = c /\ client[p].binary = c
    <3>1. Channel(p, "control") = c /\ Channel(p, "binary") = c
      BY <2>2, <2>3, <2>5 DEF Labels
    <3>2. QED
      BY <3>1 DEF Channel
  <2>7. /\ d # 0 /\ d \in Made /\ conn[d].remote = c /\ conn[d].phase = "connected"
        /\ q \in Clients
    <3>1. d # 0 /\ conn[d].remote = c /\ conn[d].phase # "new"
      BY <2>2, <2>3 DEF OInv, ORest, Paired
    <3>2. d \in Made /\ q \in Clients
      BY <2>1, <2>2, <3>1, OrderlyTypes
    <3>3. conn[d].phase \in Live
      BY <2>2, <2>3, <2>4, <3>1 DEF Severed
    <3>4. QED
      BY <3>1, <3>2, <3>3 DEF Live
  <2>8. client[q].pc = d /\ Running(q)
    <3>1. client[q].pc = d
      BY <2>1, <2>7, OrderlyTypes
    <3>2. QED
      BY <2>7, <3>1 DEF OInv, ORest, Lives, Running
  <2>9. connected[q]
    BY <2>5, <2>7, <2>8
  <2>10. QED
    BY <2>2, <2>3, <2>6, <2>9 DEF Talking
<1>2. QED
  BY <1>1, InitIInv, InitORest, NextOInv, PTL DEF OrderlySpec, OInv

=============================================================================
