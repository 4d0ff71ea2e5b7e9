---------------------------- MODULE SessionProofs ----------------------------
(***************************************************************************)
(* One transfer at a time: with users who wait, everything in the managers *)
(* and channels belongs to one transfer of one file, and says how far it   *)
(* has come. From this follow that nobody is left waiting and that what is *)
(* judged is the whole file. Here files can be opened and written.         *)
(***************************************************************************)
EXTENDS PatientProofs

Sending(a) == ftm[a].state = "Sending"
Receiving(a) == ftm[Other(a)].state = "Receiving"

\* The commands under way between the sender a and its peer.
Announcing(a) == FirstIs(control[Other(a)], "metadata")
Ending(a) == FirstIs(control[Other(a)], "transfer_complete")
Cancelling(a) == LastIs(control[Other(a)], "cancel_transfer")
Accepting(a) == FirstIs(control[a], "accept_transfer")
Refusing(a) == LastIs(control[a], "receiver_canceled")

\* The blocks that the receiver has or that are on their way to it.
Reach(a) == ftm[Other(a)].received + Len(binary[Other(a)])

ToReceiver(queue, s) ==
  \/ Len(queue) = 0
  \/ Len(queue) = 1 /\ queue[1].type \in {"cancel_transfer", "transfer_complete"}
  \/ Len(queue) = 1 /\ queue[1].type = "metadata" /\ queue[1].source = s
  \/ /\ Len(queue) = 2 /\ queue[1].type = "metadata" /\ queue[1].source = s
     /\ queue[2].type = "cancel_transfer"

ToSender(queue) ==
  \/ Len(queue) = 0
  \/ Len(queue) = 1 /\ queue[1].type \in {"accept_transfer", "receiver_canceled"}
  \/ /\ Len(queue) = 2 /\ queue[1].type = "accept_transfer"
     /\ queue[2].type = "receiver_canceled"

Queues(a, s) ==
  /\ ToReceiver(control[Other(a)], s) /\ ToSender(control[a])
  /\ binary[a] = <<>> /\ buffered[Other(a)] = 0

Sides(a, s) ==
  LET b == Other(a) IN
  /\ ftm[a].state \in {"Idle", "Sending"}
  /\ ftm[b].state \in {"Idle", "Receiving"}
  /\ Sending(a) =>
       /\ ftm[a].file = SourcePath(s) /\ s \in Outbox[a]
       /\ ftm[a].expectedSize = Size[s] /\ ftm[a].pos <= Size[s]
  /\ Receiving(a) =>
       /\ ftm[b].file = DownloadPath(NameOf[s])
       /\ ftm[b].expectedSize = Size[s] /\ announced[b] = s

\* Before the offer is taken and its answer handled, no block moves.
Opening(a, s) ==
  LET b == Other(a) IN
  /\ Announcing(a) => ~Receiving(a) /\ Len(control[a]) = 0
  /\ Announcing(a) \/ Accepting(a) =>
       /\ Len(binary[b]) = 0 /\ lowEvents[a] = 0 /\ ~looping[a]
       /\ Sending(a) => ftm[a].pos = 0 /\ ftm[a].hash = <<>>
  /\ Accepting(a) =>
       /\ ~Announcing(a) /\ ~Ending(a) /\ control[a][1].offset <= Size[s]
       /\ Receiving(a) => /\ control[a][1].offset = ftm[b].received
                          /\ ftm[b].hash = <<>> /\ ftm[b].expectedHash = None

\* Whoever has announced the end has left the transfer.
Leaving(a) ==
  /\ Sending(a) => \/ Len(control[Other(a)]) = 0
                   \/ Len(control[Other(a)]) = 1 /\ Announcing(a)
  /\ Ending(a) => ~Sending(a)
  /\ Receiving(a) /\ ftm[Other(a)].expectedHash # None => ~Sending(a)
  /\ Refusing(a) => ~Receiving(a) /\ ~Announcing(a)

\* Over an open connection a side in a transfer can count on the other, or on
\* a message that will end it.
Served(a, s) ==
  up =>
    /\ Announcing(a) => Sending(a) \/ Cancelling(a)
    /\ Sending(a) /\ ~Announcing(a) /\ ~Refusing(a) =>
         /\ Receiving(a)
         /\ \/ Accepting(a)
            \/ /\ looping[a] \/ lowEvents[a] > 0 \/ buffered[a] > LowWater
               /\ ftm[a].pos = Reach(a)
    /\ Receiving(a) /\ ~Sending(a) /\ ~Cancelling(a) =>
         /\ Reach(a) >= Size[s]
         /\ \/ Ending(a)
            \/ /\ ftm[Other(a)].expectedHash # None
               /\ ftm[Other(a)].received < Size[s] \/ Size[s] = 0

Session(a, s) ==
  Queues(a, s) /\ Sides(a, s) /\ Opening(a, s) /\ Leaving(a) /\ Served(a, s)

Calm ==
  \A p \in Peers :
    /\ ftm[p].state = "Idle" /\ control[p] = <<>> /\ binary[p] = <<>>
    /\ buffered[p] = 0

SessionInv ==
  LinkInv /\ (Calm \/ \E a \in Peers, s \in Sources : Session(a, s))

-----------------------------------------------------------------------------

LEMMA ContentSize ==
  ASSUME NEW s \in Sources
  PROVE  /\ Size[s] \in Nat /\ FileSize(Content(s)) = Size[s]
         /\ Content(s) # None
<1>1. Size[s] \in Nat /\ Content(s) \in Seq(Block)
  BY FilesAssumption DEF Content, Block
<1>2. Len(Content(s)) = Size[s]
  BY <1>1 DEF Content
<1>3. QED
  BY <1>1, <1>2, BlocksAreNotNone DEF FileSize

\* The types a step of a session needs.
LEMMA SessionTypes ==
  ASSUME LinkInv, NEW a \in Peers
  PROVE  LET b == Other(a) IN
         /\ IInv /\ b \in Peers /\ b # a /\ Other(b) = a /\ Peers = {a, b}
         /\ control \in [Peers -> Seq(Message)]
         /\ binary \in [Peers -> Seq(Block)]
         /\ Len(control[a]) \in Nat /\ Len(control[b]) \in Nat
         /\ Len(binary[b]) \in Nat /\ (binary[b] = <<>> <=> Len(binary[b]) = 0)
         /\ ftm[a] \in Manager /\ ftm[b] \in Manager
         /\ ftm[a].pos \in Nat /\ ftm[b].received \in Nat
         /\ ftm[a].expectedSize \in Nat /\ ftm[b].expectedSize \in Nat
         /\ lowEvents[a] \in Nat /\ buffered[a] \in Nat /\ buffered[b] \in Nat
         /\ buffered[a] <= Len(binary[b])
         /\ looping[a] \in BOOLEAN /\ up \in BOOLEAN
         /\ looping[a] => Sending(a)
         /\ looping[b] => ftm[b].state = "Sending"
         /\ LowWater \in Nat /\ HighWater \in Nat /\ LowWater < HighWater
<1> DEFINE b == Other(a)
<1>1. IInv /\ b \in Peers /\ b # a /\ Other(b) = a /\ Peers = {a, b}
  BY TwoPeers DEF LinkInv, RolesInv
<1>2. /\ control \in [Peers -> Seq(Message)]
      /\ binary \in [Peers -> Seq(Block)]
      /\ ftm[a] \in Manager /\ ftm[b] \in Manager
      /\ lowEvents[a] \in Nat /\ buffered[a] \in Nat /\ buffered[b] \in Nat
      /\ looping[a] \in BOOLEAN /\ up \in BOOLEAN
  BY <1>1 DEF IInv, TypeOK
<1>3. /\ control[a] \in Seq(Message) /\ control[b] \in Seq(Message)
      /\ binary[b] \in Seq(Block)
  BY <1>1, <1>2
<1>4. /\ Len(control[a]) \in Nat /\ Len(control[b]) \in Nat
      /\ Len(binary[b]) \in Nat /\ (binary[b] = <<>> <=> Len(binary[b]) = 0)
  BY <1>3
<1>5. /\ ftm[a].pos \in Nat /\ ftm[b].received \in Nat
      /\ ftm[a].expectedSize \in Nat /\ ftm[b].expectedSize \in Nat
  BY <1>2 DEF Manager
<1>6. buffered[a] <= Len(binary[b])
  BY <1>1 DEF LinkInv, BufferedIsUnderWay
<1>7. /\ looping[a] => Sending(a)
      /\ looping[b] => ftm[b].state = "Sending"
  BY <1>1 DEF IInv, WorkerOwnsResources, Sending
<1>8. LowWater \in Nat /\ HighWater \in Nat /\ LowWater < HighWater
  BY WaterMarksAssumption
<1>9. QED
  BY <1>1, <1>2, <1>4, <1>5, <1>6, <1>7, <1>8

\* A queue of at most two commands after one is taken, lost or posted.
LEMMA TakenCommands ==
  ASSUME NEW queue \in [Peers -> Seq(Message)], NEW p \in Peers,
         queue[p] # <<>>, up \in BOOLEAN
  PROVE  LET after == Taken(queue, p) IN
         /\ queue[p][1] = Head(queue[p]) /\ Len(queue[p]) > 0
         /\ Len(after[p]) = Len(queue[p]) - 1
         /\ Len(queue[p]) = 2 => after[p][1] = queue[p][2]
         /\ after[Other(p)] = queue[Other(p)]
         /\ after \in [Peers -> Seq(Message)]
<1> DEFINE after == Taken(queue, p)
<1>1. /\ Head(queue[p]) = queue[p][1] /\ Len(queue[p]) > 0
      /\ Len(after[p]) = Len(queue[p]) - 1
      /\ \A i \in 1..Len(queue[p]) - 1 : after[p][i] = queue[p][i + 1]
      /\ after[Other(p)] = queue[Other(p)]
  BY TakenMessages
<1>2. after \in [Peers -> Seq(Message)]
  BY QueueTypes
<1> HIDE DEF after
<1>3. Len(queue[p]) = 2 => after[p][1] = queue[p][2]
  BY <1>1
<1>4. QED
  BY <1>1, <1>2, <1>3 DEF after

LEMMA DroppedCommands ==
  ASSUME NEW queue \in [Peers -> Seq(Message)], NEW p \in Peers,
         queue[p] # <<>>
  PROVE  LET after == DropLast(queue, p) IN
         /\ Len(queue[p]) > 0 /\ Len(after[p]) = Len(queue[p]) - 1
         /\ Len(queue[p]) = 2 => after[p][1] = queue[p][1]
         /\ after[Other(p)] = queue[Other(p)]
<1> DEFINE after == DropLast(queue, p)
<1>1. /\ Len(queue[p]) > 0 /\ Len(after[p]) = Len(queue[p]) - 1
      /\ \A i \in 1..Len(queue[p]) - 1 : after[p][i] = queue[p][i]
      /\ after[Other(p)] = queue[Other(p)]
  BY DroppedMessages
<1> HIDE DEF after
<1>2. Len(queue[p]) = 2 => after[p][1] = queue[p][1]
  BY <1>1
<1>3. QED
  BY <1>1, <1>2 DEF after

LEMMA PostedCommands ==
  ASSUME NEW queue \in [Peers -> Seq(Message)], NEW p \in Peers,
         NEW message \in Message
  PROVE  LET before == queue[Other(p)]
             after  == Posted(queue, p, message)[Other(p)]
         IN  /\ Posted(queue, p, message)[p] = queue[p]
             /\ ~up => after = before
             /\ up => /\ Len(after) = Len(before) + 1
                      /\ Len(before) = 0 => after[1] = message
                      /\ Len(before) = 1 => after[1] = before[1] /\ after[2] = message
<1> DEFINE before == queue[Other(p)]
           after  == Posted(queue, p, message)[Other(p)]
<1>1. Posted(queue, p, message)[p] = queue[p]
  BY PostedMessages
<1>2. before \in Seq(Message)
  BY PostedMessages
<1>3. /\ ~up => after = before
      /\ up => after = Append(before, message)
  BY PostedMessages
<1> HIDE DEF before, after
<1>4. /\ Len(Append(before, message)) = Len(before) + 1
      /\ \A i \in 1..Len(before) : Append(before, message)[i] = before[i]
      /\ Append(before, message)[Len(before) + 1] = message
  BY <1>2, AppendElements
<1>5. /\ Len(before) = 0 => Append(before, message)[1] = message
      /\ Len(before) = 1 => /\ Append(before, message)[1] = before[1]
                            /\ Append(before, message)[2] = message
  BY <1>4
<1>6. QED
  BY <1>1, <1>3, <1>4, <1>5 DEF before, after

LEMMA CleanedPeer ==
  ASSUME IInv, NEW p \in Peers, ftm' = [ftm EXCEPT ![p] = Cleanup(@)]
  PROVE  ftm'[p].state = "Idle" /\ ftm'[Other(p)] = ftm[Other(p)]
<1>1. ftm[p] \in Manager
  BY DEF IInv, TypeOK
<1>2. Cleanup(ftm[p]).state = "Idle"
  BY <1>1, CleanupProperties
<1>3. ftm'[p] = Cleanup(ftm[p]) /\ ftm'[Other(p)] = ftm[Other(p)]
  BY AtPeer
<1>4. QED
  BY <1>2, <1>3

LEMMA SameCommands ==
  ASSUME NEW a \in Peers, control' = control
  PROVE  /\ Announcing(a)' <=> Announcing(a)
         /\ Ending(a)' <=> Ending(a)
         /\ Cancelling(a)' <=> Cancelling(a)
         /\ Accepting(a)' <=> Accepting(a)
         /\ Refusing(a)' <=> Refusing(a)
  BY DEF Announcing, Ending, Cancelling, Accepting, Refusing, FirstIs, LastIs

-----------------------------------------------------------------------------
(* The session through every step.                                          *)

LEMMA SessionSendChunk ==
  ASSUME LinkInv, NEW a \in Peers, NEW s \in Sources, Session(a, s),
         NEW p \in Peers, SendChunk(p)
  PROVE  Session(a, s)' /\ p = a
<1> DEFINE b == Other(a)
           chunk == disk[a][ftm[a].file][ftm[a].pos + 1]
           m == [ftm[a] EXCEPT !.pos = @ + 1, !.hash = Append(@, chunk)]
<1>1. /\ IInv /\ b \in Peers /\ b # a /\ Other(b) = a /\ Peers = {a, b}
      /\ binary \in [Peers -> Seq(Block)] /\ up \in BOOLEAN
      /\ Len(binary[b]) \in Nat /\ Len(control[b]) \in Nat
      /\ ftm[a] \in Manager
      /\ ftm[a].pos \in Nat /\ ftm[b].received \in Nat
      /\ buffered[a] \in Nat /\ buffered[b] \in Nat /\ looping[a] \in BOOLEAN
      /\ looping[b] => ftm[b].state = "Sending"
      /\ LowWater \in Nat
  BY SessionTypes
<1>2. p = a /\ looping[a] /\ Sending(a)
  BY <1>1, SessionTypes DEF SendChunk, Session, Sides
<1>3. chunk \in Block /\ ftm[a].pos < Size[s]
  <2>1. chunk \in Block
    BY <1>1, <1>2, LoopReadsBlocks DEF SendChunk
  <2>2. disk[a][ftm[a].file] = Content(s)
    BY <1>2 DEF Session, Sides, LinkInv, RolesInv, SourceFiles
  <2>3. FileSize(Content(s)) = Size[s] /\ Size[s] \in Nat
    BY ContentSize
  <2>4. QED
    BY <1>1, <1>2, <2>1, <2>2, <2>3 DEF SendChunk, AtEnd
<1>4. /\ ftm'[a].state = ftm[a].state /\ ftm'[a].file = ftm[a].file
      /\ ftm'[a].expectedSize = ftm[a].expectedSize
      /\ ftm'[a].pos = ftm[a].pos + 1 /\ ftm'[b] = ftm[b]
  <2>1. ftm' = [ftm EXCEPT ![a] = m]
    BY <1>1, <1>2 DEF SendChunk, IInv, TypeOK
  <2>2. /\ m.state = ftm[a].state /\ m.file = ftm[a].file
        /\ m.expectedSize = ftm[a].expectedSize /\ m.pos = ftm[a].pos + 1
    BY <1>1 DEF Manager
  <2> HIDE DEF m
  <2>3. QED
    BY <1>1, <2>1, <2>2, AtPeer
<1>5. /\ binary'[a] = binary[a]
      /\ ~up => binary' = binary
      /\ up => Len(binary'[b]) = Len(binary[b]) + 1
  <2>1. binary' = Posted(binary, a, chunk)
    BY <1>2 DEF SendChunk
  <2> HIDE DEF chunk
  <2>2. /\ binary'[a] = binary[a]
        /\ ~up => binary' = binary
        /\ up => binary'[b] = Append(binary[b], chunk)
        /\ binary[b] \in Seq(Block)
      <3>1. binary \in [Peers -> Seq(Block)] /\ chunk \in Block
        BY <1>1, <1>3
      <3>2. QED
        BY <2>1, <3>1, PostedMessages
  <2>3. QED
    BY <1>3, <2>2, AppendElements
<1>6. /\ buffered'[b] = buffered[b] /\ buffered'[a] >= buffered[a]
      /\ buffered'[a] \in Nat
  <2>1. buffered \in [Peers -> Nat]
    BY <1>1 DEF IInv, TypeOK
  <2>2. \/ buffered' = buffered
        \/ buffered' = [buffered EXCEPT ![a] = @ + 1]
    BY <1>2, Zenon DEF SendChunk
  <2>3. QED
    BY <1>1, <2>1, <2>2
<1>7. UNCHANGED <<control, looping, lowEvents, up, announced>>
  BY DEF SendChunk, history
<1>8. ~Announcing(a) /\ ~Accepting(a)
  BY <1>2 DEF Session, Opening
<1>9. Queues(a, s)'
  BY <1>5, <1>6, <1>7 DEF Session, Queues, ToReceiver, ToSender
<1>10. Sides(a, s)'
  BY <1>1, <1>3, <1>4, <1>7, FilesAssumption
     DEF Session, Sides, Sending, Receiving
<1>11. Opening(a, s)' /\ Leaving(a)'
  BY <1>4, <1>7, <1>8
     DEF Session, Opening, Leaving, Sending, Receiving, Announcing, Accepting,
         Ending, Refusing
<1>12. Served(a, s)'
  <2>1. Reach(a)' = IF up THEN Reach(a) + 1 ELSE Reach(a)
    <3>1. /\ ftm'[b].received = ftm[b].received /\ ftm[b].received \in Nat
          /\ Len(binary[b]) \in Nat
          /\ Len(binary'[b]) = IF up THEN Len(binary[b]) + 1 ELSE Len(binary[b])
      BY <1>1, <1>4, <1>5
    <3>2. QED
      BY <3>1 DEF Reach
  <2>2. (Sending(a)' <=> Sending(a)) /\ (Receiving(a)' <=> Receiving(a))
    BY <1>4 DEF Sending, Receiving
  <2>3. up /\ ~Refusing(a) => Receiving(a) /\ ftm[a].pos = Reach(a)
    BY <1>2, <1>8 DEF Session, Served
  <2>4. looping'[a] /\ up' = up
    BY <1>2, <1>7
  <2>5. QED
    BY <1>2, <1>4, <1>7, <1>8, <2>1, <2>2, <2>3, <2>4, SameCommands DEF Served
<1>13. QED
  BY <1>2, <1>9, <1>10, <1>11, <1>12 DEF Session

LEMMA SessionPauseLoop ==
  ASSUME LinkInv, NEW a \in Peers, NEW s \in Sources, Session(a, s),
         NEW p \in Peers, PauseLoop(p)
  PROVE  Session(a, s)'
<1> DEFINE b == Other(a)
<1>1. /\ b \in Peers /\ b # a /\ Peers = {a, b}
      /\ looping[b] => ftm[b].state = "Sending"
      /\ buffered[a] \in Nat /\ LowWater \in Nat
      /\ HighWater \in Nat /\ LowWater < HighWater
      /\ looping[a] => Sending(a)
  BY SessionTypes
<1>2. p = a /\ looping[a] /\ buffered[a] > LowWater
  BY <1>1 DEF PauseLoop, Full, Session, Sides
<1>3. UNCHANGED <<ftm, control, binary, buffered, lowEvents, up, announced>>
  BY DEF PauseLoop, link, history
<1>4. ~Announcing(a) /\ ~Accepting(a)
  BY <1>2 DEF Session, Opening
<1>5. /\ Sending(a)' <=> Sending(a)
      /\ Receiving(a)' <=> Receiving(a)
      /\ Reach(a)' = Reach(a)
  BY <1>3 DEF Sending, Receiving, Reach
<1>6. Queues(a, s)' /\ Sides(a, s)'
  BY <1>3, <1>5 DEF Session, Queues, Sides, ToReceiver, ToSender
<1>7. Opening(a, s)' /\ Leaving(a)'
  BY <1>3, <1>4, <1>5, SameCommands DEF Session, Opening, Leaving
<1>8. Served(a, s)'
  BY <1>1, <1>2, <1>3, <1>4, <1>5, SameCommands DEF Session, Served
<1>9. QED
  BY <1>6, <1>7, <1>8 DEF Session

LEMMA SessionSetBackpressure ==
  ASSUME LinkInv, NEW a \in Peers, NEW s \in Sources, Session(a, s),
         NEW p \in Peers, SetBackpressure(p)
  PROVE  Session(a, s)'
<1> DEFINE b == Other(a)
<1>1. /\ b \in Peers /\ b # a /\ p \in {a, b}
      /\ looping \in [Peers -> BOOLEAN] /\ lowEvents \in [Peers -> Nat]
  BY SessionTypes DEF IInv, TypeOK
<1>2. UNCHANGED <<ftm, control, binary, buffered, up, announced>>
  BY DEF SetBackpressure, history
<1>3. \/ /\ p = b /\ looping'[a] = looping[a] /\ lowEvents'[a] = lowEvents[a]
      \/ /\ p = a /\ lowEvents[a] > 0 /\ looping'[a] = Sending(a)
  BY <1>1 DEF SetBackpressure, Sending
<1>4. p = a => ~Announcing(a) /\ ~Accepting(a)
  BY <1>1, <1>3 DEF Session, Opening
<1>5. /\ Sending(a)' <=> Sending(a)
      /\ Receiving(a)' <=> Receiving(a)
      /\ Reach(a)' = Reach(a)
  BY <1>2 DEF Sending, Receiving, Reach
<1>6. Queues(a, s)' /\ Sides(a, s)'
  BY <1>2, <1>5 DEF Session, Queues, Sides, ToReceiver, ToSender
<1>7. Opening(a, s)' /\ Leaving(a)'
  BY <1>2, <1>3, <1>4, <1>5, SameCommands DEF Session, Opening, Leaving
<1>8. Served(a, s)'
  BY <1>2, <1>3, <1>4, <1>5, SameCommands DEF Session, Served
<1>9. QED
  BY <1>6, <1>7, <1>8 DEF Session

LEMMA SessionFinishLoop ==
  ASSUME LinkInv, NEW a \in Peers, NEW s \in Sources, Session(a, s),
         NEW p \in Peers, FinishLoop(p)
  PROVE  Session(a, s)' /\ p = a
<1> DEFINE b == Other(a)
           message == [type |-> "transfer_complete", hash |-> ftm[a].hash]
<1>1. /\ IInv /\ b \in Peers /\ b # a /\ Peers = {a, b}
      /\ looping[b] => ftm[b].state = "Sending"
      /\ looping[a] => Sending(a)
      /\ ftm[a] \in Manager /\ up \in BOOLEAN
      /\ Len(control[a]) \in Nat /\ Len(control[b]) \in Nat
      /\ control \in [Peers -> Seq(Message)]
      /\ looping \in [Peers -> BOOLEAN]
  BY SessionTypes DEF IInv, TypeOK
<1>2. p = a /\ looping[a] /\ Sending(a)
  BY <1>1 DEF FinishLoop, Session, Sides
<1>3. ftm[a].pos >= Size[s]
  <2>1. disk[a][ftm[a].file] = Content(s)
    BY <1>2 DEF Session, Sides, LinkInv, RolesInv, SourceFiles
  <2>2. FileSize(Content(s)) = Size[s]
    BY ContentSize
  <2>3. QED
    BY <1>2, <2>1, <2>2 DEF FinishLoop, AtEnd
<1>4. ftm'[a].state = "Idle" /\ ftm'[b] = ftm[b]
  <2>1. ftm' = [ftm EXCEPT ![a] = Cleanup(ftm[a])] /\ Cleanup(ftm[a]).state = "Idle"
    BY <1>1, <1>2, CleanupProperties DEF FinishLoop
  <2>2. QED
    BY <1>1, <2>1, AtPeer
<1>5. /\ looping'[a] = FALSE
      /\ UNCHANGED <<binary, buffered, lowEvents, up, announced>>
  BY <1>1, <1>2 DEF FinishLoop, history
<1>6. ~Announcing(a) /\ ~Accepting(a) /\ Len(control[b]) = 0
  BY <1>2 DEF Session, Opening, Leaving
<1>7. /\ control'[a] = control[a]
      /\ ~up => Len(control'[b]) = 0
      /\ up => Len(control'[b]) = 1 /\ control'[b][1].type = "transfer_complete"
  <2>1. message \in Message /\ message.type = "transfer_complete"
    BY <1>1, <1>2, LoopReadsBlocks DEF Message
  <2>2. control' = Posted(control, a, message)
    BY <1>2 DEF FinishLoop
  <2> HIDE DEF message
  <2>3. control \in [Peers -> Seq(Message)] /\ Len(control[b]) = 0
    BY <1>1, <1>6
  <2>4. LET before == control[b]
            after  == control'[b]
        IN  /\ control'[a] = control[a]
            /\ ~up => after = before
            /\ up => /\ Len(after) = Len(before) + 1
                     /\ Len(before) = 0 => after[1] = message
    BY <2>1, <2>2, <2>3, PostedCommands
  <2>5. QED
    BY <2>1, <2>3, <2>4
<1>8. /\ ~Sending(a)' /\ (Receiving(a)' <=> Receiving(a))
      /\ Reach(a)' = Reach(a) /\ ~Announcing(a)' /\ ~Accepting(a)'
      /\ (Ending(a)' <=> up) /\ (Refusing(a)' <=> Refusing(a))
      /\ ~Cancelling(a)'
  BY <1>4, <1>5, <1>6, <1>7
     DEF Sending, Receiving, Reach, Announcing, Accepting, Ending, Refusing,
         Cancelling, FirstIs, LastIs
<1>9. Queues(a, s)'
  BY <1>1, <1>5, <1>7 DEF Session, Queues, ToReceiver, ToSender
<1>10. Sides(a, s)'
  BY <1>4, <1>5, <1>8 DEF Session, Sides
<1>11. Opening(a, s)' /\ Leaving(a)'
  BY <1>8 DEF Session, Opening, Leaving
<1>12. Served(a, s)'
  <2>1. up /\ Receiving(a) => Reach(a) >= Size[s]
    <3>1. up /\ Receiving(a) => Reach(a) = ftm[a].pos
      BY <1>2, <1>6 DEF Session, Served, Leaving
    <3>2. QED
      BY <1>3, <3>1
  <2>2. QED
    BY <1>5, <1>8, <2>1 DEF Served
<1>13. QED
  BY <1>2, <1>9, <1>10, <1>11, <1>12 DEF Session

LEMMA SessionReceiveAccept ==
  ASSUME LinkInv, NEW a \in Peers, NEW s \in Sources, Session(a, s),
         NEW p \in Peers, ReceiveAccept(p)
  PROVE  Session(a, s)' /\ p = a /\ Accepting(a)
<1> DEFINE b == Other(a)
           offset == control[a][1].offset
           m == IF Sending(a) THEN SeekTo(ftm[a], offset) ELSE ftm[a]
<1>1. /\ IInv /\ b \in Peers /\ b # a /\ Other(b) = a /\ Peers = {a, b}
      /\ ftm[a] \in Manager /\ up \in BOOLEAN
      /\ Len(control[a]) \in Nat /\ Len(control[b]) \in Nat
      /\ control \in [Peers -> Seq(Message)]
      /\ looping \in [Peers -> BOOLEAN]
      /\ ftm[b].received \in Nat /\ ftm[a].pos \in Nat
  BY SessionTypes DEF IInv, TypeOK
<1>2. /\ control[p] # <<>> /\ control' = Taken(control, p)
      /\ control[p][1] = Head(control[p])
      /\ control[p][1].type = "accept_transfer" /\ Len(control[p]) > 0
  BY <1>1, TakenCommands DEF ReceiveAccept, Pending
<1>3. p = a /\ Accepting(a)
  BY <1>1, <1>2 DEF Session, Queues, ToReceiver, Accepting, FirstIs
<1>4. /\ control'[b] = control[b] /\ Len(control'[a]) = Len(control[a]) - 1
      /\ Len(control[a]) = 2 => control'[a][1] = control[a][2]
  BY <1>1, <1>2, <1>3, TakenCommands
<1>5. /\ UNCHANGED <<binary, buffered, lowEvents, up, announced>>
      /\ looping'[a] = Sending(a)
  BY <1>1, <1>3 DEF ReceiveAccept, history, Sending
<1>6. /\ ftm'[b] = ftm[b] /\ ftm'[a].state = ftm[a].state
      /\ ftm'[a].file = ftm[a].file
      /\ ftm'[a].expectedSize = ftm[a].expectedSize
      /\ Sending(a) => ftm'[a].pos = offset
  <2>1. ftm' = [ftm EXCEPT ![a] = m]
    BY <1>2, <1>3 DEF ReceiveAccept, Sending
  <2>2. Sending(a) => offset <= ftm[a].expectedSize
    BY <1>3 DEF Session, Opening, Sides
  <2>3. /\ m.state = ftm[a].state /\ m.file = ftm[a].file
        /\ m.expectedSize = ftm[a].expectedSize
        /\ Sending(a) => m.pos = offset
    BY <1>1, <2>2 DEF Manager, SeekTo
  <2> HIDE DEF m
  <2>4. QED
    BY <1>1, <2>1, <2>3, AtPeer
<1>7. ~Announcing(a) /\ ~Ending(a) /\ Len(binary[b]) = 0 /\ offset <= Size[s]
  BY <1>3 DEF Session, Opening
<1>8. /\ Sending(a)' <=> Sending(a)
      /\ Receiving(a)' <=> Receiving(a)
      /\ Reach(a)' = Reach(a)
      /\ Announcing(a)' <=> Announcing(a)
      /\ Ending(a)' <=> Ending(a)
      /\ Cancelling(a)' <=> Cancelling(a)
  BY <1>4, <1>5, <1>6
     DEF Sending, Receiving, Reach, Announcing, Ending, Cancelling, FirstIs,
         LastIs
<1>9. ~Accepting(a)' /\ (Refusing(a)' <=> Refusing(a))
  <2>1. /\ Len(control[a]) = 1 => Len(control'[a]) = 0
        /\ Len(control[a]) = 2 => /\ Len(control'[a]) = 1
                                  /\ control'[a][1] = control[a][2]
    BY <1>4
  <2>2. /\ control[a][1].type = "accept_transfer"
        /\ \/ Len(control[a]) = 1
           \/ Len(control[a]) = 2 /\ control[a][2].type = "receiver_canceled"
    BY <1>3 DEF Session, Queues, ToSender, Accepting, FirstIs
  <2>3. CASE Len(control[a]) = 1
    BY <2>1, <2>2, <2>3 DEF Accepting, Refusing, FirstIs, LastIs
  <2>4. CASE Len(control[a]) = 2
    BY <2>1, <2>2, <2>4 DEF Accepting, Refusing, FirstIs, LastIs
  <2>5. QED
    BY <2>2, <2>3, <2>4
<1>10. Queues(a, s)'
  BY <1>1, <1>3, <1>4, <1>5
     DEF Session, Queues, ToReceiver, ToSender, Accepting, FirstIs
<1>11. Sides(a, s)'
  BY <1>5, <1>6, <1>7, <1>8 DEF Session, Sides
<1>12. Opening(a, s)' /\ Leaving(a)'
  BY <1>4, <1>6, <1>7, <1>8, <1>9 DEF Session, Opening, Leaving
<1>13. Served(a, s)'
  <2>1. Receiving(a) => Reach(a) = offset
    BY <1>1, <1>3, <1>7 DEF Session, Opening, Reach
  <2>2. QED
    BY <1>5, <1>6, <1>7, <1>8, <1>9, <2>1 DEF Session, Served
<1>14. QED
  BY <1>3, <1>10, <1>11, <1>12, <1>13 DEF Session

LEMMA SessionReceiveMetadata ==
  ASSUME LinkInv, ~DiskFails, NEW a \in Peers, NEW s \in Sources,
         Session(a, s), NEW p \in Peers, ReceiveMetadata(p)
  PROVE  /\ Session(a, s)' /\ p = Other(a) /\ Announcing(a)
         /\ control[p][1].source = s
         /\ ~Ending(a)' /\ (up => Accepting(a)')
<1> DEFINE b == Other(a)
           path == DownloadPath(NameOf[s])
           file == disk[b][path]
           kept == IF FileSize(file) > Size[s] \/ file = None THEN <<>>
                   ELSE file
           accept == [type |-> "accept_transfer", offset |-> Len(kept)]
<1>1. /\ IInv /\ b \in Peers /\ b # a /\ Other(b) = a /\ Peers = {a, b}
      /\ up \in BOOLEAN /\ Len(control[a]) \in Nat /\ Len(control[b]) \in Nat
      /\ control \in [Peers -> Seq(Message)]
  BY SessionTypes
<1>2. FirstIs(control[p], "metadata") /\ control[p] # <<>>
  BY <1>1, MetadataStep
<1>3. p = b /\ Announcing(a) /\ control[b][1].source = s
  BY <1>1, <1>2 DEF Session, Queues, ToReceiver, ToSender, Announcing, FirstIs
<1>4. /\ ~Receiving(a) /\ Len(control[a]) = 0
      /\ Len(binary[b]) = 0 /\ lowEvents[a] = 0 /\ ~looping[a]
      /\ Sending(a) => ftm[a].pos = 0 /\ ftm[a].hash = <<>>
  BY <1>3 DEF Session, Opening
<1>5. /\ kept \in Seq(Block) /\ accept \in Message
      /\ ftm'[a] = ftm[a] /\ announced'[b] = s
      /\ ftm'[b].state = "Receiving" /\ ftm'[b].file = path
      /\ ftm'[b].expectedSize = Size[s]
      /\ ftm'[b].hash = <<>> /\ ftm'[b].received = Len(kept)
      /\ ftm'[b].expectedHash = None
      /\ control' = Posted(Taken(control, b), b, accept)
  BY <1>1, <1>3, MetadataStep
<1>6. Len(kept) \in Nat /\ Len(kept) <= Size[s]
  <2>1. Size[s] \in Nat
    BY ContentSize
  <2>2. kept # <<>> => kept = file /\ ~(FileSize(file) > Size[s]) /\ file # None
    OBVIOUS
  <2> HIDE DEF kept
  <2>3. Len(kept) \in Nat /\ (kept = <<>> => Len(kept) = 0)
    BY <1>5
  <2>4. QED
    BY <2>1, <2>2, <2>3 DEF FileSize
<1>7. UNCHANGED <<looping, lowEvents, binary, buffered, up>>
  BY DEF ReceiveMetadata
<1> HIDE DEF kept, accept, file
<1>8. /\ control'[a] = IF up THEN Append(control[a], accept) ELSE control[a]
      /\ control'[b] = Taken(control, b)[b]
  <2> DEFINE queue == Taken(control, b)
  <2>1. queue[a] = control[a] /\ queue \in [Peers -> Seq(Message)]
    BY <1>1, <1>2, <1>3, TakenCommands
  <2>2. control' = Posted(queue, b, accept)
    BY <1>5
  <2> HIDE DEF queue
  <2>3. b \in Peers /\ accept \in Message /\ Other(b) = a
    BY <1>1, <1>5
  <2>4. /\ Posted(queue, b, accept)[b] = queue[b]
        /\ ~up => Posted(queue, b, accept) = queue
        /\ up => Posted(queue, b, accept)[a] = Append(queue[a], accept)
    BY <2>1, <2>3, PostedMessages
  <2>5. QED
    BY <2>1, <2>2, <2>4 DEF queue
<1>9. /\ ~up => Len(control'[a]) = 0
      /\ up => Len(control'[a]) = 1 /\ control'[a][1] = accept
  <2>1. control[a] \in Seq(Message) /\ accept \in Message
    BY <1>1, <1>5
  <2>2. up => control'[a] = Append(control[a], accept)
    BY <1>8
  <2>3. ~up => control'[a] = control[a]
    BY <1>8
  <2>4. Len(control[a]) = 0
    BY <1>4
  <2>5. /\ Len(Append(control[a], accept)) = 1
        /\ Append(control[a], accept)[1] = accept
    BY <2>1, <2>4, AppendElements
  <2>6. QED
    BY <2>2, <2>3, <2>4, <2>5
<1>10. /\ Len(control'[b]) = Len(control[b]) - 1
       /\ Len(control[b]) = 2 => control'[b][1] = control[b][2]
  BY <1>1, <1>2, <1>3, <1>8, TakenCommands
<1>11. accept.type = "accept_transfer" /\ accept.offset = Len(kept)
  BY DEF accept
<1>12. /\ ~Announcing(a)' /\ ~Ending(a)' /\ ~Refusing(a)'
       /\ (Sending(a)' <=> Sending(a)) /\ Receiving(a)'
       /\ Accepting(a)' <=> up
       /\ Cancelling(a)' <=> Len(control[b]) = 2
  <2>1. /\ control[b][1].type = "metadata"
        /\ \/ Len(control[b]) = 1
           \/ Len(control[b]) = 2 /\ control[b][2].type = "cancel_transfer"
    BY <1>3 DEF Session, Queues, ToReceiver, Announcing, FirstIs
  <2>2. \/ Len(control[b]) = 1 /\ Len(control'[b]) = 0
        \/ /\ Len(control[b]) = 2 /\ Len(control'[b]) = 1
           /\ control'[b][1].type = "cancel_transfer"
    BY <1>10, <2>1
  <2>3. ~Announcing(a)' /\ ~Ending(a)' /\ (Cancelling(a)' <=> Len(control[b]) = 2)
    BY <2>2 DEF Announcing, Ending, Cancelling, FirstIs, LastIs
  <2>4. ~Refusing(a)' /\ (Accepting(a)' <=> up)
    BY <1>9, <1>11 DEF Accepting, Refusing, FirstIs, LastIs
  <2>5. QED
    BY <1>5, <2>3, <2>4 DEF Sending, Receiving
<1>13. Queues(a, s)'
  <2>1. ToSender(control'[a])
    BY <1>9, <1>11 DEF ToSender
  <2>2. ToReceiver(control'[b], s)
    BY <1>3, <1>10 DEF Session, Queues, ToReceiver, Announcing, FirstIs
  <2>3. QED
    BY <1>7, <2>1, <2>2 DEF Session, Queues, ToSender, ToReceiver
<1>14. Sides(a, s)'
  BY <1>5, <1>12 DEF Session, Sides
<1>15. Opening(a, s)'
  BY <1>4, <1>5, <1>6, <1>7, <1>9, <1>11, <1>12 DEF Opening
<1>16. Leaving(a)'
  <2>1. Sending(a) => Len(control[b]) = 1
    BY <1>3 DEF Session, Leaving, Announcing, FirstIs
  <2>2. Sending(a) => Len(control'[b]) = 0
    BY <1>10, <2>1
  <2>3. QED
    BY <1>5, <1>12, <2>2 DEF Leaving
<1>17. Served(a, s)'
  <2>1. up /\ ~Sending(a) => Cancelling(a)
    BY <1>3 DEF Session, Served
  <2>2. Cancelling(a) => Len(control[b]) = 2
    BY <1>3 DEF Session, Queues, ToReceiver, Cancelling, Announcing, FirstIs,
                LastIs
  <2>3. QED
    BY <1>7, <1>12, <2>1, <2>2 DEF Served
<1>18. QED
  BY <1>3, <1>12, <1>13, <1>14, <1>15, <1>16, <1>17 DEF Session

LEMMA SessionHandleBinaryChunk ==
  ASSUME LinkInv, NEW a \in Peers, NEW s \in Sources, Session(a, s),
         NEW p \in Peers, HandleBinaryChunk(p)
  PROVE  /\ Session(a, s)' /\ p = Other(a)
         /\ ~Announcing(a) /\ ~Accepting(a)
<1> DEFINE b == Other(a)
           m == WithChunk(ftm[b], binary[b][1])
<1>1. /\ IInv /\ b \in Peers /\ b # a /\ Other(b) = a /\ Peers = {a, b}
      /\ binary \in [Peers -> Seq(Block)]
      /\ Len(binary[b]) \in Nat /\ (binary[b] = <<>> <=> Len(binary[b]) = 0)
      /\ ftm[b].received \in Nat
  BY SessionTypes
<1>2. p = b /\ binary[b] # <<>> /\ binary' = Taken(binary, b)
  BY <1>1, ChunkStep DEF Session, Queues
<1>3. Len(binary'[b]) = Len(binary[b]) - 1 /\ binary'[a] = binary[a]
  BY <1>1, <1>2, TakenMessages
<1>4. ~Announcing(a) /\ ~Accepting(a)
  BY <1>1, <1>2 DEF Session, Opening
<1>5. UNCHANGED <<looping, control, buffered, lowEvents, up, announced>>
  BY DEF HandleBinaryChunk
<1>6. \/ ~Receiving(a) /\ ftm' = ftm
      \/ /\ Receiving(a) /\ ftm'[a] = ftm[a]
         /\ \/ /\ ~Due(m) /\ ftm'[b] = m /\ m.state = "Receiving"
               /\ m.received = ftm[b].received + 1 /\ m.file = ftm[b].file
               /\ m.expectedSize = ftm[b].expectedSize
               /\ m.expectedHash = ftm[b].expectedHash
            \/ ftm'[b].state = "Idle" /\ ftm[b].expectedHash # None
  <2>1. CASE ~Receiving(a)
    BY <1>1, <1>2, <2>1, ChunkStep DEF Receiving
  <2>2. CASE Receiving(a)
    <3>1. PICK files :
            /\ m \in Manager /\ m.hash \in Seq(Block)
            /\ m.received = ftm[b].received + 1
            /\ m.state = "Receiving" /\ m.file = ftm[b].file
            /\ m.expectedSize = ftm[b].expectedSize
            /\ m.expectedHash = ftm[b].expectedHash
            /\ CheckCompletion(b, m, files)
      BY <1>1, <1>2, <2>2, ChunkStep DEF Receiving
    <3>2. m.hash # None
      BY <3>1, BlocksAreNotNone
    <3> HIDE DEF m
    <3>3. /\ ftm'[a] = ftm[a]
          /\ \/ ~Due(m) /\ ftm'[b] = m
             \/ Due(m) /\ ftm'[b].state = "Idle"
      BY <1>1, <3>1, <3>2, CompletionStep
    <3>4. Due(m) => ftm[b].expectedHash # None
      BY <3>1 DEF Due
    <3>5. QED
      BY <2>2, <3>1, <3>3, <3>4
  <2>3. QED
    BY <2>1, <2>2
<1> HIDE DEF m
<1>7. Queues(a, s)'
  BY <1>3, <1>5 DEF Session, Queues, ToReceiver, ToSender
<1>8. /\ Sending(a)' <=> Sending(a)
      /\ Receiving(a)' => /\ Receiving(a)
                          /\ ftm'[b].expectedHash = ftm[b].expectedHash
                          /\ Reach(a)' = Reach(a)
                          /\ \/ ftm'[b].expectedHash = None
                             \/ ftm'[b].received < Size[s] \/ Size[s] = 0
  <2>1. CASE ~Receiving(a) /\ ftm' = ftm
    BY <2>1 DEF Sending, Receiving
  <2>2. CASE Receiving(a) /\ ftm'[a] = ftm[a] /\ ftm'[b].state = "Idle"
    BY <2>2 DEF Sending, Receiving
  <2>3. CASE /\ Receiving(a) /\ ftm'[a] = ftm[a] /\ ~Due(m) /\ ftm'[b] = m
             /\ m.received = ftm[b].received + 1
             /\ m.expectedSize = ftm[b].expectedSize
             /\ m.expectedHash = ftm[b].expectedHash
    <3>1. m.expectedSize = Size[s] /\ Size[s] \in Nat /\ m.received \in Nat
      BY <1>1, <2>3, ContentSize DEF Session, Sides
    <3>2. m.expectedHash = None \/ m.received < Size[s] \/ Size[s] = 0
      BY <2>3, <3>1 DEF Due
    <3>3. Reach(a)' = Reach(a)
      <4>1. ftm'[b].received = ftm[b].received + 1
        BY <2>3, Zenon
      <4>2. ftm'[b].received + Len(binary'[b])
              = ftm[b].received + Len(binary[b])
        <5>1. /\ Len(binary'[b]) = Len(binary[b]) - 1
              /\ Len(binary[b]) \in Nat /\ ftm[b].received \in Nat
          BY <1>1, <1>3, Zenon
        <5>2. \A k, n \in Nat : (k + 1) + (n - 1) = k + n
          OBVIOUS
        <5>3. QED
          BY <4>1, <5>1, <5>2, Zenon
      <4>3. QED
        BY <4>2, Zenon DEF Reach
    <3>4. QED
      BY <2>3, <3>2, <3>3 DEF Sending, Receiving
  <2>4. QED
    BY <1>6, <2>1, <2>2, <2>3
<1>9. Sides(a, s)'
  <2>1. ftm'[a] = ftm[a]
    BY <1>6
  <2>2. \/ ftm'[b].state = "Idle"
        \/ ftm'[b].state = "Receiving" /\ ftm'[b].file = ftm[b].file
           /\ ftm'[b].expectedSize = ftm[b].expectedSize /\ Receiving(a)
    BY <1>6 DEF Session, Sides, Receiving
  <2>3. QED
    BY <1>5, <2>1, <2>2 DEF Session, Sides, Sending, Receiving
<1>10. Opening(a, s)'
  BY <1>4, <1>5, SameCommands DEF Opening
<1>11. Leaving(a)'
  BY <1>4, <1>5, <1>8, SameCommands DEF Session, Leaving
<1>12. Served(a, s)'
  <2>1. /\ ftm'[a] = ftm[a]
        /\ (up /\ Sending(a) /\ ~Refusing(a)) => Receiving(a) /\ Receiving(a)'
    BY <1>4, <1>6 DEF Session, Served, Leaving, Receiving
  <2>2. QED
    BY <1>4, <1>5, <1>8, <2>1, SameCommands DEF Session, Served
<1>13. QED
  BY <1>2, <1>4, <1>7, <1>9, <1>10, <1>11, <1>12 DEF Session

LEMMA SessionReceiveComplete ==
  ASSUME LinkInv, NEW a \in Peers, NEW s \in Sources, Session(a, s),
         NEW p \in Peers, ReceiveComplete(p)
  PROVE  Session(a, s)' /\ p = Other(a) /\ Ending(a)
<1> DEFINE b == Other(a)
           hash == control[b][1].hash
           m == [ftm[b] EXCEPT !.expectedHash = hash]
<1>1. /\ IInv /\ b \in Peers /\ b # a /\ Other(b) = a /\ Peers = {a, b}
      /\ up \in BOOLEAN /\ Len(control[b]) \in Nat
      /\ control \in [Peers -> Seq(Message)]
      /\ ftm[b].received \in Nat
  BY SessionTypes
<1>2. FirstIs(control[p], "transfer_complete")
  BY <1>1, CompleteStep
<1>3. p = b /\ Ending(a) /\ Len(control[b]) = 1
  BY <1>1, <1>2 DEF Session, Queues, ToReceiver, ToSender, Ending, FirstIs
<1>4. /\ control' = Taken(control, b) /\ m \in Manager /\ m.hash = ftm[b].hash
      /\ m.received = ftm[b].received /\ m.expectedHash = hash
      /\ m.expectedSize = ftm[b].expectedSize /\ hash # None
      /\ m.state = ftm[b].state /\ m.file = ftm[b].file
      /\ CheckCompletion(b, m, disk[b])
  BY <1>1, <1>3, CompleteStep
<1>5. control'[a] = control[a] /\ Len(control'[b]) = 0
  <2>1. control[b] # <<>> /\ b \in Peers /\ Other(b) = a
    <3>1. Len(control[b]) = 1
      BY <1>3
    <3>2. control[b] # <<>>
      BY <3>1
    <3>3. QED
      BY <1>1, <3>2
  <2>2. /\ Len(Taken(control, b)[b]) = Len(control[b]) - 1
        /\ Taken(control, b)[a] = control[a]
    BY <1>1, <2>1, TakenCommands
  <2>3. control' = Taken(control, b)
    BY <1>4
  <2>4. QED
    BY <1>3, <2>2, <2>3
<1>6. UNCHANGED <<looping, binary, buffered, lowEvents, up, announced>>
  BY DEF ReceiveComplete
<1> HIDE DEF m, hash
<1>7. /\ ftm'[a] = ftm[a]
      /\ \/ ~Due(m) /\ ftm'[b] = m
         \/ ~Receiving(a) /\ ftm'[b] = ftm[b]
         \/ ftm'[b].state = "Idle"
  <2>1. Receiving(a) => m.hash # None
    BY <1>1, <1>4 DEF IInv, WorkerOwnsResources, Receiving
  <2>2. QED
    BY <1>1, <1>4, <2>1, CompletionStep
<1>8. ~Sending(a) /\ ~Accepting(a)
  BY <1>3 DEF Session, Leaving, Opening
<1>9. /\ ~Sending(a)' /\ ~Announcing(a)' /\ ~Ending(a)'
      /\ ~Accepting(a)' /\ (Refusing(a)' <=> Refusing(a))
      /\ Receiving(a)' => Receiving(a) /\ ~Due(m) /\ ftm'[b] = m
  BY <1>4, <1>5, <1>7, <1>8
     DEF Sending, Announcing, Ending, Accepting, Refusing, Receiving, FirstIs,
         LastIs
<1>10. Queues(a, s)'
  BY <1>5, <1>6 DEF Session, Queues, ToReceiver, ToSender
<1>11. Sides(a, s)'
  <2>1. ftm'[b].state \in {"Idle", "Receiving"}
    BY <1>4, <1>7 DEF Session, Sides
  <2>2. QED
    BY <1>4, <1>6, <1>7, <1>9, <2>1 DEF Session, Sides
<1>12. Opening(a, s)' /\ Leaving(a)'
  BY <1>9 DEF Session, Opening, Leaving
<1>13. Served(a, s)'
  <2>1. ASSUME up, Receiving(a)'
        PROVE  /\ Reach(a)' >= Size[s] /\ ftm'[b].expectedHash # None
               /\ ftm'[b].received < Size[s] \/ Size[s] = 0
    <3>1. Receiving(a) /\ ~Due(m) /\ ftm'[b] = m
      BY <1>9, <2>1
    <3>2. ~Cancelling(a)
      BY <1>3 DEF Cancelling, Ending, FirstIs, LastIs
    <3>3. Reach(a) >= Size[s]
      BY <1>8, <2>1, <3>1, <3>2 DEF Session, Served
    <3>4. Reach(a)' = Reach(a)
      BY <1>4, <1>6, <3>1 DEF Reach
    <3>5. m.expectedSize = Size[s] /\ Size[s] \in Nat
      BY <1>4, <3>1, ContentSize DEF Session, Sides
    <3>6. QED
      BY <1>1, <1>4, <3>1, <3>3, <3>4, <3>5 DEF Due
  <2>2. QED
    BY <1>6, <1>9, <2>1 DEF Served
<1>14. QED
  BY <1>3, <1>10, <1>11, <1>12, <1>13 DEF Session

LEMMA SessionReceiveCancel ==
  ASSUME LinkInv, NEW a \in Peers, NEW s \in Sources, Session(a, s),
         NEW p \in Peers, ReceiveCancel(p)
  PROVE  Session(a, s)'
<1> DEFINE b == Other(a)
<1>1. /\ IInv /\ b \in Peers /\ b # a /\ Other(b) = a /\ Peers = {a, b}
      /\ up \in BOOLEAN /\ ftm[p] \in Manager
      /\ control \in [Peers -> Seq(Message)]
  BY SessionTypes DEF IInv, TypeOK
<1>2. /\ control[p] # <<>> /\ control' = Taken(control, p)
      /\ control[p][1].type \in {"cancel_transfer", "receiver_canceled"}
      /\ Len(control'[p]) = Len(control[p]) - 1
      /\ control'[Other(p)] = control[Other(p)] /\ Len(control[p]) > 0
  BY <1>1, TakenCommands DEF ReceiveCancel, Pending
<1>3. UNCHANGED <<looping, binary, buffered, lowEvents, up, announced>>
  BY DEF ReceiveCancel, history
<1>4. ftm'[p].state = "Idle" /\ ftm'[Other(p)] = ftm[Other(p)]
  BY <1>1, CleanedPeer DEF ReceiveCancel
<1>5. CASE p = a
  <2>1. Len(control[a]) = 1 /\ Refusing(a) /\ ~Accepting(a)
    BY <1>2, <1>5
       DEF Session, Queues, ToSender, Refusing, Accepting, FirstIs, LastIs
  <2>2. Len(control'[a]) = 0 /\ control'[b] = control[b]
    BY <1>2, <1>5, <2>1
  <2>3. ~Receiving(a) /\ ~Announcing(a)
    BY <2>1 DEF Session, Leaving
  <2>4. /\ ~Sending(a)' /\ ~Receiving(a)' /\ ~Announcing(a)' /\ ~Accepting(a)'
        /\ ~Refusing(a)'
    BY <1>4, <1>5, <2>2, <2>3
       DEF Sending, Receiving, Announcing, Accepting, Refusing, FirstIs, LastIs
  <2>5. Queues(a, s)' /\ Sides(a, s)'
    BY <1>3, <1>4, <1>5, <2>2, <2>4 DEF Session, Queues, Sides, ToReceiver, ToSender
  <2>6. Opening(a, s)' /\ Leaving(a)' /\ Served(a, s)'
    BY <2>4 DEF Opening, Leaving, Served
  <2>7. QED
    BY <2>5, <2>6 DEF Session
<1>6. CASE p = b
  <2>1. Len(control[b]) = 1 /\ ~Announcing(a) /\ ~Ending(a)
    BY <1>2, <1>6
       DEF Session, Queues, ToReceiver, Announcing, Ending, FirstIs
  <2>2. Len(control'[b]) = 0 /\ control'[a] = control[a] /\ ftm'[a] = ftm[a]
    BY <1>1, <1>2, <1>4, <1>6, <2>1
  <2>3. ~Sending(a)
    BY <2>1 DEF Session, Leaving
  <2>4. /\ ~Sending(a)' /\ ~Receiving(a)' /\ ~Announcing(a)' /\ ~Ending(a)'
        /\ Accepting(a)' <=> Accepting(a)
        /\ Refusing(a)' <=> Refusing(a)
    BY <1>4, <1>6, <2>2, <2>3
       DEF Sending, Receiving, Announcing, Ending, Accepting, Refusing, FirstIs,
           LastIs
  <2>5. Queues(a, s)' /\ Sides(a, s)'
    BY <1>3, <1>4, <1>6, <2>2, <2>4 DEF Session, Queues, Sides, ToReceiver, ToSender
  <2>6. Opening(a, s)' /\ Leaving(a)' /\ Served(a, s)'
    BY <1>3, <2>2, <2>4 DEF Session, Opening, Leaving, Served
  <2>7. QED
    BY <2>5, <2>6 DEF Session
<1>7. QED
  BY <1>1, <1>5, <1>6

LEMMA SessionOnPeerDisconnected ==
  ASSUME LinkInv, NEW a \in Peers, NEW s \in Sources, Session(a, s),
         NEW p \in Peers, OnPeerDisconnected(p)
  PROVE  Session(a, s)'
<1> DEFINE b == Other(a)
<1>1. /\ IInv /\ b \in Peers /\ b # a /\ Other(b) = a /\ Peers = {a, b}
      /\ ftm[p] \in Manager
  BY SessionTypes DEF IInv, TypeOK
<1>2. /\ UNCHANGED <<control, binary, buffered, lowEvents, looping, up, announced>>
      /\ ~up
  BY DEF OnPeerDisconnected, link, history, LinkInv, ClosedIsIdle
<1>3. ftm'[p].state = "Idle" /\ ftm'[Other(p)] = ftm[Other(p)]
  BY <1>1, CleanedPeer DEF OnPeerDisconnected
<1>4. \/ ~Sending(a)' /\ ftm'[b] = ftm[b] /\ (Receiving(a)' <=> Receiving(a))
      \/ ~Receiving(a)' /\ ftm'[a] = ftm[a] /\ (Sending(a)' <=> Sending(a))
  BY <1>1, <1>3 DEF Sending, Receiving
<1>5. Queues(a, s)' /\ Served(a, s)'
  BY <1>2 DEF Session, Queues, Served, ToReceiver, ToSender
<1>6. Sides(a, s)'
  BY <1>1, <1>2, <1>3, <1>4 DEF Session, Sides
<1>7. Opening(a, s)' /\ Leaving(a)'
  BY <1>2, <1>4, SameCommands DEF Session, Opening, Leaving
<1>8. QED
  BY <1>5, <1>6, <1>7 DEF Session

LEMMA SessionCancelTransfer ==
  ASSUME LinkInv, NEW a \in Peers, NEW s \in Sources, Session(a, s),
         NEW p \in Peers, CancelTransfer(p), ftm[p].state # "Idle"
  PROVE  Session(a, s)' /\ (p = a => ~Ending(a)')
<1> DEFINE b == Other(a)
           message == [type |-> IF ftm[p].state = "Sending"
                                THEN "cancel_transfer" ELSE "receiver_canceled"]
<1>1. /\ IInv /\ b \in Peers /\ b # a /\ Other(b) = a /\ Peers = {a, b}
      /\ up \in BOOLEAN /\ ftm[p] \in Manager
      /\ Len(control[a]) \in Nat /\ Len(control[b]) \in Nat
      /\ control \in [Peers -> Seq(Message)]
  BY SessionTypes DEF IInv, TypeOK
<1>2. UNCHANGED <<binary, buffered, lowEvents, looping, up, announced>>
  BY DEF CancelTransfer, history
<1>3. ftm'[p].state = "Idle" /\ ftm'[Other(p)] = ftm[Other(p)]
  BY <1>1, CleanedPeer DEF CancelTransfer
<1>4. control' = Posted(control, p, message) /\ message \in Message
  BY DEF CancelTransfer, Message
<1>5. CASE p = a
  <2>1. Sending(a) /\ message.type = "cancel_transfer"
    BY <1>5 DEF Session, Sides, Sending
  <2> HIDE DEF message
  <2>2. /\ control'[a] = control[a]
        /\ ~up => control'[b] = control[b]
        /\ up => /\ Len(control'[b]) = Len(control[b]) + 1
                 /\ Len(control[b]) = 0 => control'[b][1] = message
                 /\ Len(control[b]) = 1 => /\ control'[b][1] = control[b][1]
                                           /\ control'[b][2] = message
    <3>1. control \in [Peers -> Seq(Message)] /\ a \in Peers
      BY <1>1
    <3>2. control' = Posted(control, a, message)
      BY <1>4, <1>5
    <3>3. QED
      BY <1>4, <3>1, <3>2, PostedCommands
  <2>3. \/ Len(control[b]) = 0
        \/ Len(control[b]) = 1 /\ Announcing(a)
    BY <2>1 DEF Session, Leaving
  <2>4. /\ ~Sending(a)' /\ (Receiving(a)' <=> Receiving(a))
        /\ Accepting(a)' <=> Accepting(a)
        /\ Refusing(a)' <=> Refusing(a)
    BY <1>1, <1>3, <1>5, <2>2
       DEF Sending, Receiving, Accepting, Refusing, FirstIs, LastIs
  <2>5. /\ Announcing(a)' <=> Announcing(a)
        /\ ~Ending(a)'
        /\ up => Cancelling(a)'
    <3>1. CASE Len(control[b]) = 0
      BY <2>1, <2>2, <3>1 DEF Announcing, Ending, Cancelling, FirstIs, LastIs
    <3>2. CASE Len(control[b]) = 1 /\ Announcing(a)
      BY <2>1, <2>2, <3>2 DEF Announcing, Ending, Cancelling, FirstIs, LastIs
    <3>3. QED
      BY <2>3, <3>1, <3>2
  <2>6. Queues(a, s)'
    <3>1. ToReceiver(control'[b], s)
      <4>1. Announcing(a) => control[b][1].type = "metadata"
        BY DEF Announcing, FirstIs
      <4>2. Announcing(a) => control[b][1].source = s
        BY <2>3, <4>1 DEF Session, Queues, ToReceiver, Announcing, FirstIs
      <4>3. CASE ~up
        BY <2>2, <4>3 DEF Session, Queues, ToReceiver
      <4>4. CASE up /\ Len(control[b]) = 0
        BY <2>1, <2>2, <4>4 DEF ToReceiver
      <4>5. CASE up /\ Len(control[b]) = 1 /\ Announcing(a)
        BY <2>1, <2>2, <4>1, <4>2, <4>5 DEF ToReceiver
      <4>6. QED
        BY <1>1, <2>3, <4>3, <4>4, <4>5
    <3>2. QED
      BY <1>2, <2>2, <3>1 DEF Session, Queues, ToReceiver, ToSender
  <2>7. Sides(a, s)' /\ Opening(a, s)'
    BY <1>2, <1>3, <1>5, <2>2, <2>4, <2>5 DEF Session, Sides, Opening
  <2>8. Leaving(a)' /\ Served(a, s)'
    BY <1>2, <2>4, <2>5 DEF Session, Leaving, Served
  <2>9. QED
    BY <1>5, <2>5, <2>6, <2>7, <2>8 DEF Session
<1>6. CASE p = b
  <2>1. /\ Receiving(a) /\ message.type = "receiver_canceled"
        /\ ftm'[a] = ftm[a]
    BY <1>1, <1>3, <1>6 DEF Session, Sides, Receiving
  <2> HIDE DEF message
  <2>2. /\ control'[b] = control[b]
        /\ ~up => control'[a] = control[a]
        /\ up => /\ Len(control'[a]) = Len(control[a]) + 1
                 /\ Len(control[a]) = 0 => control'[a][1] = message
                 /\ Len(control[a]) = 1 => /\ control'[a][1] = control[a][1]
                                           /\ control'[a][2] = message
    <3>1. control \in [Peers -> Seq(Message)] /\ b \in Peers /\ Other(b) = a
      BY <1>1
    <3>2. control' = Posted(control, b, message)
      BY <1>4, <1>6
    <3>3. QED
      BY <1>4, <3>1, <3>2, PostedCommands
  <2>3. ~Announcing(a) /\ ~Refusing(a)
    BY <2>1 DEF Session, Opening, Leaving
  <2>4. \/ Len(control[a]) = 0
        \/ Len(control[a]) = 1 /\ control[a][1].type = "accept_transfer"
    BY <2>3 DEF Session, Queues, ToSender, Refusing, LastIs
  <2>5. /\ ~Receiving(a)' /\ (Sending(a)' <=> Sending(a))
        /\ ~Announcing(a)'
        /\ Ending(a)' <=> Ending(a)
    BY <1>3, <1>6, <2>1, <2>2, <2>3
       DEF Sending, Receiving, Announcing, Ending, FirstIs
  <2>6. /\ Accepting(a)' <=> Accepting(a)
        /\ Accepting(a) => control'[a][1] = control[a][1]
        /\ up => Refusing(a)'
    <3>1. CASE Len(control[a]) = 0
      BY <2>1, <2>2, <3>1 DEF Accepting, Refusing, FirstIs, LastIs
    <3>2. CASE Len(control[a]) = 1 /\ control[a][1].type = "accept_transfer"
      BY <2>1, <2>2, <3>2 DEF Accepting, Refusing, FirstIs, LastIs
    <3>3. QED
      BY <2>4, <3>1, <3>2
  <2>7. Queues(a, s)'
    <3>1. ToSender(control'[a])
      <4>1. CASE ~up
        BY <2>2, <2>4, <4>1 DEF ToSender
      <4>2. CASE up /\ Len(control[a]) = 0
        BY <2>1, <2>2, <4>2 DEF ToSender
      <4>3. CASE /\ up /\ Len(control[a]) = 1
                 /\ control[a][1].type = "accept_transfer"
        BY <2>1, <2>2, <4>3 DEF ToSender
      <4>4. QED
        BY <1>1, <2>4, <4>1, <4>2, <4>3
    <3>2. QED
      BY <1>2, <2>2, <3>1 DEF Session, Queues, ToReceiver, ToSender
  <2>8. Sides(a, s)' /\ Opening(a, s)'
    BY <1>2, <1>3, <1>6, <2>1, <2>5, <2>6 DEF Session, Sides, Opening
  <2>9. Leaving(a)'
    BY <2>2, <2>3, <2>5 DEF Session, Leaving
  <2>10. Served(a, s)'
    BY <1>2, <2>5, <2>6 DEF Served
  <2>11. QED
    BY <1>1, <1>6, <2>7, <2>8, <2>9, <2>10 DEF Session
<1>7. QED
  BY <1>1, <1>5, <1>6

LEMMA SessionDrain ==
  ASSUME LinkInv, NEW a \in Peers, NEW s \in Sources, Session(a, s),
         NEW p \in Peers, Drain(p)
  PROVE  Session(a, s)'
<1> DEFINE b == Other(a)
<1>1. /\ b \in Peers /\ b # a /\ Other(b) = a /\ Peers = {a, b}
      /\ buffered[a] \in Nat /\ LowWater \in Nat /\ lowEvents[a] \in Nat
      /\ buffered[a] <= Len(binary[b]) /\ Len(binary[b]) \in Nat
      /\ buffered \in [Peers -> Nat] /\ lowEvents \in [Peers -> Nat]
  BY SessionTypes DEF IInv, TypeOK
<1>2. UNCHANGED <<ftm, control, binary, looping, up, announced>>
  BY DEF Drain, history
<1>3. p = a /\ buffered[a] > 0
  BY <1>1 DEF Drain, Session, Queues
<1>4. ~Announcing(a) /\ ~Accepting(a)
  <2>1. Len(binary[b]) # 0
    BY <1>1, <1>3
  <2>2. QED
    BY <2>1 DEF Session, Opening
<1>5. /\ buffered'[b] = buffered[b] /\ lowEvents'[a] \in Nat
      /\ (lowEvents[a] > 0 \/ buffered[a] > LowWater) =>
           (lowEvents'[a] > 0 \/ buffered'[a] > LowWater)
  BY <1>1, <1>3 DEF Drain
<1>6. /\ Sending(a)' <=> Sending(a)
      /\ Receiving(a)' <=> Receiving(a)
      /\ Reach(a)' = Reach(a)
  BY <1>2 DEF Sending, Receiving, Reach
<1>7. Queues(a, s)' /\ Sides(a, s)'
  BY <1>2, <1>5, <1>6 DEF Session, Queues, Sides, ToReceiver, ToSender
<1>8. Opening(a, s)' /\ Leaving(a)'
  BY <1>2, <1>4, <1>6, SameCommands DEF Session, Opening, Leaving
<1>9. Served(a, s)'
  BY <1>2, <1>5, <1>6, SameCommands DEF Session, Served
<1>10. QED
  BY <1>7, <1>8, <1>9 DEF Session

LEMMA SessionLoseInFlight ==
  ASSUME LinkInv, NEW a \in Peers, NEW s \in Sources, Session(a, s),
         NEW p \in Peers, LoseInFlight(p)
  PROVE  Session(a, s)'
<1> DEFINE b == Other(a)
<1>1. /\ b \in Peers /\ b # a /\ Other(b) = a /\ Peers = {a, b}
      /\ control \in [Peers -> Seq(Message)]
      /\ binary \in [Peers -> Seq(Block)] /\ Len(binary[b]) \in Nat
  BY SessionTypes
<1>2. UNCHANGED <<ftm, buffered, lowEvents, looping, up, announced>> /\ ~up
  BY DEF LoseInFlight, history
<1>3. /\ Sending(a)' <=> Sending(a)
      /\ Receiving(a)' <=> Receiving(a)
      /\ Served(a, s)'
  BY <1>2 DEF Sending, Receiving, Served
<1>4. CASE binary[p] # <<>> /\ binary' = DropLast(binary, p) /\ control' = control
  <2>1. /\ Len(binary[p]) > 0
        /\ binary'[Other(p)] = binary[Other(p)]
    BY <1>1, <1>4, DroppedMessages
  <2>2. p = b
    BY <1>1, <1>4 DEF Session, Queues
  <2>3. binary'[a] = binary[a] /\ Len(binary[b]) # 0
    BY <1>1, <2>1, <2>2
  <2>4. ~Announcing(a) /\ ~Accepting(a)
    BY <2>3 DEF Session, Opening
  <2>5. Queues(a, s)' /\ Sides(a, s)'
    BY <1>2, <1>3, <1>4, <2>3 DEF Session, Queues, Sides, ToReceiver, ToSender
  <2>6. Opening(a, s)' /\ Leaving(a)'
    BY <1>2, <1>3, <1>4, <2>4, SameCommands DEF Session, Opening, Leaving
  <2>7. QED
    BY <1>3, <2>5, <2>6 DEF Session
<1>5. CASE control[p] # <<>> /\ control' = DropLast(control, p) /\ binary' = binary
  <2>1. /\ Len(control[p]) > 0 /\ Len(control'[p]) = Len(control[p]) - 1
        /\ Len(control[p]) = 2 => control'[p][1] = control[p][1]
        /\ control'[Other(p)] = control[Other(p)]
    BY <1>1, <1>5, DroppedCommands
  <2>2. CASE p = a
    <3>1. \/ Len(control[a]) = 1 /\ Len(control'[a]) = 0
          \/ /\ Len(control[a]) = 2 /\ Len(control'[a]) = 1
             /\ control'[a][1] = control[a][1]
             /\ control[a][1].type = "accept_transfer"
      <4>1. \/ Len(control[a]) = 1
            \/ Len(control[a]) = 2 /\ control[a][1].type = "accept_transfer"
        BY <2>1, <2>2 DEF Session, Queues, ToSender
      <4>2. /\ Len(control'[a]) = Len(control[a]) - 1
            /\ Len(control[a]) = 2 => control'[a][1] = control[a][1]
        BY <2>1, <2>2
      <4>3. QED
        BY <4>1, <4>2
    <3>2. control'[b] = control[b]
      BY <2>1, <2>2
    <3>3. /\ ~Refusing(a)' /\ ToSender(control'[a])
          /\ Accepting(a)' => Accepting(a) /\ control'[a][1] = control[a][1]
      BY <3>1 DEF ToSender, Accepting, Refusing, FirstIs, LastIs
    <3>4. /\ Announcing(a)' <=> Announcing(a)
          /\ Ending(a)' <=> Ending(a)
          /\ Len(control[a]) = 0 => FALSE
      BY <3>1, <3>2 DEF Announcing, Ending, FirstIs
    <3>5. Queues(a, s)' /\ Sides(a, s)'
      BY <1>2, <1>3, <1>5, <3>2, <3>3 DEF Session, Queues, Sides, ToReceiver
    <3>6. Opening(a, s)'
      BY <1>2, <1>3, <1>5, <3>3, <3>4 DEF Session, Opening
    <3>7. Leaving(a)'
      BY <1>2, <1>3, <3>2, <3>3, <3>4 DEF Session, Leaving
    <3>8. QED
      BY <1>3, <3>5, <3>6, <3>7 DEF Session
  <2>3. CASE p = b
    <3>1. \/ Len(control[b]) = 1 /\ Len(control'[b]) = 0
          \/ /\ Len(control[b]) = 2 /\ Len(control'[b]) = 1
             /\ control'[b][1] = control[b][1] /\ Announcing(a)
             /\ control[b][1].type = "metadata" /\ control[b][1].source = s
      <4>1. \/ Len(control[b]) = 1
            \/ /\ Len(control[b]) = 2 /\ control[b][1].type = "metadata"
               /\ control[b][1].source = s
        BY <2>1, <2>3 DEF Session, Queues, ToReceiver
      <4>2. /\ Len(control'[b]) = Len(control[b]) - 1
            /\ Len(control[b]) = 2 => control'[b][1] = control[b][1]
        BY <2>1, <2>3
      <4>3. QED
        BY <4>1, <4>2 DEF Announcing, FirstIs
    <3>2. control'[a] = control[a]
      BY <1>1, <2>1, <2>3
    <3>3. /\ ToReceiver(control'[b], s) /\ ~Ending(a)'
          /\ Announcing(a)' => Announcing(a)
      BY <3>1 DEF ToReceiver, Announcing, Ending, FirstIs
    <3>4. /\ Accepting(a)' <=> Accepting(a)
          /\ Refusing(a)' <=> Refusing(a)
      BY <3>2 DEF Accepting, Refusing, FirstIs, LastIs
    <3>5. Queues(a, s)' /\ Sides(a, s)'
      BY <1>2, <1>3, <1>5, <3>2, <3>3 DEF Session, Queues, Sides, ToSender
    <3>6. Opening(a, s)'
      BY <1>2, <1>3, <1>5, <3>2, <3>3, <3>4 DEF Session, Opening
    <3>7. Leaving(a)'
      <4>1. Sending(a) => Len(control'[b]) = 0
        <5>1. Sending(a) => Len(control[b]) \in {0, 1}
          BY DEF Session, Leaving
        <5>2. Len(control[b]) = 1 \/ Len(control[b]) = 2
          BY <3>1
        <5>3. Len(control[b]) = 1 => Len(control'[b]) = 0
          BY <3>1
        <5>4. QED
          BY <5>1, <5>2, <5>3
      <4>2. QED
        BY <1>2, <1>3, <3>3, <3>4, <4>1 DEF Session, Leaving
    <3>8. QED
      BY <1>3, <3>5, <3>6, <3>7 DEF Session
  <2>4. QED
    BY <1>1, <2>2, <2>3
<1>6. QED
  BY <1>4, <1>5 DEF LoseInFlight

LEMMA SessionLinkLost ==
  ASSUME LinkInv, NEW a \in Peers, NEW s \in Sources, Session(a, s), LinkLost
  PROVE  Session(a, s)'
<1> DEFINE b == Other(a)
<1>1. /\ b \in Peers /\ b # a /\ Other(b) = a /\ Peers = {a, b}
      /\ binary \in [Peers -> Seq(Block)] /\ Len(binary[b]) \in Nat
      /\ buffered[a] \in Nat /\ buffered[a] <= Len(binary[b])
  BY SessionTypes
<1>2. /\ UNCHANGED <<ftm, control, lowEvents, looping, announced>>
      /\ up' = FALSE /\ buffered'[b] = 0
      /\ binary'[a] = SubSeq(binary[a], 1, Len(binary[a]) - buffered[b])
      /\ binary'[b] = SubSeq(binary[b], 1, Len(binary[b]) - buffered[a])
  BY <1>1 DEF LinkLost, history, Arrived
<1>3. binary'[a] = <<>>
  <2>1. binary[a] = <<>> /\ buffered[b] = 0
    BY DEF Session, Queues
  <2>2. Len(binary[a]) - buffered[b] = 0
    BY <2>1
  <2>3. QED
    BY <1>2, <2>1, <2>2
<1>4. Len(binary[b]) = 0 => Len(binary'[b]) = 0
  <2>1. ASSUME Len(binary[b]) = 0 PROVE binary'[b] = SubSeq(binary[b], 1, 0)
    BY <1>1, <1>2, <2>1
  <2>2. binary[b] \in Seq(Block)
    BY <1>1
  <2>3. Len(SubSeq(binary[b], 1, 0)) = 0
    BY <2>2
  <2>4. QED
    BY <2>1, <2>3
<1>5. /\ Sending(a)' <=> Sending(a)
      /\ Receiving(a)' <=> Receiving(a)
      /\ Served(a, s)'
  BY <1>2 DEF Sending, Receiving, Served
<1>6. Queues(a, s)' /\ Sides(a, s)'
  BY <1>2, <1>3, <1>5 DEF Session, Queues, Sides, ToReceiver, ToSender
<1>7. Opening(a, s)' /\ Leaving(a)'
  BY <1>2, <1>4, <1>5, SameCommands DEF Session, Opening, Leaving
<1>8. QED
  BY <1>5, <1>6, <1>7 DEF Session

LEMMA SessionBegins ==
  ASSUME LinkInv, ~DiskFails, Quiet, \A q \in Peers : ftm[q].state = "Idle",
         NEW a \in Peers, NEW s \in Outbox[a], SendFile(a, s)
  PROVE  Session(a, s)' /\ s \in Sources /\ ~Receiving(a)'
<1> DEFINE b == Other(a)
           message == [type |-> "metadata", source |-> s]
           path == SourcePath(s)
           m == [Cleanup(ftm[a]) EXCEPT !.state = "Sending", !.file = path,
                       !.mode = "read", !.pos = 0, !.hash = <<>>,
                       !.expectedSize = FileSize(disk[a][path])]
<1>1. /\ IInv /\ b \in Peers /\ b # a /\ Other(b) = a /\ Peers = {a, b}
      /\ control \in [Peers -> Seq(Message)] /\ binary \in [Peers -> Seq(Block)]
      /\ buffered[b] \in Nat /\ buffered[b] <= Len(binary[a])
      /\ ftm[a] \in Manager
  BY SessionTypes, TwoPeers DEF LinkInv, RolesInv, BufferedIsUnderWay, IInv, TypeOK
<1>2. s \in Sources
  BY FilesAssumption
<1>3. /\ control[a] = <<>> /\ control[b] = <<>> /\ binary[a] = <<>>
      /\ binary[b] = <<>> /\ lowEvents[a] = 0 /\ ~looping[a] /\ up
      /\ ftm[b].state = "Idle"
  BY <1>1 DEF Quiet
<1>4. buffered[b] = 0
  BY <1>1, <1>3
<1>5. disk[a][path] = Content(s) /\ FileSize(disk[a][path]) = Size[s]
      /\ Content(s) # None /\ Size[s] \in Nat
  BY <1>2, ContentSize DEF LinkInv, RolesInv, SourceFiles
<1>6. ftm' = [ftm EXCEPT ![a] = m] /\ control' = Posted(control, a, message)
  BY <1>5 DEF SendFile
<1>7. /\ m.state = "Sending" /\ m.file = path /\ m.pos = 0 /\ m.hash = <<>>
      /\ m.expectedSize = Size[s]
  BY <1>1, <1>5, CleanupProperties DEF Manager
<1> HIDE DEF m
<1>8. ftm'[a] = m /\ ftm'[b] = ftm[b]
  BY <1>1, <1>6, AtPeer
<1>9. UNCHANGED <<binary, buffered, lowEvents, looping, up, announced>>
  BY DEF SendFile, history
<1>10. message \in Message /\ message.type = "metadata" /\ message.source = s
  BY <1>2 DEF Message
<1> HIDE DEF message
<1>11. /\ Len(control'[a]) = 0 /\ Len(control'[b]) = 1
       /\ control'[b][1] = message
  <2>1. control \in [Peers -> Seq(Message)]
    BY <1>1
  <2>2. Len(control[b]) = 0 /\ Len(control[a]) = 0 /\ up
    BY <1>3
  <2>3. control' = Posted(control, a, message) /\ message \in Message
    BY <1>6, <1>10
  <2>4. /\ control'[a] = control[a] /\ Len(control'[b]) = Len(control[b]) + 1
        /\ control'[b][1] = message
    BY <2>1, <2>2, <2>3, PostedCommands, Zenon
  <2>5. QED
    BY <2>2, <2>4
<1>12. /\ Sending(a)' /\ ~Receiving(a)' /\ Announcing(a)' /\ ~Ending(a)'
       /\ ~Accepting(a)' /\ ~Refusing(a)'
  BY <1>3, <1>7, <1>8, <1>10, <1>11
     DEF Sending, Receiving, Announcing, Ending, Accepting, Refusing, FirstIs,
         LastIs
<1>13. Queues(a, s)'
  BY <1>3, <1>4, <1>9, <1>10, <1>11 DEF Queues, ToReceiver, ToSender
<1>14. Sides(a, s)'
  BY <1>3, <1>5, <1>7, <1>8, <1>12 DEF Sides
<1>15. Opening(a, s)' /\ Leaving(a)'
  <2>1. Len(binary'[b]) = 0
    BY <1>3, <1>9
  <2>2. QED
    BY <1>3, <1>7, <1>8, <1>9, <1>11, <1>12, <2>1 DEF Opening, Leaving
<1>16. Served(a, s)'
  BY <1>12 DEF Served
<1>17. QED
  BY <1>2, <1>12, <1>13, <1>14, <1>15, <1>16 DEF Session

\* A connection comes back when both workers are idle and nothing is left.
LEMMA CalmRestored ==
  ASSUME LinkInv, LinkRestored
  PROVE  Calm'
<1>1. UNCHANGED <<ftm, control, binary, buffered>>
  BY DEF LinkRestored, link
<1>2. \A p \in Peers : ~up /\ ~closing[p]
  BY DEF LinkRestored
<1>3. QED
  BY <1>1, <1>2 DEF LinkInv, BufferedIsUnderWay, ClosedIsIdle, Calm

LEMMA SessionStep ==
  ASSUME LinkInv, ~DiskFails, NEW a \in Peers, NEW s \in Sources,
         Session(a, s),
         \/ Network
         \/ \E p \in Peers :
              Worker(p) \/ (CancelTransfer(p) /\ ftm[p].state # "Idle")
  PROVE  Session(a, s)' \/ (LinkRestored /\ Calm')
<1>1. ASSUME NEW p \in Peers, Worker(p)
      PROVE  Session(a, s)'
  BY <1>1, SessionSendChunk, SessionPauseLoop, SessionFinishLoop,
     SessionSetBackpressure, SessionHandleBinaryChunk, SessionReceiveMetadata,
     SessionReceiveAccept, SessionReceiveComplete, SessionReceiveCancel,
     SessionOnPeerDisconnected, Zenon DEF Worker
<1>2. ASSUME NEW p \in Peers, CancelTransfer(p), ftm[p].state # "Idle"
      PROVE  Session(a, s)'
  BY <1>2, SessionCancelTransfer
<1>3. CASE Network
  BY <1>3, SessionDrain, SessionLoseInFlight, SessionLinkLost, CalmRestored,
     Zenon DEF Network
<1>4. QED
  BY <1>1, <1>2, <1>3, Zenon

LEMMA CalmStep ==
  ASSUME LinkInv, Calm,
         \/ Network
         \/ \E p \in Peers :
              Worker(p) \/ (CancelTransfer(p) /\ ftm[p].state # "Idle")
  PROVE  Calm' /\ UNCHANGED <<disk, verdict>>
<1>1. IInv /\ control \in [Peers -> Seq(Message)] /\ ftm \in [Peers -> Manager]
  BY DEF LinkInv, RolesInv, IInv, TypeOK
<1>2. ASSUME NEW p \in Peers, Worker(p), ~closing[p]
      PROVE  Calm' /\ UNCHANGED <<disk, verdict>>
  BY <1>1, <1>2, IdleWorker DEF Calm
<1>3. ASSUME NEW p \in Peers, Worker(p), closing[p]
      PROVE  Calm' /\ UNCHANGED <<disk, verdict>>
  <2>1. ~looping[p]
    BY <1>1 DEF Calm, IInv, WorkerOwnsResources
  <2>2. ~HandleBinaryChunk(p)
    <3>1. Len(binary[p]) - buffered[Other(p)] = 0
      BY TwoPeers DEF Calm
    <3>2. QED
      BY <3>1 DEF HandleBinaryChunk, Arrived
  <2>3. SetBackpressure(p) \/ OnPeerDisconnected(p)
    BY <1>3, <2>1, <2>2
       DEF Calm, Worker, SendChunk, PauseLoop, FinishLoop, ReceiveMetadata,
           ReceiveAccept, ReceiveComplete, ReceiveCancel, Pending
  <2>4. CASE SetBackpressure(p)
    BY <2>4 DEF SetBackpressure, history, Calm
  <2>5. CASE OnPeerDisconnected(p)
    <3>1. ftm'[p].state = "Idle" /\ ftm'[Other(p)] = ftm[Other(p)]
      BY <1>1, <2>5, CleanedPeer DEF OnPeerDisconnected
    <3>2. UNCHANGED <<control, binary, buffered, disk, verdict>>
      BY <2>5 DEF OnPeerDisconnected, link, history
    <3>3. QED
      BY <3>1, <3>2, TwoPeers DEF Calm
  <2>6. QED
    BY <2>3, <2>4, <2>5
<1>4. ASSUME NEW p \in Peers, Drain(p) \/ LoseInFlight(p)
      PROVE  FALSE
  BY <1>4 DEF Drain, LoseInFlight, Calm
<1>5. CASE LinkLost
  <2>1. \A p \in Peers : binary'[p] = SubSeq(binary[p], 1, Arrived(p))
    BY <1>5 DEF LinkLost
  <2>2. \A p \in Peers : binary[p] = <<>> /\ Arrived(p) = 0
    <3>1. ASSUME NEW p \in Peers
          PROVE  binary[p] = <<>> /\ buffered[Other(p)] = 0
      BY TwoPeers DEF Calm
    <3>2. ASSUME NEW p \in Peers
          PROVE  Arrived(p) = 0
      <4>1. Len(binary[p]) = 0
        BY <3>1
      <4>2. QED
        BY <3>1, <4>1 DEF Arrived
    <3>3. QED
      BY <3>1, <3>2
  <2>3. \A p \in Peers : binary'[p] = <<>>
    BY <2>1, <2>2
  <2>4. /\ UNCHANGED <<ftm, control, disk, verdict>>
        /\ buffered' = [p \in Peers |-> 0]
    BY <1>5 DEF LinkLost, history
  <2>5. QED
    BY <2>3, <2>4 DEF Calm
<1>6. CASE LinkRestored
  BY <1>6, CalmRestored DEF LinkRestored, history
<1>7. ASSUME NEW p \in Peers, CancelTransfer(p), ftm[p].state # "Idle"
      PROVE  FALSE
  BY <1>7 DEF Calm
<1>8. QED
  BY <1>2, <1>3, <1>4, <1>5, <1>6, <1>7 DEF Network

LEMMA InitSessionInv == Init => SessionInv
<1> SUFFICES ASSUME Init PROVE SessionInv
  OBVIOUS
<1>1. Calm
  BY DEF Init, Calm, NewManager
<1>2. QED
  BY <1>1, InitLinkInv DEF SessionInv

LEMMA NextSessionInv ==
  ASSUME ~DiskFails
  PROVE  SessionInv /\ [Next /\ Patient]_vars => SessionInv'
<1> SUFFICES ASSUME SessionInv, [Next /\ Patient]_vars PROVE SessionInv'
  OBVIOUS
<1> DEFINE Step == \/ Network
                   \/ \E p \in Peers :
                        Worker(p) \/ (CancelTransfer(p) /\ ftm[p].state # "Idle")
           Some == \E a \in Peers, s \in Sources : Session(a, s)
<1>1. LinkInv /\ LinkInv' /\ TypeOK
  BY NextLinkInv DEF SessionInv, LinkInv, RolesInv, IInv
<1>2. CASE UNCHANGED vars
  <2>1. (Calm' <=> Calm) /\ (Some' <=> Some)
    BY <1>2
       DEF vars, link, history, Calm, Session, Queues, Sides, Opening, Leaving,
           Served, ToReceiver, ToSender, Sending, Receiving, Announcing, Ending,
           Cancelling, Accepting, Refusing, FirstIs, LastIs, Reach
  <2>2. QED
    BY <1>1, <2>1 DEF SessionInv
<1>3. CASE Step
  <2>1. CASE Calm
    BY <1>1, <1>3, <2>1, CalmStep DEF SessionInv
  <2>2. ASSUME NEW a \in Peers, NEW s \in Sources, Session(a, s)
        PROVE  SessionInv'
    <3>1. Session(a, s)' \/ Calm'
      BY <1>1, <1>3, <2>2, SessionStep
    <3>2. QED
      BY <1>1, <3>1 DEF SessionInv
  <2>3. QED
    BY <2>1, <2>2 DEF SessionInv
<1>4. ASSUME Quiet, \A q \in Peers : ftm[q].state = "Idle",
             NEW a \in Peers, NEW s \in Outbox[a], SendFile(a, s)
      PROVE  SessionInv'
  <2>1. Session(a, s)' /\ s \in Sources
    BY <1>1, <1>4, SessionBegins
  <2>2. QED
    BY <1>1, <2>1 DEF SessionInv
<1>5. CASE Next /\ Patient
  <2>1. \/ Step
        \/ /\ Quiet /\ \A q \in Peers : ftm[q].state = "Idle"
           /\ \E p \in Peers : \E s \in Outbox[p] : SendFile(p, s)
    BY <1>1, <1>5, PatientSteps, Zenon
  <2>2. QED
    BY <1>3, <1>4, <2>1, Zenon
<1>6. QED
  BY <1>2, <1>5

LEMMA SessionAlways == ASSUME ~DiskFails PROVE PatientSpec => []SessionInv
  BY InitSessionInv, NextSessionInv, PTL DEF PatientSpec

\* With nothing in flight a sender would be answered and a receiver would have
\* all blocks and the hash, and so be done.
LEMMA QuietIsIdle ==
  ASSUME \A s \in Sources : Size[s] > 0
  PROVE  SessionInv => NobodyLeftWaiting
<1> SUFFICES ASSUME SessionInv, Quiet, NEW p \in Peers
             PROVE  ftm[p].state = "Idle"
  BY DEF NobodyLeftWaiting
<1>1. CASE Calm
  BY <1>1 DEF Calm
<1>2. ASSUME NEW a \in Peers, NEW s \in Sources, Session(a, s)
      PROVE  ftm[p].state = "Idle"
  <2> DEFINE b == Other(a)
  <2>1. /\ b \in Peers /\ Peers = {a, b} /\ LowWater \in Nat
        /\ buffered[a] \in Nat /\ buffered[a] <= Len(binary[b])
        /\ ftm[b].received \in Nat
    BY <1>2, SessionTypes DEF SessionInv
  <2>2. /\ up /\ Len(control[a]) = 0 /\ Len(control[b]) = 0
        /\ Len(binary[b]) = 0 /\ lowEvents[a] = 0 /\ ~looping[a]
    BY <2>1 DEF Quiet
  <2>3. /\ ~Announcing(a) /\ ~Ending(a) /\ ~Cancelling(a)
        /\ ~Accepting(a) /\ ~Refusing(a)
    BY <2>2
       DEF Announcing, Ending, Cancelling, Accepting, Refusing, FirstIs, LastIs
  <2>4. ~(buffered[a] > LowWater)
    BY <2>1, <2>2
  <2>5. ~Sending(a)
    BY <1>2, <2>2, <2>3, <2>4 DEF Session, Served
  <2>6. ~Receiving(a)
    <3>1. Reach(a) = ftm[b].received
      BY <2>1, <2>2 DEF Reach
    <3>2. Receiving(a) => /\ ftm[b].received >= Size[s]
                          /\ (ftm[b].received < Size[s] \/ Size[s] = 0)
      BY <1>2, <2>2, <2>3, <2>5, <3>1 DEF Session, Served
    <3>3. Size[s] > 0 /\ Size[s] \in Nat
      BY ContentSize
    <3>4. QED
      BY <2>1, <3>2, <3>3
  <2>7. QED
    BY <1>2, <2>1, <2>5, <2>6 DEF Session, Sides, Sending, Receiving
<1>3. QED
  BY <1>1, <1>2 DEF SessionInv

\* With nothing in flight over an open connection both workers are idle: no
\* order of cancels, losses and late messages leaves a peer in a transfer that
\* nothing will end (filetransfermanager.cpp:151 and :165). An empty file is
\* one that nothing ends (line 221), so there are none here.
THEOREM NobodyWaitsForever ==
  ASSUME ~DiskFails, \A s \in Sources : Size[s] > 0
  PROVE  PatientSpec => []NobodyLeftWaiting
  BY SessionAlways, QuietIsIdle, PTL
=============================================================================
