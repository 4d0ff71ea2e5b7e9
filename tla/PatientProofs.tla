---------------------------- MODULE PatientProofs ----------------------------
(***************************************************************************)
(* What holds of FileTransfer when users wait (PatientSpec), for all       *)
(* files, water marks and bounds: no step touches the file of a sender, no *)
(* peer is left waiting, and only whole files are judged. Each result      *)
(* rests on the invariants of those before it.                             *)
(***************************************************************************)
EXTENDS FileTransferProofs

LEMMA TwoPeers ==
  ASSUME NEW p \in Peers
  PROVE  /\ Other(p) \in Peers /\ Other(p) # p /\ Other(Other(p)) = p
         /\ Peers = {p, Other(p)}
<1>1. PICK a \in Peers, b \in Peers : a # b /\ Peers = {a, b}
  BY PeersAssumption
<1>2. \A q \in Peers : Other(q) \in Peers /\ Other(q) # q
  BY <1>1 DEF Other
<1>3. QED
  BY <1>1, <1>2

FirstIs(queue, type) == Len(queue) > 0 /\ queue[1].type = type
LastIs(queue, type) == Len(queue) > 0 /\ queue[Len(queue)].type = type

\* What a handler's use of a queue does, message by message.
LEMMA PostedMessages ==
  ASSUME NEW S, NEW queue \in [Peers -> Seq(S)], NEW p \in Peers,
         NEW message \in S
  PROVE  /\ Posted(queue, p, message)[p] = queue[p]
         /\ ~up => Posted(queue, p, message) = queue
         /\ up => Posted(queue, p, message)[Other(p)]
                    = Append(queue[Other(p)], message)
         /\ queue[Other(p)] \in Seq(S)
  BY TwoPeers DEF Posted

LEMMA TakenMessages ==
  ASSUME NEW S, NEW queue \in [Peers -> Seq(S)], NEW p \in Peers,
         queue[p] # <<>>
  PROVE  /\ Head(queue[p]) = queue[p][1] /\ Len(queue[p]) > 0
         /\ Len(Taken(queue, p)[p]) = Len(queue[p]) - 1
         /\ \A i \in 1..Len(queue[p]) - 1 :
              Taken(queue, p)[p][i] = queue[p][i + 1]
         /\ Taken(queue, p)[Other(p)] = queue[Other(p)]
<1>1. /\ Taken(queue, p)[p] = Tail(queue[p])
      /\ Taken(queue, p)[Other(p)] = queue[Other(p)]
  BY TwoPeers DEF Taken
<1>2. queue[p] \in Seq(S)
  OBVIOUS
<1>3. /\ Head(queue[p]) = queue[p][1] /\ Len(queue[p]) > 0
      /\ Len(Tail(queue[p])) = Len(queue[p]) - 1
      /\ \A i \in 1..Len(queue[p]) - 1 : Tail(queue[p])[i] = queue[p][i + 1]
  BY <1>2, HeadTailProperties
<1>4. QED
  BY <1>1, <1>3

LEMMA DroppedMessages ==
  ASSUME NEW S, NEW queue \in [Peers -> Seq(S)], NEW p \in Peers,
         queue[p] # <<>>
  PROVE  /\ Len(queue[p]) > 0
         /\ Len(DropLast(queue, p)[p]) = Len(queue[p]) - 1
         /\ \A i \in 1..Len(queue[p]) - 1 :
              DropLast(queue, p)[p][i] = queue[p][i]
         /\ DropLast(queue, p)[Other(p)] = queue[Other(p)]
<1>1. /\ queue[p] \in Seq(S) /\ Len(queue[p]) > 0
      /\ \A i \in 1..Len(queue[p]) - 1 : queue[p][i] \in S
  OBVIOUS
<1>2. /\ DropLast(queue, p)[p] = SubSeq(queue[p], 1, Len(queue[p]) - 1)
      /\ DropLast(queue, p)[Other(p)] = queue[Other(p)]
  BY TwoPeers DEF DropLast
<1>3. QED
  <2>1. /\ 1 \in Int /\ Len(queue[p]) - 1 \in Int
        /\ \A i \in 1..Len(queue[p]) - 1 : queue[p][i] \in S
    BY <1>1
  <2> DEFINE n    == Len(queue[p]) - 1
             kept == SubSeq(queue[p], 1, n)
  <2>2. /\ Len(kept) = IF 1 <= n THEN n - 1 + 1 ELSE 0
        /\ \A i \in 1..n - 1 + 1 : kept[i] = queue[p][1 + i - 1]
    BY <2>1, SubSeqProperties
  <2>3. n \in Nat
    BY <1>1
  <2> HIDE DEF kept, n
  <2>4. Len(kept) = n /\ \A i \in 1..n : kept[i] = queue[p][i]
    BY <2>2, <2>3
  <2>5. QED
    BY <1>1, <1>2, <2>4 DEF kept, n

\* A step of PatientSpec: the network's, a worker's, a cancel of a transfer
\* that runs, or a new transfer when nothing is left of the last.
LEMMA PatientSteps ==
  ASSUME TypeOK, Next, Patient
  PROVE  \/ Network
         \/ \E p \in Peers : \/ Worker(p)
                             \/ CancelTransfer(p) /\ ftm[p].state # "Idle"
         \/ /\ Quiet /\ \A q \in Peers : ftm[q].state = "Idle"
            /\ \E p \in Peers : \E s \in Outbox[p] : SendFile(p, s)
<1>1. ASSUME NEW p \in Peers, CancelTransfer(p)
      PROVE  ftm[p].state # "Idle"
  BY <1>1 DEF CancelTransfer, Patient, TypeOK
<1>2. ASSUME NEW p \in Peers, NEW s \in Outbox[p], SendFile(p, s)
      PROVE  Quiet /\ \A q \in Peers : ftm[q].state = "Idle"
  BY <1>2 DEF SendFile, Patient, TypeOK
<1>3. QED
  BY <1>1, <1>2 DEF Next, User

\* The step of one peer's handler, seen at that peer and at the other.
LEMMA AtPeer ==
  ASSUME IInv, NEW p \in Peers
  PROVE  /\ \A m : ftm' = [ftm EXCEPT ![p] = m] =>
              ftm'[p] = m /\ ftm'[Other(p)] = ftm[Other(p)]
         /\ \A files : disk' = [disk EXCEPT ![p] = files] =>
              disk'[p] = files /\ disk'[Other(p)] = disk[Other(p)]
         /\ \A v : verdict' = [verdict EXCEPT ![p] = v] =>
              verdict'[p] = v /\ verdict'[Other(p)] = verdict[Other(p)]
         /\ \A s : announced' = [announced EXCEPT ![p] = s] =>
              announced'[p] = s /\ announced'[Other(p)] = announced[Other(p)]
<1>1. /\ ftm \in [Peers -> Manager] /\ verdict \in [Peers -> Verdict \cup {None}]
      /\ disk \in [Peers -> [Paths -> Seq(Block) \cup {None}]]
      /\ announced \in [Peers -> Sources \cup {None}]
  BY DEF IInv, TypeOK
<1>2. QED
  BY <1>1, TwoPeers

\* The chunk a receiver handles, and what it hands to checkCompletion().
WithChunk(m, chunk) ==
  [m EXCEPT !.hash = Append(@, chunk), !.received = @ + 1]

LEMMA ChunkStep ==
  ASSUME IInv, NEW p \in Peers, HandleBinaryChunk(p)
  PROVE  /\ binary[p] # <<>> /\ binary[p][1] \in Block
         /\ binary' = Taken(binary, p)
         /\ ftm[p].state # "Receiving" =>
              UNCHANGED <<ftm, disk, signal, crashed, verdict>>
         /\ ftm[p].state = "Receiving" =>
              LET chunk == binary[p][1]
                  path  == ftm[p].file
                  m     == WithChunk(ftm[p], chunk)
              IN  /\ path \in Paths /\ disk[p][path] \in Seq(Block)
                  /\ ftm[p].hash \in Seq(Block)
                  /\ m \in Manager /\ m.hash = Append(ftm[p].hash, chunk)
                  /\ m.hash \in Seq(Block)
                  /\ m.received = ftm[p].received + 1
                  /\ m.state = "Receiving" /\ m.file = path
                  /\ m.expectedSize = ftm[p].expectedSize
                  /\ m.expectedHash = ftm[p].expectedHash
                  /\ \E written \in {Append(disk[p][path], chunk)} \cup
                        (IF DiskFails THEN {disk[p][path]} ELSE {}) :
                       /\ written \in Seq(Block)
                       /\ CheckCompletion(p, m,
                                          [disk[p] EXCEPT ![path] = written])
<1> DEFINE chunk == binary[p][1]
           path  == ftm[p].file
           hash  == ftm[p].hash
           m     == WithChunk(ftm[p], chunk)
<1>1. binary[p] # <<>>
  BY OtherIsPeer DEF HandleBinaryChunk, Arrived, IInv, TypeOK
<1>2. Head(binary[p]) = chunk /\ chunk \in Block
  BY <1>1, TakenMessages, QueueTypes DEF IInv, TypeOK
<1>3. ASSUME ftm[p].state = "Receiving"
      PROVE  /\ path \in Paths /\ disk[p][path] \in Seq(Block)
             /\ hash \in Seq(Block) /\ ftm[p] \in Manager
  <2>1. ftm[p] \in Manager /\ disk[p] \in [Paths -> Seq(Block) \cup {None}]
    BY DEF IInv, TypeOK
  <2>2. hash # None /\ path # None /\ disk[p][path] # None
    BY <1>3 DEF IInv, WorkerOwnsResources
  <2>3. path \in Paths /\ hash \in Seq(Block)
    BY <2>1, <2>2 DEF Manager
  <2>4. QED
    BY <2>1, <2>2, <2>3
<1>4. ASSUME ftm[p].state = "Receiving"
      PROVE  /\ m \in Manager /\ m.hash = Append(hash, chunk)
             /\ m.hash \in Seq(Block)
             /\ m.received = ftm[p].received + 1
             /\ m.state = "Receiving" /\ m.file = path
             /\ m.expectedSize = ftm[p].expectedSize
             /\ m.expectedHash = ftm[p].expectedHash
  <2>1. Append(hash, chunk) \in Seq(Block)
    BY <1>2, <1>3, <1>4
  <2>2. ftm[p].received + 1 \in Nat
    BY <1>3, <1>4 DEF Manager
  <2>3. \A h \in Seq(Block), received \in Nat :
          LET after == [ftm[p] EXCEPT !.hash = h, !.received = received]
          IN  /\ after \in Manager /\ after.hash = h
              /\ after.received = received
              /\ after.state = "Receiving" /\ after.file = path
              /\ after.expectedSize = ftm[p].expectedSize
              /\ after.expectedHash = ftm[p].expectedHash
    BY <1>3, <1>4 DEF Manager
  <2>4. m = [ftm[p] EXCEPT !.hash = Append(hash, chunk),
                           !.received = ftm[p].received + 1]
    BY DEF WithChunk
  <2> HIDE DEF m
  <2>5. QED
    BY <2>1, <2>2, <2>3, <2>4
<1>5. ASSUME ftm[p].state = "Receiving"
      PROVE  \E written \in {Append(disk[p][path], chunk)} \cup
                   (IF DiskFails THEN {disk[p][path]} ELSE {}) :
               /\ written \in Seq(Block)
               /\ CheckCompletion(p, m, [disk[p] EXCEPT ![path] = written])
  <2>1. PICK written \in {Append(disk[p][path], chunk)} \cup
                (IF DiskFails THEN {disk[p][path]} ELSE {}) :
          CheckCompletion(p, m, [disk[p] EXCEPT ![path] = written])
    BY <1>2, <1>5 DEF HandleBinaryChunk, WithChunk
  <2>2. Append(disk[p][path], chunk) \in Seq(Block)
    BY <1>2, <1>3, <1>5
  <2>3. written \in Seq(Block)
    BY <1>3, <1>5, <2>2
  <2>4. QED
    BY <2>1, <2>3
<1>6. /\ binary' = Taken(binary, p)
      /\ ftm[p].state # "Receiving" =>
           UNCHANGED <<ftm, disk, signal, crashed, verdict>>
  BY DEF HandleBinaryChunk
<1>7. QED
  BY <1>1, <1>2, <1>3, <1>4, <1>5, <1>6

\* The three ways out of checkCompletion().
Due(m) ==
  m.expectedSize > 0 /\ m.received >= m.expectedSize /\ m.expectedHash # None

LEMMA CompletionStep ==
  ASSUME IInv, NEW p \in Peers, NEW m \in Manager, NEW files,
         CheckCompletion(p, m, files)
  PROVE  LET other == Other(p) IN
         /\ ftm'[other] = ftm[other] /\ disk'[other] = disk[other]
         /\ verdict'[other] = verdict[other]
         /\ \/ /\ ~Due(m) /\ ftm'[p] = m /\ disk'[p] = files
               /\ verdict'[p] = verdict[p]
            \/ /\ m.hash = None
               /\ ftm' = ftm /\ disk' = disk /\ verdict' = verdict
            \/ /\ Due(m) /\ m.hash # None /\ ftm'[p].state = "Idle"
               /\ disk'[p] \in {files, [files EXCEPT ![m.file] = None]}
               /\ verdict'[p].source = announced[p]
               /\ verdict'[p].content = files[m.file]
               /\ verdict'[p].sent = m.expectedHash
               /\ verdict'[p].got = m.hash
<1> DEFINE kept == m.hash = Cleanup(m).expectedHash
           closed == Cleanup(m)
           left   == IF kept THEN files ELSE [files EXCEPT ![m.file] = None]
           judged == [source |-> announced[p], content |-> files[m.file],
                      sent |-> m.expectedHash, got |-> m.hash, kept |-> kept]
<1>1. /\ ftm \in [Peers -> Manager] /\ verdict \in [Peers -> Verdict \cup {None}]
      /\ disk \in [Peers -> [Paths -> Seq(Block) \cup {None}]]
  BY DEF IInv, TypeOK
<1>2. CASE /\ ~Due(m) /\ ftm' = [ftm EXCEPT ![p] = m]
           /\ disk' = [disk EXCEPT ![p] = files] /\ verdict' = verdict
  BY <1>2, AtPeer
<1>3. CASE /\ m.hash = None
           /\ ftm' = ftm /\ disk' = disk /\ verdict' = verdict
  BY <1>3
<1>4. CASE /\ Due(m) /\ m.hash # None /\ ftm' = [ftm EXCEPT ![p] = closed]
           /\ disk' = [disk EXCEPT ![p] = left]
           /\ verdict' = [verdict EXCEPT ![p] = judged]
  <2>1. closed.state = "Idle" /\ left \in {files, [files EXCEPT ![m.file] = None]}
    BY CleanupProperties
  <2>2. /\ judged.source = announced[p] /\ judged.content = files[m.file]
        /\ judged.sent = m.expectedHash /\ judged.got = m.hash
    OBVIOUS
  <2> HIDE DEF judged, left, closed
  <2>3. /\ ftm'[p] = closed /\ ftm'[Other(p)] = ftm[Other(p)]
        /\ disk'[p] = left /\ disk'[Other(p)] = disk[Other(p)]
        /\ verdict'[p] = judged /\ verdict'[Other(p)] = verdict[Other(p)]
    BY <1>4, AtPeer
  <2>4. QED
    BY <1>4, <2>1, <2>2, <2>3
<1>5. QED
  BY <1>2, <1>3, <1>4 DEF CheckCompletion, Due

LEMMA CompleteStep ==
  ASSUME IInv, NEW p \in Peers, ReceiveComplete(p)
  PROVE  LET hash == control[p][1].hash
             m    == [ftm[p] EXCEPT !.expectedHash = hash]
         IN  /\ FirstIs(control[p], "transfer_complete")
             /\ control' = Taken(control, p)
             /\ hash \in Seq(Block) /\ hash # None
             /\ m \in Manager /\ m.hash = ftm[p].hash
             /\ m.received = ftm[p].received /\ m.expectedHash = hash
             /\ m.expectedSize = ftm[p].expectedSize
             /\ m.state = ftm[p].state /\ m.file = ftm[p].file
             /\ CheckCompletion(p, m, disk[p])
<1> DEFINE hash == control[p][1].hash
           m    == [ftm[p] EXCEPT !.expectedHash = hash]
<1>1. control[p] # <<>> /\ control[p][1] = Head(control[p])
  BY TakenMessages DEF ReceiveComplete, Pending, IInv, TypeOK
<1>2. FirstIs(control[p], "transfer_complete")
  BY <1>1, TakenMessages
     DEF ReceiveComplete, Pending, FirstIs, IInv, TypeOK
<1>3. control[p][1] \in Message
  BY <1>1, QueueTypes DEF IInv, TypeOK
<1>4. hash \in Seq(Block) /\ hash # None
  BY <1>2, <1>3, BlocksAreNotNone DEF FirstIs, Message
<1>5. /\ m \in Manager /\ m.hash = ftm[p].hash
      /\ m.received = ftm[p].received /\ m.expectedHash = hash
      /\ m.expectedSize = ftm[p].expectedSize
      /\ m.state = ftm[p].state /\ m.file = ftm[p].file
  <2>1. ftm[p] \in Manager
    BY DEF IInv, TypeOK
  <2>2. QED
    BY <1>4, <2>1 DEF Manager
<1>6. control' = Taken(control, p) /\ CheckCompletion(p, m, disk[p])
  BY <1>1 DEF ReceiveComplete
<1>7. QED
  BY <1>2, <1>4, <1>5, <1>6

LEMMA MetadataStep ==
  ASSUME IInv, NEW p \in Peers, ReceiveMetadata(p)
  PROVE  LET s    == control[p][1].source
             path == DownloadPath(NameOf[s])
             file == disk[p][path]
             kept == IF FileSize(file) > Size[s] \/ file = None THEN <<>>
                     ELSE file
             accept == [type |-> "accept_transfer", offset |-> Len(kept)]
         IN  /\ FirstIs(control[p], "metadata") /\ control[p] # <<>>
             /\ s \in Sources /\ NameOf[s] \in Names
             /\ kept \in Seq(Block) /\ accept \in Message
             /\ ftm'[Other(p)] = ftm[Other(p)]
             /\ disk'[Other(p)] = disk[Other(p)]
             /\ announced'[p] = s
             /\ \/ /\ ftm'[p].state = "Receiving" /\ ftm'[p].file = path
                   /\ ftm'[p].expectedSize = Size[s]
                   /\ ftm'[p].hash = <<>> /\ ftm'[p].received = Len(kept)
                   /\ ftm'[p].expectedHash = None
                   /\ disk'[p] = [disk[p] EXCEPT ![path] = kept]
                   /\ control' = Posted(Taken(control, p), p, accept)
                \/ /\ DiskFails
                   /\ ftm'[p].state = "Idle"
                   /\ disk'[p] \in {disk[p], [disk[p] EXCEPT ![path] = None]}
                   /\ control' = Taken(control, p)
<1> DEFINE s    == control[p][1].source
           path == DownloadPath(NameOf[s])
           file == disk[p][path]
           tooBig == FileSize(file) > Size[s]
           kept == IF tooBig \/ file = None THEN <<>> ELSE file
           accept == [type |-> "accept_transfer", offset |-> Len(kept)]
           prepared == [Cleanup(ftm[p]) EXCEPT !.expectedSize = Size[s],
                                               !.received = 0, !.file = path]
           opened == [prepared EXCEPT !.state = "Receiving", !.mode = "append",
                                      !.hash = <<>>, !.received = Len(kept)]
<1>1. control[p] # <<>> /\ control[p][1] = Head(control[p])
  BY TakenMessages DEF ReceiveMetadata, Pending, IInv, TypeOK
<1>2. FirstIs(control[p], "metadata") /\ control[p][1] \in Message
  <2>1. control[p] \in Seq(Message) /\ control[p] # <<>>
    BY <1>1, QueueTypes DEF IInv, TypeOK
  <2>2. Len(control[p]) > 0 /\ control[p][1] \in Message
    BY <2>1
  <2>3. Head(control[p]).type = "metadata"
    BY Zenon DEF ReceiveMetadata, Pending
  <2>4. QED
    BY <1>1, <2>2, <2>3 DEF FirstIs
<1>3. /\ s \in Sources /\ NameOf[s] \in Names /\ path \in Paths
      /\ Size[s] \in Nat
  BY <1>2, FilesAssumption, PathsAreNotNone DEF FirstIs, Message
<1>4. /\ ftm \in [Peers -> Manager] /\ ftm[p] \in Manager
      /\ disk \in [Peers -> [Paths -> Seq(Block) \cup {None}]]
      /\ announced \in [Peers -> Sources \cup {None}]
  BY DEF IInv, TypeOK
<1>5. kept \in Seq(Block) /\ Len(kept) \in Nat
  <2>1. file \in Seq(Block) \cup {None}
    BY <1>3, <1>4
  <2>2. QED
    BY <2>1
<1>6. accept \in Message
  BY <1>5 DEF Message
<1>7. prepared.state = "Idle"
  BY <1>4, CleanupProperties DEF Manager
<1>8. /\ opened.state = "Receiving" /\ opened.file = path
      /\ opened.expectedSize = Size[s]
      /\ opened.hash = <<>> /\ opened.received = Len(kept)
      /\ opened.expectedHash = None
  BY <1>4, CleanupProperties DEF Manager
<1>9. ReadAll("append", kept) = <<>> /\ ResumeOffset(kept) = Len(kept)
  BY DEF ReadAll, ResumeOffset
<1>10. \/ /\ ftm' = [ftm EXCEPT ![p] = opened]
          /\ disk' = [disk EXCEPT ![p][path] = kept]
          /\ control' = Posted(Taken(control, p), p, accept)
       \/ /\ DiskFails
          /\ ftm' = [ftm EXCEPT ![p] = prepared]
          /\ disk' = [disk EXCEPT ![p][path] = IF tooBig THEN None ELSE @]
          /\ control' = Taken(control, p)
  <2>1. Head(control[p]) = control[p][1]
    BY <1>1
  <2>2. QED
    BY <1>9, <2>1, Zenon DEF ReceiveMetadata
<1>11. announced' = [announced EXCEPT ![p] = s]
  BY <1>1 DEF ReceiveMetadata
<1>12. announced'[p] = s
  BY <1>4, <1>11
<1>13. CASE /\ ftm' = [ftm EXCEPT ![p] = opened]
            /\ disk' = [disk EXCEPT ![p][path] = kept]
            /\ control' = Posted(Taken(control, p), p, accept)
  <2> HIDE DEF opened, kept
  <2>1. ftm'[p] = opened /\ ftm'[Other(p)] = ftm[Other(p)]
    BY <1>13, AtPeer
  <2>2. /\ disk'[p] = [disk[p] EXCEPT ![path] = kept]
        /\ disk'[Other(p)] = disk[Other(p)]
    <3>1. disk' = [disk EXCEPT ![p] = [disk[p] EXCEPT ![path] = kept]]
      BY <1>13
    <3>2. QED
      BY <3>1, AtPeer
  <2>3. QED
    BY <1>1, <1>2, <1>3, <1>5, <1>6, <1>8, <1>12, <1>13, <2>1, <2>2 DEF kept
<1>14. CASE /\ DiskFails
            /\ ftm' = [ftm EXCEPT ![p] = prepared]
            /\ disk' = [disk EXCEPT ![p][path] = IF tooBig THEN None ELSE @]
            /\ control' = Taken(control, p)
  <2> HIDE DEF prepared, kept
  <2>1. ftm'[p] = prepared /\ ftm'[Other(p)] = ftm[Other(p)]
    BY <1>14, AtPeer
  <2>2. /\ disk'[p] \in {disk[p], [disk[p] EXCEPT ![path] = None]}
        /\ disk'[Other(p)] = disk[Other(p)]
    <3>1. /\ tooBig => disk' = [disk EXCEPT ![p] = [disk[p] EXCEPT ![path] = None]]
          /\ ~tooBig => disk' = [disk EXCEPT ![p] = disk[p]]
      BY <1>4, <1>14
    <3>2. QED
      BY <3>1, AtPeer
  <2>3. QED
    BY <1>1, <1>2, <1>3, <1>5, <1>6, <1>7, <1>12, <1>14, <2>1, <2>2 DEF kept
<1>15. QED
  BY <1>10, <1>13, <1>14

-----------------------------------------------------------------------------
(* One side sends and the other receives: sides change only when nothing is *)
(* in flight. What a transfer removes or writes is then a download.         *)

Carries(queue, types) == \A i \in 1..Len(queue) : queue[i].type \in types

FromReceiver == {"accept_transfer", "receiver_canceled"}
FromSender == {"metadata", "cancel_transfer", "transfer_complete"}

Roles(a) ==
  LET b == Other(a) IN
  /\ ftm[a].state # "Receiving" /\ ftm[b].state # "Sending"
  /\ Carries(control[a], FromReceiver) /\ Carries(control[b], FromSender)

DownloadsOnly ==
  \A p \in Peers :
    ftm[p].state = "Receiving" => \E n \in Names : ftm[p].file = DownloadPath(n)

SourceFiles ==
  \A p \in Peers, s \in Sources :
    disk[p][SourcePath(s)] = IF s \in Outbox[p] THEN Content(s) ELSE None

RolesInv ==
  IInv /\ DownloadsOnly /\ SourceFiles /\ \E a \in Peers : Roles(a)

LEMMA PathsDiffer ==
  ASSUME NEW s \in Sources, NEW n \in Names
  PROVE  SourcePath(s) # DownloadPath(n)
  BY DEF SourcePath, DownloadPath

\* What a handler does to the manager of its peer, as far as roles go.
LEMMA ManagerSteps ==
  ASSUME IInv, NEW p \in Peers, Worker(p) \/ CancelTransfer(p)
  PROVE  /\ ftm'[Other(p)] = ftm[Other(p)]
         /\ \/ ftm'[p].state = "Idle"
            \/ ftm'[p].state = ftm[p].state /\ ftm'[p].file = ftm[p].file
            \/ /\ ReceiveMetadata(p) /\ ftm'[p].state = "Receiving"
               /\ \E n \in Names : ftm'[p].file = DownloadPath(n)
<1> DEFINE Same == ftm'[p].state = ftm[p].state /\ ftm'[p].file = ftm[p].file
           Rest == ftm'[Other(p)] = ftm[Other(p)]
<1>1. /\ ftm \in [Peers -> Manager] /\ ftm[p] \in Manager
      /\ Cleanup(ftm[p]).state = "Idle"
  BY CleanupProperties DEF IInv, TypeOK
<1>2. CASE ftm' = ftm
  BY <1>2
<1>3. ASSUME NEW m, ftm' = [ftm EXCEPT ![p] = m]
      PROVE  ftm'[p] = m /\ Rest
  BY <1>1, <1>3, TwoPeers
<1>4. CASE ftm' = [ftm EXCEPT ![p] = Cleanup(@)]
  BY <1>1, <1>3, <1>4
<1>5. CASE SendChunk(p)
  <2> DEFINE chunk == disk[p][ftm[p].file][ftm[p].pos + 1]
             m == [ftm[p] EXCEPT !.pos = @ + 1, !.hash = Append(@, chunk)]
  <2>1. ftm' = [ftm EXCEPT ![p] = m]
    BY <1>1, <1>5 DEF SendChunk
  <2>2. m.state = ftm[p].state /\ m.file = ftm[p].file
    BY <1>1 DEF Manager
  <2>3. QED
    BY <1>3, <2>1, <2>2
<1>6. CASE ReceiveAccept(p)
  <2> DEFINE m == IF ftm[p].state = "Sending"
                  THEN SeekTo(ftm[p], Head(control[p]).offset) ELSE ftm[p]
  <2>1. ftm' = [ftm EXCEPT ![p] = m]
    BY <1>6 DEF ReceiveAccept
  <2>2. m.state = ftm[p].state /\ m.file = ftm[p].file
    BY <1>1 DEF Manager, SeekTo
  <2>3. QED
    BY <1>3, <2>1, <2>2
<1>7. CASE ReceiveComplete(p) \/ HandleBinaryChunk(p)
  <2>1. ASSUME NEW m \in Manager, m.state = ftm[p].state, m.file = ftm[p].file,
               NEW files, CheckCompletion(p, m, files)
        PROVE  Rest /\ (Same \/ ftm'[p].state = "Idle")
    BY <2>1, CompletionStep
  <2>2. CASE ReceiveComplete(p)
    BY <2>1, <2>2, CompleteStep
  <2>3. CASE HandleBinaryChunk(p)
    BY <1>2, <2>1, <2>3, ChunkStep
  <2>4. QED
    BY <1>7, <2>2, <2>3
<1>8. CASE ReceiveMetadata(p)
  BY <1>8, MetadataStep
<1>9. QED
  BY <1>2, <1>4, <1>5, <1>6, <1>7, <1>8
     DEF Worker, CancelTransfer, PauseLoop, FinishLoop, SetBackpressure,
         ReceiveCancel, OnPeerDisconnected

\* Queues keep to their types, whatever is posted, taken or lost.
LEMMA CarriesPosted ==
  ASSUME NEW queue \in [Peers -> Seq(Message)], NEW p \in Peers,
         NEW message \in Message, NEW types, message.type \in types,
         Carries(queue[Other(p)], types), up \in BOOLEAN
  PROVE  Carries(Posted(queue, p, message)[Other(p)], types)
<1> DEFINE before == queue[Other(p)]
           after == Posted(queue, p, message)[Other(p)]
<1>1. CASE ~up
  BY <1>1, PostedMessages
<1>2. CASE up
  <2>1. /\ Len(before) \in Nat /\ Len(after) = Len(before) + 1
        /\ \A i \in 1..Len(before) : after[i] = before[i]
        /\ after[Len(before) + 1] = message
    <3>1. after = Append(before, message) /\ before \in Seq(Message)
      BY <1>2, PostedMessages
    <3> HIDE DEF after, before
    <3>2. QED
      BY <3>1, AppendElements
  <2> HIDE DEF after
  <2>2. Carries(after, types)
    BY <2>1 DEF Carries
  <2>3. QED
    BY <2>2 DEF after
<1>3. QED
  BY <1>1, <1>2

LEMMA CarriesLess ==
  ASSUME NEW queue \in [Peers -> Seq(Message)], NEW p \in Peers, NEW types,
         queue[p] # <<>>, Carries(queue[p], types)
  PROVE  /\ Carries(Taken(queue, p)[p], types)
         /\ Carries(DropLast(queue, p)[p], types)
<1> DEFINE n == Len(queue[p])
           taken == Taken(queue, p)[p]
           dropped == DropLast(queue, p)[p]
<1>1. n \in Nat
  OBVIOUS
<1>2. Len(taken) = n - 1 /\ \A i \in 1..n - 1 : taken[i] = queue[p][i + 1]
  BY TakenMessages
<1>3. Len(dropped) = n - 1 /\ \A i \in 1..n - 1 : dropped[i] = queue[p][i]
  BY DroppedMessages
<1>4. \A i \in 1..n : queue[p][i].type \in types
  BY DEF Carries
<1> HIDE DEF n, taken, dropped
<1>5. Carries(taken, types)
  BY <1>1, <1>2, <1>4 DEF Carries
<1>6. Carries(dropped, types)
  BY <1>1, <1>3, <1>4 DEF Carries
<1>7. QED
  BY <1>5, <1>6 DEF taken, dropped

LEMMA RolesOfWorker ==
  ASSUME IInv, NEW a \in Peers, Roles(a), NEW p \in Peers,
         Worker(p) \/ (CancelTransfer(p) /\ ftm[p].state # "Idle")
  PROVE  Roles(a)'
<1> DEFINE b == Other(a)
<1>1. /\ b \in Peers /\ b # a /\ Other(b) = a /\ p \in {a, b}
      /\ control \in [Peers -> Seq(Message)] /\ up \in BOOLEAN
      /\ ftm[p].state \in States
  BY TwoPeers DEF IInv, TypeOK, Manager
<1>2. ASSUME NEW types, Carries(control[p], types), control[p] # <<>>
      PROVE  Head(control[p]).type \in types
  <2>1. Head(control[p]) = control[p][1] /\ Len(control[p]) > 0
    BY <1>1, <1>2, TakenMessages
  <2>2. 1 \in 1..Len(control[p])
    BY <1>1, <2>1
  <2>3. QED
    BY <1>2, <2>1, <2>2 DEF Carries
<1>3. ReceiveMetadata(p) => p = b
  BY <1>1, <1>2 DEF ReceiveMetadata, Pending, Roles, FromReceiver
<1>4. ftm'[a].state # "Receiving" /\ ftm'[b].state # "Sending"
  BY <1>1, <1>3, ManagerSteps DEF Roles
<1>5. CASE control' = control
  BY <1>4, <1>5 DEF Roles
<1>6. CASE control[p] # <<>> /\ control' = Taken(control, p)
  <2>1. control'[Other(p)] = control[Other(p)]
    BY <1>1, <1>6, TakenMessages
  <2>2. Carries(control'[a], FromReceiver) /\ Carries(control'[b], FromSender)
    BY <1>1, <1>6, <2>1, CarriesLess DEF Roles
  <2>3. QED
    BY <1>4, <2>2 DEF Roles
<1>7. ASSUME NEW queue \in [Peers -> Seq(Message)], NEW message \in Message,
             Carries(queue[a], FromReceiver), Carries(queue[b], FromSender),
             message.type \in IF p = a THEN FromSender ELSE FromReceiver,
             control' = Posted(queue, p, message)
      PROVE  Roles(a)'
  <2>1. control'[p] = queue[p]
    BY <1>7, PostedMessages
  <2>2. CASE p = a
    <3>1. Carries(control'[b], FromSender)
      BY <1>1, <1>7, <2>2, CarriesPosted
    <3>2. QED
      BY <1>4, <1>7, <2>1, <2>2, <3>1 DEF Roles
  <2>3. CASE p = b
    <3>1. Carries(control'[a], FromReceiver)
      BY <1>1, <1>7, <2>3, CarriesPosted
    <3>2. QED
      BY <1>1, <1>4, <1>7, <2>1, <2>3, <3>1 DEF Roles
  <2>4. QED
    BY <1>1, <2>2, <2>3
<1>8. CASE FinishLoop(p)
  <2> DEFINE message == [type |-> "transfer_complete", hash |-> ftm[p].hash]
  <2>1. message \in Message /\ p = a
    BY <1>1, <1>8, LoopReadsBlocks DEF FinishLoop, Message, Roles
  <2>2. control' = Posted(control, p, message)
    BY <1>8 DEF FinishLoop
  <2>3. message.type \in FromSender
    BY DEF FromSender
  <2> HIDE DEF message
  <2>4. QED
    BY <1>1, <1>7, <2>1, <2>2, <2>3 DEF Roles
<1>9. CASE CancelTransfer(p) /\ ftm[p].state # "Idle"
  <2> DEFINE message == [type |-> IF ftm[p].state = "Sending"
                                  THEN "cancel_transfer"
                                  ELSE "receiver_canceled"]
  <2>1. message \in Message
    BY DEF Message
  <2>2. control' = Posted(control, p, message)
    BY <1>9 DEF CancelTransfer
  <2>3. message.type \in IF p = a THEN FromSender ELSE FromReceiver
    BY <1>1, <1>9 DEF Roles, States, FromSender, FromReceiver
  <2> HIDE DEF message
  <2>4. QED
    BY <1>1, <1>7, <2>1, <2>2, <2>3 DEF Roles
<1>10. CASE ReceiveMetadata(p)
  <2> DEFINE queue == Taken(control, p)
  <2>1. control[p] # <<>> /\ p = b
    BY <1>3, <1>10, MetadataStep
  <2>2. queue \in [Peers -> Seq(Message)]
    BY <1>1, <2>1, QueueTypes
  <2>3. queue[a] = control[a] /\ Carries(queue[b], FromSender)
    BY <1>1, <2>1, TakenMessages, CarriesLess DEF Roles
  <2> HIDE DEF queue
  <2>4. \A n : [type |-> "accept_transfer", offset |-> n].type \in FromReceiver
    BY DEF FromReceiver
  <2>5. \/ control' = queue
        \/ \E n : /\ [type |-> "accept_transfer", offset |-> n] \in Message
                  /\ control' = Posted(queue, p,
                               [type |-> "accept_transfer", offset |-> n])
    BY <1>10, MetadataStep DEF queue
  <2>6. QED
    BY <1>1, <1>4, <1>7, <2>1, <2>2, <2>3, <2>4, <2>5 DEF Roles
<1>11. QED
  BY <1>1, <1>5, <1>6, <1>8, <1>9, <1>10
     DEF Worker, SendChunk, PauseLoop, SetBackpressure, HandleBinaryChunk,
         OnPeerDisconnected, ReceiveAccept, ReceiveComplete, ReceiveCancel,
         Pending, link

LEMMA RolesOfNetwork ==
  ASSUME IInv, NEW a \in Peers, Roles(a), Network
  PROVE  Roles(a)'
<1>1. control \in [Peers -> Seq(Message)] /\ Other(a) \in Peers
  BY TwoPeers DEF IInv, TypeOK
<1>2. ftm' = ftm
  BY DEF Network, Drain, LoseInFlight, LinkLost, LinkRestored
<1>3. CASE control' = control
  BY <1>2, <1>3 DEF Roles
<1>4. ASSUME NEW p \in Peers, control[p] # <<>>, control' = DropLast(control, p)
      PROVE  Roles(a)'
  <2>1. control'[Other(p)] = control[Other(p)] /\ Other(Other(p)) = p
    BY <1>1, <1>4, DroppedMessages, TwoPeers
  <2>2. \A types : Carries(control[p], types) => Carries(control'[p], types)
    BY <1>1, <1>4, CarriesLess
  <2>3. p = a \/ p = Other(a)
    BY TwoPeers
  <2>4. CASE p = a
    BY <1>2, <2>1, <2>2, <2>4 DEF Roles
  <2>5. CASE p = Other(a)
    BY <1>2, <2>1, <2>2, <2>5, TwoPeers DEF Roles
  <2>6. QED
    BY <2>3, <2>4, <2>5
<1>5. QED
  BY <1>3, <1>4 DEF Network, Drain, LoseInFlight, LinkLost, LinkRestored, link

LEMMA RolesOfSendFile ==
  ASSUME IInv, Quiet, \A q \in Peers : ftm[q].state = "Idle",
         NEW p \in Peers, NEW s \in Sources, SendFile(p, s)
  PROVE  /\ Roles(p)'
         /\ \A q \in Peers : ftm'[q].state # "Receiving"
<1> DEFINE b == Other(p)
           message == [type |-> "metadata", source |-> s]
<1>1. /\ b \in Peers /\ b # p /\ Peers = {p, b} /\ ftm \in [Peers -> Manager]
      /\ control[p] = <<>> /\ control[b] = <<>> /\ message \in Message
      /\ control \in [Peers -> Seq(Message)] /\ up \in BOOLEAN
  BY TwoPeers DEF IInv, TypeOK, Quiet, Message
<1>2. \A m : ftm' = [ftm EXCEPT ![p] = m] => ftm'[p] = m /\ ftm'[b] = ftm[b]
  BY <1>1
<1>3. ftm'[b].state = "Idle" /\ ftm'[p].state \in {"Idle", "Sending"}
  <2> DEFINE path == SourcePath(s)
             opened == [Cleanup(ftm[p]) EXCEPT
                          !.state = "Sending", !.file = path, !.mode = "read",
                          !.pos = 0, !.hash = <<>>,
                          !.expectedSize = FileSize(disk[p][path])]
             failed == [Cleanup(ftm[p]) EXCEPT !.file = path]
  <2>1. opened.state = "Sending" /\ failed.state = "Idle"
    BY <1>1, CleanupProperties DEF Manager
  <2>2. ftm' = [ftm EXCEPT ![p] = opened] \/ ftm' = [ftm EXCEPT ![p] = failed]
    BY DEF SendFile
  <2> HIDE DEF opened, failed
  <2>3. QED
    BY <1>1, <1>2, <2>1, <2>2
<1>4. control' = Posted(control, p, message) \/ control' = control
  BY DEF SendFile
<1>5. Carries(control[p], FromReceiver) /\ Carries(control[b], FromSender)
  BY <1>1 DEF Carries
<1>6. message.type \in FromSender
  BY DEF FromSender
<1> HIDE DEF message
<1>7. Carries(control'[p], FromReceiver) /\ Carries(control'[b], FromSender)
  <2>1. CASE control' = control
    BY <1>5, <2>1
  <2>2. CASE control' = Posted(control, p, message)
    <3>1. control \in [Peers -> Seq(Message)] /\ message \in Message
      BY <1>1
    <3>2. control'[p] = control[p]
      BY <2>2, <3>1, PostedMessages
    <3>3. Carries(control'[b], FromSender)
      BY <1>1, <1>5, <1>6, <2>2, CarriesPosted
    <3>4. QED
      BY <1>5, <3>2, <3>3
  <2>3. QED
    BY <1>4, <2>1, <2>2
<1>8. QED
  BY <1>1, <1>3, <1>7 DEF Roles

SameSources(before, after) ==
  \A s \in Sources : after[SourcePath(s)] = before[SourcePath(s)]

LEMMA DownloadIsNoSource ==
  \A n \in Names : \A before, files, content :
    SameSources(before, files) =>
      SameSources(before, [files EXCEPT ![DownloadPath(n)] = content])
  BY PathsDiffer DEF SameSources

\* A handler writes and removes downloads only.
LEMMA DownloadsOfWorker ==
  ASSUME IInv, DownloadsOnly, NEW a \in Peers, Roles(a), NEW p \in Peers,
         Worker(p) \/ CancelTransfer(p)
  PROVE  \A q \in Peers, s \in Sources :
           disk'[q][SourcePath(s)] = disk[q][SourcePath(s)]
<1> SUFFICES disk'[Other(p)] = disk[Other(p)] /\ SameSources(disk[p], disk'[p])
  BY TwoPeers DEF SameSources
<1>1. disk[p] \in [Paths -> Seq(Block) \cup {None}]
  BY DEF IInv, TypeOK
<1>2. SameSources(disk[p], disk[p])
  BY DEF SameSources
<1>3. CASE disk' = disk
  BY <1>2, <1>3
<1>4. CASE ReceiveMetadata(p)
  <2> DEFINE path == DownloadPath(NameOf[control[p][1].source])
  <2>1. /\ NameOf[control[p][1].source] \in Names
        /\ disk'[Other(p)] = disk[Other(p)]
        /\ disk'[p] = disk[p]
             \/ \E content : disk'[p] = [disk[p] EXCEPT ![path] = content]
    BY <1>4, MetadataStep
  <2>2. \A content : SameSources(disk[p], [disk[p] EXCEPT ![path] = content])
    BY <1>2, <2>1, DownloadIsNoSource
  <2>3. QED
    BY <1>2, <2>1, <2>2
<1>5. ASSUME NEW m \in Manager, NEW files, SameSources(disk[p], files),
             CheckCompletion(p, m, files),
             m.hash # None => \E n \in Names : m.file = DownloadPath(n)
      PROVE  disk'[Other(p)] = disk[Other(p)] /\ SameSources(disk[p], disk'[p])
  <2>1. CASE disk'[p] = files \/ disk' = disk
    BY <1>2, <1>5, <2>1, CompletionStep
  <2>2. CASE m.hash # None /\ disk'[p] = [files EXCEPT ![m.file] = None]
    BY <1>5, <2>2, CompletionStep, DownloadIsNoSource
  <2>3. QED
    BY <1>5, <2>1, <2>2, CompletionStep
<1>6. CASE HandleBinaryChunk(p)
  <2>1. CASE ftm[p].state # "Receiving"
    BY <1>3, <1>6, <2>1, ChunkStep
  <2>2. CASE ftm[p].state = "Receiving"
    <3> DEFINE m == WithChunk(ftm[p], binary[p][1])
    <3>1. PICK n \in Names : ftm[p].file = DownloadPath(n)
      BY <2>2 DEF DownloadsOnly
    <3>2. m \in Manager /\ m.file = DownloadPath(n)
      BY <1>6, <2>2, <3>1, ChunkStep
    <3>3. PICK content :
            CheckCompletion(p, m, [disk[p] EXCEPT ![DownloadPath(n)] = content])
      BY <1>6, <2>2, <3>1, ChunkStep
    <3>4. SameSources(disk[p], [disk[p] EXCEPT ![DownloadPath(n)] = content])
      BY <1>2, DownloadIsNoSource
    <3>5. QED
      BY <1>5, <3>2, <3>3, <3>4
  <2>3. QED
    BY <2>1, <2>2
<1>7. CASE ReceiveComplete(p)
  <2> DEFINE m == [ftm[p] EXCEPT !.expectedHash = control[p][1].hash]
  <2>1. /\ m \in Manager /\ m.hash = ftm[p].hash /\ m.file = ftm[p].file
        /\ CheckCompletion(p, m, disk[p])
        /\ FirstIs(control[p], "transfer_complete")
    BY <1>7, CompleteStep
  <2>2. p # a
    <3>1. Len(control[p]) \in Nat
      BY DEF IInv, TypeOK
    <3>2. 1 \in 1..Len(control[p])
      BY <2>1, <3>1 DEF FirstIs
    <3>3. QED
      BY <2>1, <3>2 DEF Roles, Carries, FromReceiver, FirstIs
  <2>3. ASSUME m.hash # None
        PROVE  \E n \in Names : m.file = DownloadPath(n)
    <3>1. ftm[p].state # "Idle" /\ ftm[p].state \in States
      BY <2>1, <2>3 DEF IInv, TypeOK, Manager, WorkerOwnsResources
    <3>2. p = Other(a)
      BY <2>2, TwoPeers
    <3>3. ftm[p].state = "Receiving"
      BY <3>1, <3>2 DEF States, Roles
    <3>4. QED
      BY <2>1, <3>3 DEF DownloadsOnly
  <2> HIDE DEF m
  <2>4. QED
    BY <1>2, <1>5, <2>1, <2>3
<1>8. QED
  BY <1>3, <1>4, <1>6, <1>7
     DEF Worker, CancelTransfer, SendChunk, PauseLoop, FinishLoop,
         SetBackpressure, ReceiveAccept, ReceiveCancel, OnPeerDisconnected

LEMMA InitRolesInv == Init => RolesInv
<1> SUFFICES ASSUME Init PROVE RolesInv
  OBVIOUS
<1>1. \A p \in Peers : ftm[p].state = "Idle" /\ control[p] = <<>>
  BY DEF Init, NewManager
<1>2. \E a \in Peers : Roles(a)
  <2>1. PICK a \in Peers : TRUE
    BY PeersAssumption
  <2>2. Roles(a)
    BY <1>1, TwoPeers DEF Roles, Carries
  <2>3. QED
    BY <2>2
<1>3. SourceFiles
  <2>1. PICK left : disk = [p \in Peers |-> InitialDisk(p, left)]
    BY DEF Init
  <2>2. ASSUME NEW p \in Peers, NEW s \in Sources
        PROVE  disk[p][SourcePath(s)]
                 = IF s \in Outbox[p] THEN Content(s) ELSE None
    <3>1. SourcePath(s) \in Paths /\ SourcePath(s)[1] = "source"
            /\ SourcePath(s)[2] = s
      BY PathsAreNotNone DEF SourcePath
    <3>2. QED
      BY <2>1, <3>1 DEF InitialDisk
  <2>3. QED
    BY <2>2 DEF SourceFiles
<1>4. QED
  BY <1>1, <1>2, <1>3, InitIInv DEF RolesInv, DownloadsOnly

LEMMA NextRolesInv == RolesInv /\ [Next /\ Patient]_vars => RolesInv'
<1> SUFFICES ASSUME RolesInv, [Next /\ Patient]_vars PROVE RolesInv'
  OBVIOUS
<1>1. IInv' /\ IInv
  BY NextIInv DEF RolesInv
<1>2. PICK a \in Peers : Roles(a)
  BY DEF RolesInv
<1>3. CASE UNCHANGED vars
  BY <1>1, <1>3 DEF RolesInv, vars, link, DownloadsOnly, SourceFiles, Roles
<1>4. CASE Network
  <2>1. UNCHANGED <<ftm, disk>>
    BY <1>4 DEF Network, Drain, LoseInFlight, LinkLost, LinkRestored
  <2>2. Roles(a)'
    BY <1>1, <1>2, <1>4, RolesOfNetwork
  <2>3. QED
    BY <1>1, <2>1, <2>2 DEF RolesInv, DownloadsOnly, SourceFiles
<1>5. ASSUME NEW p \in Peers,
             Worker(p) \/ (CancelTransfer(p) /\ ftm[p].state # "Idle")
      PROVE  RolesInv'
  <2>1. Roles(a)'
    BY <1>1, <1>2, <1>5, RolesOfWorker
  <2>2. DownloadsOnly'
    BY <1>1, <1>5, ManagerSteps, TwoPeers DEF RolesInv, DownloadsOnly
  <2>3. SourceFiles'
    <3>1. \A q \in Peers, s \in Sources :
            disk'[q][SourcePath(s)] = disk[q][SourcePath(s)]
      BY <1>1, <1>2, <1>5, DownloadsOfWorker DEF RolesInv
    <3>2. QED
      BY <3>1 DEF RolesInv, SourceFiles
  <2>4. QED
    BY <1>1, <2>1, <2>2, <2>3 DEF RolesInv
<1>6. ASSUME Quiet, \A q \in Peers : ftm[q].state = "Idle",
             NEW p \in Peers, NEW s \in Outbox[p], SendFile(p, s)
      PROVE  RolesInv'
  <2>1. s \in Sources
    BY FilesAssumption
  <2>2. Roles(p)' /\ DownloadsOnly'
    BY <1>1, <1>6, <2>1, RolesOfSendFile DEF DownloadsOnly
  <2>3. SourceFiles'
    BY <1>6 DEF SendFile, RolesInv, SourceFiles
  <2>4. QED
    BY <1>1, <2>2, <2>3 DEF RolesInv
<1>7. QED
  <2>1. CASE Next /\ Patient
    <3>1. TypeOK
      BY <1>1 DEF IInv
    <3>2. \/ Network
          \/ \E p \in Peers :
               Worker(p) \/ (CancelTransfer(p) /\ ftm[p].state # "Idle")
          \/ /\ Quiet /\ \A q \in Peers : ftm[q].state = "Idle"
             /\ \E p \in Peers : \E s \in Outbox[p] : SendFile(p, s)
      BY <2>1, <3>1, PatientSteps, Zenon
    <3>3. QED
      BY <1>4, <1>5, <1>6, <3>2, Zenon
  <2>2. QED
    BY <1>3, <2>1

LEMMA RolesAlways == PatientSpec => []RolesInv
  BY InitRolesInv, NextRolesInv, PTL DEF PatientSpec

\* However transfers resume, race their cancels or fail on a full disk, the
\* file being sent stays as it was: what the removal after a mismatch deletes
\* is a download (filetransfermanager.cpp:234).
THEOREM SourcesStayIntact == PatientSpec => []SourcesIntact
<1>1. RolesInv => SourcesIntact
  BY FilesAssumption DEF RolesInv, SourceFiles, SourcesIntact
<1>2. QED
  BY <1>1, RolesAlways, PTL

-----------------------------------------------------------------------------
(* The channels: what sits in a send buffer has not arrived, a connection   *)
(* comes back only after both workers have closed the lost one.             *)

BufferedIsUnderWay ==
  \A p \in Peers : /\ buffered[p] <= Len(binary[Other(p)])
                   /\ ~up => buffered[p] = 0

ClosedIsIdle ==
  \A p \in Peers :
    /\ closing[p] => ~up
    /\ ~up /\ ~closing[p] =>
         ftm[p].state = "Idle" /\ control[p] = <<>> /\ binary[p] = <<>>

LinkInv == RolesInv /\ BufferedIsUnderWay /\ ClosedIsIdle

\* A worker without a transfer and without messages does nothing but hear of
\* an old buffer.
LEMMA IdleWorker ==
  ASSUME IInv, NEW p \in Peers, ftm[p].state = "Idle",
         control[p] = <<>>, binary[p] = <<>>, ~closing[p], Worker(p)
  PROVE  /\ SetBackpressure(p) /\ UNCHANGED <<ftm, control, binary, closing>>
         /\ UNCHANGED <<buffered, disk, verdict, announced, up>>
         /\ looping'[p] = FALSE
<1>1. ~looping[p] /\ buffered[Other(p)] \in Nat /\ looping \in [Peers -> BOOLEAN]
  BY TwoPeers DEF IInv, TypeOK, WorkerOwnsResources
<1>2. ~HandleBinaryChunk(p)
  <2>1. Len(binary[p]) = 0
    OBVIOUS
  <2>2. ~(Arrived(p) > 0)
    BY <1>1, <2>1 DEF Arrived
  <2>3. QED
    BY <2>2 DEF HandleBinaryChunk
<1>3. SetBackpressure(p)
  BY <1>1, <1>2
     DEF Worker, SendChunk, PauseLoop, FinishLoop, ReceiveMetadata,
         ReceiveAccept, ReceiveComplete, ReceiveCancel, Pending,
         OnPeerDisconnected
<1>4. QED
  BY <1>1, <1>3 DEF SetBackpressure, history

\* Nothing is posted on a lost connection.
LEMMA NothingPosted ==
  ASSUME IInv, NEW p \in Peers, Worker(p) \/ CancelTransfer(p), ~up
  PROVE  /\ control'[Other(p)] = control[Other(p)]
         /\ binary'[Other(p)] = binary[Other(p)] /\ buffered' = buffered
<1>1. control \in [Peers -> Seq(Message)] /\ binary \in [Peers -> Seq(Block)]
  BY DEF IInv, TypeOK
<1>2. \A queue, message : Posted(queue, p, message) = queue
  BY DEF Posted
<1>3. buffered' = buffered
  BY DEF Worker, CancelTransfer, SendChunk, PauseLoop, FinishLoop,
         SetBackpressure, HandleBinaryChunk, ReceiveMetadata, ReceiveAccept,
         ReceiveComplete, ReceiveCancel, OnPeerDisconnected, link
<1>4. binary' = binary \/ binary' = Taken(binary, p)
  BY <1>2
     DEF Worker, CancelTransfer, SendChunk, PauseLoop, FinishLoop,
         SetBackpressure, HandleBinaryChunk, ReceiveMetadata, ReceiveAccept,
         ReceiveComplete, ReceiveCancel, OnPeerDisconnected, link
<1>5. control' = control \/ control' = Taken(control, p)
  BY <1>2
     DEF Worker, CancelTransfer, SendChunk, PauseLoop, FinishLoop,
         SetBackpressure, HandleBinaryChunk, ReceiveMetadata, ReceiveAccept,
         ReceiveComplete, ReceiveCancel, OnPeerDisconnected, link
<1>6. \A queue : Taken(queue, p)[Other(p)] = queue[Other(p)]
  BY TwoPeers DEF Taken
<1>7. QED
  BY <1>3, <1>4, <1>5, <1>6

LEMMA ClosedIsIdleOfWorker ==
  ASSUME IInv, ClosedIsIdle, NEW p \in Peers,
         Worker(p) \/ (CancelTransfer(p) /\ ftm[p].state # "Idle")
  PROVE  ClosedIsIdle'
<1> DEFINE q == Other(p)
<1>1. /\ q \in Peers /\ q # p /\ Peers = {p, q} /\ ftm'[q] = ftm[q]
      /\ closing \in [Peers -> BOOLEAN]
  BY ManagerSteps, TwoPeers DEF IInv, TypeOK
<1>2. up' = up
  BY DEF Worker, CancelTransfer, SendChunk, PauseLoop, FinishLoop,
         SetBackpressure, HandleBinaryChunk, ReceiveMetadata, ReceiveAccept,
         ReceiveComplete, ReceiveCancel, OnPeerDisconnected
<1>3. CASE OnPeerDisconnected(p)
  <2>1. /\ ftm' = [ftm EXCEPT ![p] = Cleanup(ftm[p])]
        /\ closing' = [closing EXCEPT ![p] = FALSE]
        /\ control' = control /\ binary' = binary
        /\ control[p] = <<>> /\ binary[p] = <<>>
    BY <1>3 DEF OnPeerDisconnected, link
  <2>2. ftm'[p].state = "Idle"
    BY <2>1, AtPeer DEF Cleanup, IInv, TypeOK, Manager
  <2>3. QED
    BY <1>1, <1>2, <2>1, <2>2 DEF ClosedIsIdle
<1>4. CASE ~OnPeerDisconnected(p)
  <2>1. closing' = closing
    BY <1>4
       DEF Worker, CancelTransfer, SendChunk, PauseLoop, FinishLoop,
           SetBackpressure, HandleBinaryChunk, ReceiveMetadata, ReceiveAccept,
           ReceiveComplete, ReceiveCancel
  <2>2. CASE up
    BY <1>2, <2>1, <2>2 DEF ClosedIsIdle
  <2>3. CASE ~up
    <3>1. control'[q] = control[q] /\ binary'[q] = binary[q]
      BY <2>3, NothingPosted
    <3>2. ASSUME ~closing[p]
          PROVE  UNCHANGED <<ftm, control, binary>>
      BY <2>3, <3>2, IdleWorker DEF ClosedIsIdle
    <3>3. QED
      BY <1>1, <1>2, <2>1, <2>3, <3>1, <3>2 DEF ClosedIsIdle
  <2>4. QED
    BY <2>2, <2>3
<1>5. QED
  BY <1>3, <1>4

LEMMA BufferedIsUnderWayOfWorker ==
  ASSUME IInv, BufferedIsUnderWay, NEW p \in Peers,
         Worker(p) \/ CancelTransfer(p)
  PROVE  BufferedIsUnderWay'
<1> DEFINE q == Other(p)
<1>1. /\ q \in Peers /\ q # p /\ Peers = {p, q} /\ Other(q) = p
      /\ binary \in [Peers -> Seq(Block)] /\ buffered \in [Peers -> Nat]
  BY TwoPeers DEF IInv, TypeOK
<1>2. up' = up
  BY DEF Worker, CancelTransfer, SendChunk, PauseLoop, FinishLoop,
         SetBackpressure, HandleBinaryChunk, ReceiveMetadata, ReceiveAccept,
         ReceiveComplete, ReceiveCancel, OnPeerDisconnected
<1>3. CASE UNCHANGED <<binary, buffered>>
  BY <1>2, <1>3 DEF BufferedIsUnderWay
<1>4. CASE SendChunk(p)
  <2> DEFINE chunk == disk[p][ftm[p].file][ftm[p].pos + 1]
  <2>1. CASE ~up
    BY <1>3, <1>4, <2>1 DEF SendChunk, Posted
  <2>2. CASE up
    <3>1. chunk \in Block /\ binary' = Posted(binary, p, chunk)
      BY <1>4, LoopReadsBlocks DEF SendChunk
    <3> HIDE DEF chunk
    <3>2. Len(binary'[q]) = Len(binary[q]) + 1 /\ binary'[p] = binary[p]
      <4>1. binary \in [Peers -> Seq(Block)]
        BY <1>1
      <4>2. /\ binary'[q] = Append(binary[q], chunk) /\ binary'[p] = binary[p]
            /\ binary[q] \in Seq(Block)
        BY <2>2, <3>1, <4>1, PostedMessages
      <4>3. QED
        BY <3>1, <4>2, AppendElements
    <3>3. buffered'[p] = buffered[p] + 1 /\ buffered'[q] = buffered[q]
      BY <1>1, <1>4, <2>2 DEF SendChunk
    <3>4. Len(binary[q]) \in Nat /\ buffered[p] \in Nat
      BY <1>1
    <3>5. QED
      BY <1>1, <1>2, <2>2, <3>2, <3>3, <3>4 DEF BufferedIsUnderWay
  <2>3. QED
    BY <2>1, <2>2
<1>5. CASE HandleBinaryChunk(p)
  <2>1. /\ binary' = Taken(binary, p) /\ buffered' = buffered
        /\ Len(binary[p]) - buffered[q] > 0 /\ binary[p] # <<>>
    BY <1>5, ChunkStep DEF HandleBinaryChunk, Arrived
  <2>2. Len(binary'[p]) = Len(binary[p]) - 1 /\ binary'[q] = binary[q]
    BY <1>1, <2>1, TakenMessages
  <2>3. Len(binary[p]) \in Nat /\ buffered[q] \in Nat
    BY <1>1
  <2>4. QED
    BY <1>1, <1>2, <2>1, <2>2, <2>3 DEF BufferedIsUnderWay
<1>6. QED
  BY <1>3, <1>4, <1>5
     DEF Worker, CancelTransfer, PauseLoop, FinishLoop, SetBackpressure,
         ReceiveMetadata, ReceiveAccept, ReceiveComplete, ReceiveCancel,
         OnPeerDisconnected, link

LEMMA LinkInvOfNetwork ==
  ASSUME IInv, BufferedIsUnderWay, ClosedIsIdle, Network
  PROVE  BufferedIsUnderWay' /\ ClosedIsIdle'
<1>1. /\ binary \in [Peers -> Seq(Block)] /\ buffered \in [Peers -> Nat]
      /\ control \in [Peers -> Seq(Message)]
  BY DEF IInv, TypeOK
<1>2. ASSUME NEW p \in Peers, Drain(p)
      PROVE  BufferedIsUnderWay' /\ ClosedIsIdle'
  <2>1. ClosedIsIdle'
    BY <1>2 DEF Drain, ClosedIsIdle
  <2>2. \A q \in Peers : buffered'[q] <= buffered[q]
    BY <1>1, <1>2 DEF Drain
  <2>3. \A q \in Peers : /\ buffered'[q] \in Nat /\ buffered[q] \in Nat
                         /\ Len(binary[Other(q)]) \in Nat
    BY <1>1, <1>2, TwoPeers DEF Drain
  <2>4. binary' = binary /\ up' = up
    BY <1>2 DEF Drain
  <2>5. QED
    BY <2>1, <2>2, <2>3, <2>4 DEF BufferedIsUnderWay
<1>3. ASSUME NEW p \in Peers, LoseInFlight(p)
      PROVE  BufferedIsUnderWay' /\ ClosedIsIdle'
  <2>1. /\ ~up /\ UNCHANGED <<ftm, buffered, up, closing>>
        /\ \/ control[p] # <<>> /\ control' = DropLast(control, p) /\ binary' = binary
           \/ binary[p] # <<>> /\ binary' = DropLast(binary, p) /\ control' = control
    BY <1>3 DEF LoseInFlight
  <2>2. \A q \in Peers : Len(binary'[q]) \in Nat
    BY <1>1, <2>1, QueueTypes DEF IInv, TypeOK
  <2>3. BufferedIsUnderWay'
    BY <2>1, <2>2, TwoPeers DEF BufferedIsUnderWay
  <2>4. closing[p]
    BY <2>1 DEF ClosedIsIdle
  <2>5. control'[Other(p)] = control[Other(p)] /\ binary'[Other(p)] = binary[Other(p)]
    BY <1>1, <2>1, DroppedMessages
  <2>6. ClosedIsIdle'
    BY <2>1, <2>4, <2>5, TwoPeers DEF ClosedIsIdle
  <2>7. QED
    BY <2>3, <2>6
<1>4. CASE LinkLost
  <2>1. /\ up' = FALSE /\ closing' = [p \in Peers |-> TRUE]
        /\ buffered' = [p \in Peers |-> 0]
    BY <1>4 DEF LinkLost
  <2>2. binary' \in [Peers -> Seq(Block)]
    BY <1>4, NextIInv DEF Next, IInv, TypeOK, Network
  <2>3. QED
    BY <2>1, <2>2, TwoPeers DEF BufferedIsUnderWay, ClosedIsIdle
<1>5. CASE LinkRestored
  BY <1>5 DEF LinkRestored, BufferedIsUnderWay, ClosedIsIdle, link
<1>6. QED
  BY <1>2, <1>3, <1>4, <1>5 DEF Network

LEMMA LinkInvOfSendFile ==
  ASSUME IInv, BufferedIsUnderWay, ClosedIsIdle, Quiet,
         NEW p \in Peers, NEW s \in Sources, SendFile(p, s)
  PROVE  BufferedIsUnderWay' /\ ClosedIsIdle'
  BY DEF SendFile, Quiet, BufferedIsUnderWay, ClosedIsIdle

LEMMA InitLinkInv == Init => LinkInv
<1> SUFFICES ASSUME Init PROVE LinkInv
  OBVIOUS
<1>1. BufferedIsUnderWay /\ ClosedIsIdle
  BY TwoPeers DEF Init, BufferedIsUnderWay, ClosedIsIdle
<1>2. QED
  BY <1>1, InitRolesInv DEF LinkInv

LEMMA NextLinkInv == LinkInv /\ [Next /\ Patient]_vars => LinkInv'
<1> SUFFICES ASSUME LinkInv, [Next /\ Patient]_vars PROVE LinkInv'
  OBVIOUS
<1>1. RolesInv' /\ IInv
  BY NextRolesInv DEF LinkInv, RolesInv
<1>2. CASE UNCHANGED vars
  BY <1>1, <1>2 DEF vars, link, LinkInv, BufferedIsUnderWay, ClosedIsIdle
<1>3. CASE Network
  BY <1>1, <1>3, LinkInvOfNetwork DEF LinkInv
<1>4. ASSUME NEW p \in Peers,
             Worker(p) \/ (CancelTransfer(p) /\ ftm[p].state # "Idle")
      PROVE  LinkInv'
  BY <1>1, <1>4, ClosedIsIdleOfWorker, BufferedIsUnderWayOfWorker DEF LinkInv
<1>5. ASSUME Quiet, NEW p \in Peers, NEW s \in Outbox[p], SendFile(p, s)
      PROVE  LinkInv'
  <2>1. s \in Sources
    BY FilesAssumption
  <2>2. QED
    BY <1>1, <1>5, <2>1, LinkInvOfSendFile DEF LinkInv
<1>6. TypeOK
  BY <1>1 DEF IInv
<1>7. CASE Next /\ Patient
  <2>1. \/ Network
        \/ \E p \in Peers :
             Worker(p) \/ (CancelTransfer(p) /\ ftm[p].state # "Idle")
        \/ Quiet /\ \E p \in Peers : \E s \in Outbox[p] : SendFile(p, s)
    BY <1>6, <1>7, PatientSteps, Zenon
  <2>2. QED
    BY <1>3, <1>4, <1>5, <2>1, Zenon
<1>8. QED
  BY <1>2, <1>7
=============================================================================
