---------------------------- MODULE ProgressProofs ----------------------------
(***************************************************************************)
(* The data of a session: the file a receiver writes, the two hashes and   *)
(* the chunks between them are parts of one source that meet without a gap *)
(* or an overlap, so what is judged is that source. Names tell files apart *)
(* here: the code resumes any file of the announced name.                  *)
(***************************************************************************)
EXTENDS SessionProofs

\* The blocks i + 1 to j of source s, in order.
PartOf(blocks, s, i, j) ==
  Len(blocks) = j - i /\ \A n \in 1..j - i : blocks[n] = <<s, i + n>>

\* A download folder holds first parts of the sources, under their names.
Downloads ==
  \A p \in Peers, n \in Names :
    LET file == disk[p][DownloadPath(n)] IN
    \/ file = None
    \/ \E t \in Sources : \E j \in 0..Size[t] : NameOf[t] = n /\ PartOf(file, t, 0, j)

\* The blocks that were on the receiver's disk before the session.
Skipped(a) == ftm[Other(a)].received - Len(ftm[Other(a)].hash)

\* The file, the two hashes and the chunks on their way fit together.
Progress(a, s) ==
  LET b == Other(a) IN
  Receiving(a) =>
    /\ Skipped(a) >= 0 /\ Reach(a) <= Size[s]
    /\ PartOf(disk[b][ftm[b].file], s, 0, ftm[b].received)
    /\ PartOf(ftm[b].hash, s, Skipped(a), ftm[b].received)
    /\ PartOf(binary[b], s, ftm[b].received, Reach(a))
    /\ up /\ Sending(a) /\ ~Accepting(a) =>
         /\ Skipped(a) <= ftm[a].pos
         /\ PartOf(ftm[a].hash, s, Skipped(a), ftm[a].pos)
    /\ Ending(a) => PartOf(control[b][1].hash, s, Skipped(a), Size[s])
    /\ ftm[b].expectedHash # None =>
         PartOf(ftm[b].expectedHash, s, Skipped(a), Size[s])

ProgressInv ==
  /\ LinkInv /\ Downloads /\ JudgedFileIsExact
  /\ Calm \/ \E a \in Peers, s \in Sources : Session(a, s) /\ Progress(a, s)

\* A part with the next block, and what makes two parts the same.
LEMMA PartAppended ==
  ASSUME NEW s, NEW i \in Int, NEW j \in Int, i <= j,
         NEW blocks \in Seq(Block), PartOf(blocks, s, i, j), <<s, j + 1>> \in Block
  PROVE  PartOf(Append(blocks, <<s, j + 1>>), s, i, j + 1)
<1> DEFINE after == Append(blocks, <<s, j + 1>>)
<1>1. /\ Len(blocks) = j - i /\ \A n \in 1..j - i : blocks[n] = <<s, i + n>>
  BY DEF PartOf
<1>2. /\ Len(after) = Len(blocks) + 1
      /\ \A n \in 1..Len(blocks) : after[n] = blocks[n]
      /\ after[Len(blocks) + 1] = <<s, j + 1>>
  BY AppendElements
<1> HIDE DEF after
<1>3. Len(after) = j + 1 - i
  BY <1>1, <1>2
<1>4. ASSUME NEW n \in 1..j + 1 - i
      PROVE  after[n] = <<s, i + n>>
  <2>1. CASE n \in 1..j - i
    BY <1>1, <1>2, <2>1
  <2>2. CASE n = j - i + 1
    <3>1. i + n = j + 1 /\ n = Len(blocks) + 1
      BY <1>1, <2>2
    <3>2. QED
      BY <1>2, <3>1
  <2>3. QED
    BY <2>1, <2>2
<1>5. QED
  BY <1>3, <1>4 DEF PartOf, after

LEMMA PartsAreEqual ==
  ASSUME NEW s, NEW i \in Int, NEW j \in Int, NEW left \in Seq(Block),
         NEW right \in Seq(Block), PartOf(left, s, i, j), PartOf(right, s, i, j)
  PROVE  left = right
<1>1. Len(left) = Len(right) /\ \A n \in 1..Len(left) : left[n] = right[n]
  BY DEF PartOf
<1>2. QED
  BY <1>1, SeqEqual

LEMMA ContentIsPart ==
  ASSUME NEW s \in Sources
  PROVE  /\ Content(s) \in Seq(Block) /\ Size[s] \in Nat
         /\ PartOf(Content(s), s, 0, Size[s])
         /\ \A n \in Nat : <<s, n>> \in Block
<1>1. Size[s] \in Nat /\ Content(s) \in Seq(Block)
  BY FilesAssumption DEF Content, Block
<1>2. Len(Content(s)) = Size[s] - 0
  BY <1>1 DEF Content
<1>3. \A n \in 1..Size[s] - 0 : Content(s)[n] = <<s, 0 + n>>
  BY <1>1 DEF Content
<1>4. QED
  BY <1>1, <1>2, <1>3 DEF PartOf, Block

LEMMA NothingIsPart ==
  ASSUME NEW s, NEW i \in Int
  PROVE  PartOf(<<>>, s, i, i)
  BY DEF PartOf

\* What a step leaves alone keeps its place in the session.
LEMMA SameProgress ==
  ASSUME NEW a \in Peers, NEW s \in Sources, Progress(a, s),
         ftm'[Other(a)] = ftm[Other(a)], disk'[Other(a)] = disk[Other(a)],
         binary'[Other(a)] = binary[Other(a)],
         Ending(a)' => Ending(a) /\ control'[Other(a)] = control[Other(a)],
         up' /\ Sending(a)' /\ ~Accepting(a)' =>
           up /\ Sending(a) /\ ~Accepting(a) /\ ftm'[a] = ftm[a]
  PROVE  Progress(a, s)'
  BY DEF Progress, Receiving, Skipped, Reach

LEMMA SameDownloads ==
  ASSUME Downloads, disk' = disk
  PROVE  Downloads'
  BY DEF Downloads

\* A step that writes one download leaves a first part of its source, or none.
LEMMA ChangedDownload ==
  ASSUME IInv, Downloads, NEW b \in Peers, NEW s \in Sources,
         disk'[Other(b)] = disk[Other(b)],
         \A path \in Paths : path # DownloadPath(NameOf[s]) =>
           disk'[b][path] = disk[b][path],
         LET file == disk'[b][DownloadPath(NameOf[s])] IN
           file = None \/ \E j \in 0..Size[s] : PartOf(file, s, 0, j)
  PROVE  Downloads'
<1> SUFFICES ASSUME NEW p \in Peers, NEW n \in Names
             PROVE  LET file == disk'[p][DownloadPath(n)] IN
                    \/ file = None
                    \/ \E t \in Sources : \E j \in 0..Size[t] :
                         NameOf[t] = n /\ PartOf(file, t, 0, j)
  BY DEF Downloads, PartOf
<1>1. p = b \/ p = Other(b)
  BY TwoPeers
<1>2. CASE p = b /\ n = NameOf[s]
  BY <1>2
<1>3. CASE p = b /\ n # NameOf[s]
  <2>1. DownloadPath(n) \in Paths /\ DownloadPath(n) # DownloadPath(NameOf[s])
    BY <1>3 DEF Paths, DownloadPath
  <2>2. QED
    BY <1>3, <2>1 DEF Downloads
<1>4. CASE p = Other(b)
  BY <1>4 DEF Downloads
<1>5. QED
  BY <1>1, <1>2, <1>3, <1>4

LEMMA InitDownloads == Init => Downloads
<1> SUFFICES ASSUME Init, NEW p \in Peers, NEW n \in Names,
                    disk[p][DownloadPath(n)] # None
             PROVE  \E t \in Sources : \E j \in 0..Size[t] :
                      NameOf[t] = n /\ PartOf(disk[p][DownloadPath(n)], t, 0, j)
  BY DEF Downloads
<1>1. disk[p][DownloadPath(n)] \in Remains(n)
  <2>1. PICK left : /\ left[p][n] \in Remains(n)
                    /\ disk = [q \in Peers |-> InitialDisk(q, left)]
    BY DEF Init
  <2>2. DownloadPath(n) \in Paths /\ DownloadPath(n)[1] = "download"
        /\ DownloadPath(n)[2] = n
    BY DEF Paths, DownloadPath
  <2>3. QED
    BY <2>1, <2>2 DEF InitialDisk
<1>2. PICK t \in Sources : \E k \in 0..Size[t] :
        NameOf[t] = n /\ disk[p][DownloadPath(n)] = SubSeq(Content(t), 1, k)
  BY <1>1 DEF Remains
<1>3. PICK k \in 0..Size[t] :
        NameOf[t] = n /\ disk[p][DownloadPath(n)] = SubSeq(Content(t), 1, k)
  BY <1>2
<1>4. PartOf(SubSeq(Content(t), 1, k), t, 0, k)
  <2> DEFINE file == SubSeq(Content(t), 1, k)
  <2>1. /\ Size[t] \in Nat /\ k \in Nat /\ k <= Size[t]
        /\ Content(t) \in Seq(Block) /\ Len(Content(t)) = Size[t]
        /\ \A m \in 1..Size[t] : Content(t)[m] = <<t, 0 + m>>
    BY ContentIsPart DEF PartOf
  <2>2. \A m \in 1..k : Content(t)[m] \in Block
    BY <2>1
  <2>3. /\ Len(file) = IF 1 <= k THEN k - 1 + 1 ELSE 0
        /\ \A m \in 1..k - 1 + 1 : file[m] = Content(t)[1 + m - 1]
    BY <2>1, <2>2, SubSeqProperties
  <2> HIDE DEF file
  <2>4. Len(file) = k - 0 /\ \A m \in 1..k - 0 : file[m] = <<t, 0 + m>>
    BY <2>1, <2>3
  <2>5. QED
    BY <2>4 DEF PartOf, file
<1>5. QED
  BY <1>3, <1>4

\* A step that reads no file and judges none.
LEMMA SameFiles ==
  ASSUME NEW p \in Peers,
         \/ SendChunk(p) \/ PauseLoop(p) \/ FinishLoop(p) \/ SetBackpressure(p)
         \/ ReceiveAccept(p) \/ ReceiveCancel(p) \/ OnPeerDisconnected(p)
         \/ CancelTransfer(p) \/ Drain(p) \/ LoseInFlight(p) \/ LinkLost
         \/ LinkRestored
  PROVE  UNCHANGED <<disk, verdict>>
  BY DEF SendChunk, PauseLoop, FinishLoop, SetBackpressure, ReceiveAccept,
         ReceiveCancel, OnPeerDisconnected, CancelTransfer, Drain, LoseInFlight,
         LinkLost, LinkRestored, history

LEMMA ProgressSendChunk ==
  ASSUME LinkInv, NEW a \in Peers, NEW s \in Sources, Session(a, s),
         Progress(a, s), NEW p \in Peers, SendChunk(p)
  PROVE  Progress(a, s)'
<1> DEFINE b == Other(a)
           chunk == disk[a][ftm[a].file][ftm[a].pos + 1]
           m == [ftm[a] EXCEPT !.pos = @ + 1, !.hash = Append(@, chunk)]
<1>1. /\ IInv /\ b \in Peers /\ b # a
      /\ binary \in [Peers -> Seq(Block)] /\ up \in BOOLEAN
      /\ Len(binary[b]) \in Nat /\ ftm[b].received \in Nat
      /\ ftm[a] \in Manager /\ ftm[a].pos \in Nat
  BY SessionTypes
<1>2. p = a /\ looping[a] /\ Sending(a) /\ UNCHANGED <<disk, control, up>>
  <2>1. looping[p] /\ UNCHANGED <<disk, control, up>>
    BY DEF SendChunk, history
  <2>2. p \in {a, b} /\ ~looping[b] /\ (looping[a] => Sending(a))
    BY SessionTypes DEF Session, Sides
  <2>3. QED
    BY <2>1, <2>2
<1>3. /\ chunk = <<s, ftm[a].pos + 1>> /\ chunk \in Block
      /\ ftm[a].pos < Size[s] /\ Size[s] \in Nat
  <2>1. disk[a][ftm[a].file] = Content(s)
    BY <1>2 DEF Session, Sides, LinkInv, RolesInv, SourceFiles
  <2>2. FileSize(Content(s)) = Size[s] /\ Size[s] \in Nat
    BY ContentSize
  <2>3. ftm[a].pos < Size[s]
    BY <1>1, <1>2, <2>1, <2>2 DEF SendChunk, AtEnd
  <2>4. Content(s)[ftm[a].pos + 1] = <<s, 0 + (ftm[a].pos + 1)>>
    BY <1>1, <2>2, <2>3, ContentIsPart DEF PartOf
  <2>5. chunk = <<s, ftm[a].pos + 1>>
    BY <1>1, <2>1, <2>4
  <2>6. QED
    BY <1>1, <2>2, <2>3, <2>5, ContentIsPart
<1>4. ~Accepting(a)
  BY <1>2 DEF Session, Opening
<1>5. /\ ftm'[a].hash = Append(ftm[a].hash, chunk) /\ ftm[a].hash \in Seq(Block)
      /\ ftm'[a].pos = ftm[a].pos + 1 /\ ftm'[b] = ftm[b]
  <2>1. ftm' = [ftm EXCEPT ![a] = m]
    BY <1>1, <1>2 DEF SendChunk, IInv, TypeOK
  <2>2. m.hash = Append(ftm[a].hash, chunk) /\ m.pos = ftm[a].pos + 1
    BY <1>1 DEF Manager
  <2>3. ftm[a].hash \in Seq(Block)
    BY <1>1, <1>2, LoopReadsBlocks
  <2> HIDE DEF m, chunk
  <2>4. ftm'[a] = m /\ ftm'[b] = ftm[b]
    BY <1>1, <2>1, AtPeer
  <2>5. QED
    BY <2>2, <2>3, <2>4
<1>6. /\ ~up => binary'[b] = binary[b]
      /\ up => binary'[b] = Append(binary[b], chunk)
      /\ binary[b] \in Seq(Block)
  <2>1. binary' = Posted(binary, a, chunk)
    BY <1>2 DEF SendChunk
  <2> HIDE DEF chunk
  <2>2. binary \in [Peers -> Seq(Block)] /\ chunk \in Block
    BY <1>1, <1>3
  <2>3. QED
    BY <2>1, <2>2, PostedMessages
<1> HIDE DEF chunk
<1>7. CASE ~up
  BY <1>2, <1>5, <1>6, <1>7, SameCommands DEF Progress, Receiving, Skipped, Reach
<1>8. CASE up /\ Receiving(a)
  <2>1. ~Refusing(a) /\ ~Announcing(a)
    BY <1>2, <1>8 DEF Session, Leaving, Opening
  <2>2. ftm[a].pos = Reach(a) /\ Reach(a) \in Nat
    BY <1>1, <1>2, <1>4, <1>8, <2>1 DEF Session, Served, Reach
  <2>3. Reach(a)' = Reach(a) + 1
    <3>1. Len(binary'[b]) = Len(binary[b]) + 1
      BY <1>3, <1>6, <1>8, AppendElements
    <3>2. /\ ftm'[b].received = ftm[b].received /\ ftm[b].received \in Nat
          /\ Len(binary[b]) \in Nat
      BY <1>1, <1>5
    <3>3. QED
      BY <3>1, <3>2 DEF Reach
  <2>4. Skipped(a)' = Skipped(a) /\ Skipped(a) \in Int
    <3>1. Skipped(a) >= 0 /\ Len(ftm[b].hash) = ftm[b].received - Skipped(a)
      BY <1>8 DEF Progress, PartOf
    <3>2. ftm[b].hash \in Seq(Block)
      BY <1>1, <1>8 DEF Receiving, IInv, TypeOK, WorkerOwnsResources, Manager
    <3>3. QED
      BY <1>1, <1>5, <3>2 DEF Skipped
  <2>5. /\ Skipped(a) >= 0 /\ Skipped(a) <= ftm[a].pos
        /\ PartOf(ftm[a].hash, s, Skipped(a), ftm[a].pos)
        /\ PartOf(binary[b], s, ftm[b].received, Reach(a))
    BY <1>2, <1>4, <1>8 DEF Progress
  <2>6. PartOf(ftm'[a].hash, s, Skipped(a), ftm[a].pos + 1)
    BY <1>1, <1>3, <1>5, <2>4, <2>5, PartAppended
  <2>7. PartOf(binary'[b], s, ftm[b].received, Reach(a) + 1)
    <3>1. ftm[b].received <= Reach(a)
      BY <1>1 DEF Reach
    <3>2. chunk = <<s, Reach(a) + 1>> /\ <<s, Reach(a) + 1>> \in Block
      BY <1>3, <2>2
    <3>3. binary'[b] = Append(binary[b], <<s, Reach(a) + 1>>)
      BY <1>6, <1>8, <3>2
    <3>4. QED
      BY <1>1, <1>6, <2>2, <2>5, <3>1, <3>2, <3>3, PartAppended
  <2>8. Reach(a)' <= Size[s]
    BY <1>1, <1>3, <2>2, <2>3
  <2>9. /\ Skipped(a) <= ftm'[a].pos
        /\ PartOf(ftm'[a].hash, s, Skipped(a), ftm'[a].pos)
    BY <1>1, <1>5, <2>4, <2>5, <2>6
  <2>10. /\ PartOf(disk[b][ftm[b].file], s, 0, ftm[b].received)
         /\ PartOf(ftm[b].hash, s, Skipped(a), ftm[b].received)
         /\ Ending(a) => PartOf(control[b][1].hash, s, Skipped(a), Size[s])
         /\ ftm[b].expectedHash # None =>
              PartOf(ftm[b].expectedHash, s, Skipped(a), Size[s])
    BY <1>8 DEF Progress
  <2>11. PartOf(binary'[b], s, ftm'[b].received, Reach(a)')
    BY <1>5, <2>3, <2>7
  <2>12. /\ PartOf(disk'[b][ftm'[b].file], s, 0, ftm'[b].received)
         /\ PartOf(ftm'[b].hash, s, Skipped(a)', ftm'[b].received)
         /\ Ending(a)' => PartOf(control'[b][1].hash, s, Skipped(a)', Size[s])
         /\ ftm'[b].expectedHash # None =>
              PartOf(ftm'[b].expectedHash, s, Skipped(a)', Size[s])
    BY <1>2, <1>5, <2>4, <2>10, SameCommands
  <2>13. QED
    BY <2>4, <2>5, <2>8, <2>9, <2>11, <2>12 DEF Progress, PartOf
<1>9. CASE ~Receiving(a)
  BY <1>5, <1>9 DEF Progress, Receiving
<1>10. QED
  BY <1>7, <1>8, <1>9

LEMMA ProgressFinishLoop ==
  ASSUME LinkInv, NEW a \in Peers, NEW s \in Sources, Session(a, s),
         Progress(a, s), NEW p \in Peers, FinishLoop(p)
  PROVE  Progress(a, s)'
<1> DEFINE b == Other(a)
           message == [type |-> "transfer_complete", hash |-> ftm[a].hash]
<1>1. /\ IInv /\ b \in Peers /\ b # a /\ up \in BOOLEAN
      /\ control \in [Peers -> Seq(Message)]
      /\ ftm[a] \in Manager /\ ftm[a].pos \in Nat
  BY SessionTypes
<1>2. p = a /\ looping[a] /\ Sending(a)
  BY <1>1, SessionTypes DEF FinishLoop, Session, Sides
<1>3. ftm[a].pos = Size[s]
  <2>1. disk[a][ftm[a].file] = Content(s) /\ ftm[a].pos <= Size[s]
    BY <1>2 DEF Session, Sides, LinkInv, RolesInv, SourceFiles
  <2>2. FileSize(Content(s)) = Size[s] /\ Size[s] \in Nat
    BY ContentSize
  <2>3. QED
    BY <1>1, <1>2, <2>1, <2>2 DEF FinishLoop, AtEnd
<1>4. ~Announcing(a) /\ ~Accepting(a) /\ Len(control[b]) = 0
  BY <1>2 DEF Session, Opening, Leaving
<1>5. ~Sending(a)' /\ ftm'[b] = ftm[b] /\ UNCHANGED <<binary, disk, up>>
  BY <1>1, <1>2, CleanedPeer DEF FinishLoop, Sending
<1>6. Ending(a)' => up /\ control'[b][1].hash = ftm[a].hash
  <2>1. message \in Message /\ message.hash = ftm[a].hash
    BY <1>1, <1>2, LoopReadsBlocks DEF Message
  <2>2. control' = Posted(control, a, message)
    BY <1>2 DEF FinishLoop
  <2> HIDE DEF message
  <2>3. control \in [Peers -> Seq(Message)] /\ Len(control[b]) = 0
    BY <1>1, <1>4
  <2>4. /\ ~up => control'[b] = control[b]
        /\ up => control'[b][1] = message
    BY <2>1, <2>2, <2>3, PostedCommands
  <2>5. QED
    BY <2>1, <2>3, <2>4 DEF Ending, FirstIs
<1>7. ASSUME Receiving(a)', up
      PROVE  PartOf(ftm[a].hash, s, Skipped(a), Size[s])
  BY <1>2, <1>3, <1>4, <1>5, <1>7 DEF Progress, Receiving
<1>8. QED
  BY <1>5, <1>6, <1>7 DEF Progress, Receiving, Skipped, Reach

LEMMA ProgressReceiveAccept ==
  ASSUME LinkInv, NEW a \in Peers, NEW s \in Sources, Session(a, s),
         Progress(a, s), NEW p \in Peers, ReceiveAccept(p)
  PROVE  Progress(a, s)'
<1> DEFINE b == Other(a)
           offset == control[a][1].offset
           m == IF Sending(a) THEN SeekTo(ftm[a], offset) ELSE ftm[a]
<1>1. /\ IInv /\ b \in Peers /\ b # a
      /\ control \in [Peers -> Seq(Message)] /\ up \in BOOLEAN
      /\ ftm[a] \in Manager /\ ftm[b].received \in Nat
  BY SessionTypes
<1>2. p = a /\ Accepting(a)
  BY SessionReceiveAccept
<1>3. UNCHANGED <<binary, disk, up>> /\ control'[b] = control[b]
  <2>1. control[a] # <<>> /\ control' = Taken(control, a)
    BY <1>2 DEF ReceiveAccept, Pending
  <2>2. QED
    BY <1>1, <1>2, <2>1, TakenCommands DEF ReceiveAccept
<1>4. /\ ftm'[b] = ftm[b] /\ (Sending(a)' <=> Sending(a))
      /\ Sending(a) => ftm'[a].pos = offset /\ ftm'[a].hash = ftm[a].hash
  <2>1. control[a][1] = Head(control[a])
    BY <1>1, <1>2, TakenCommands DEF ReceiveAccept, Pending
  <2>2. ftm' = [ftm EXCEPT ![a] = m]
    BY <1>2, <2>1 DEF ReceiveAccept, Sending
  <2>3. Sending(a) => offset <= ftm[a].expectedSize
    BY <1>2 DEF Session, Opening, Sides
  <2>4. /\ m.state = ftm[a].state /\ m.hash = ftm[a].hash
        /\ Sending(a) => m.pos = offset
    BY <1>1, <2>3 DEF Manager, SeekTo
  <2> HIDE DEF m
  <2>5. ftm'[a] = m /\ ftm'[b] = ftm[b]
    BY <1>1, <2>2, AtPeer
  <2>6. QED
    BY <2>4, <2>5 DEF Sending
<1>5. CASE Receiving(a)
  <2>1. /\ Sending(a) => ftm[a].hash = <<>>
        /\ offset = ftm[b].received /\ ftm[b].hash = <<>>
    BY <1>2, <1>5 DEF Session, Opening
  <2>2. Skipped(a) = ftm[b].received
    BY <1>1, <2>1 DEF Skipped
  <2>3. Sending(a) => /\ Skipped(a) <= ftm'[a].pos
                      /\ PartOf(ftm'[a].hash, s, Skipped(a), ftm'[a].pos)
    BY <1>1, <1>4, <2>1, <2>2, NothingIsPart
  <2>4. /\ Skipped(a)' = Skipped(a) /\ Reach(a)' = Reach(a)
        /\ Ending(a)' <=> Ending(a)
    BY <1>3, <1>4 DEF Skipped, Reach, Ending, FirstIs
  <2>5. QED
    BY <1>3, <1>4, <1>5, <2>3, <2>4 DEF Progress
<1>6. CASE ~Receiving(a)
  BY <1>4, <1>6 DEF Progress, Receiving
<1>7. QED
  BY <1>5, <1>6

LEMMA ProgressReceiveMetadata ==
  ASSUME LinkInv, ~DiskFails, Downloads,
         \A t, u \in Sources : NameOf[t] = NameOf[u] => t = u,
         NEW a \in Peers, NEW s \in Sources, Session(a, s),
         NEW p \in Peers, ReceiveMetadata(p)
  PROVE  Progress(a, s)' /\ Downloads' /\ verdict' = verdict
<1> DEFINE b == Other(a)
           path == DownloadPath(NameOf[s])
           file == disk[b][path]
           kept == IF FileSize(file) > Size[s] \/ file = None THEN <<>>
                   ELSE file
           accept == [type |-> "accept_transfer", offset |-> Len(kept)]
<1>1. /\ IInv /\ b \in Peers /\ b # a /\ Other(b) = a /\ up \in BOOLEAN
      /\ binary \in [Peers -> Seq(Block)] /\ Len(binary[b]) \in Nat
  BY SessionTypes
<1>2. p = b /\ Announcing(a) /\ control[b][1].source = s
  BY <1>1, SessionReceiveMetadata
<1>3. binary[b] = <<>> /\ Len(binary[b]) = 0
  BY <1>1, <1>2 DEF Session, Opening
<1>4. /\ kept \in Seq(Block) /\ ftm'[a] = ftm[a] /\ disk'[a] = disk[a]
      /\ ftm'[b].file = path /\ ftm'[b].hash = <<>>
      /\ ftm'[b].received = Len(kept) /\ ftm'[b].expectedHash = None
      /\ disk'[b] = [disk[b] EXCEPT ![path] = kept]
      /\ NameOf[s] \in Names
  <2>1. /\ IInv /\ ReceiveMetadata(b) /\ Other(b) = a /\ b \in Peers
        /\ control[b][1].source = s
    BY <1>1, <1>2
  <2> DEFINE t == control[b][1].source
             target == DownloadPath(NameOf[t])
             old == disk[b][target]
             left == IF FileSize(old) > Size[t] \/ old = None THEN <<>> ELSE old
  <2>2. /\ left \in Seq(Block) /\ ftm'[Other(b)] = ftm[Other(b)]
        /\ disk'[Other(b)] = disk[Other(b)]
        /\ ftm'[b].file = target /\ ftm'[b].hash = <<>>
        /\ ftm'[b].received = Len(left) /\ ftm'[b].expectedHash = None
        /\ disk'[b] = [disk[b] EXCEPT ![target] = left]
        /\ NameOf[t] \in Names
    BY <2>1, MetadataStep, Zenon
  <2>3. t = s /\ Other(b) = a
    BY <2>1
  <2>4. QED
    BY <2>2, <2>3, Zenon
<1>5. UNCHANGED <<binary, up, verdict>>
  BY DEF ReceiveMetadata
<1>6. Size[s] \in Nat /\ Len(kept) \in 0..Size[s] /\ PartOf(kept, s, 0, Len(kept))
  <2>1. CASE kept = <<>>
    BY <2>1, ContentIsPart, NothingIsPart
  <2>2. CASE kept = file /\ file # None /\ ~(FileSize(file) > Size[s])
    <3>1. \E t \in Sources : \E j \in 0..Size[t] :
            NameOf[t] = NameOf[s] /\ PartOf(file, t, 0, j)
      BY <1>1, <1>4, <2>2 DEF Downloads
    <3>2. PICK j \in 0..Size[s] : PartOf(file, s, 0, j)
      BY <3>1
    <3>3. Size[s] \in Nat
      BY ContentIsPart
    <3> HIDE DEF kept, file
    <3>4. Len(file) = j /\ j \in Nat /\ j <= Size[s]
      BY <3>2, <3>3 DEF PartOf
    <3>5. QED
      BY <2>2, <3>2, <3>3, <3>4
  <2>3. QED
    BY <2>1, <2>2
<1> HIDE DEF kept, file
<1>7. Downloads'
  <2>1. disk[b] \in [Paths -> Seq(Block) \cup {None}] /\ path \in Paths
    BY <1>1, <1>4 DEF IInv, TypeOK, Paths
  <2>2. /\ disk'[b][path] = kept
        /\ \A other \in Paths : other # path => disk'[b][other] = disk[b][other]
    BY <1>4, <2>1
  <2>3. \E j \in 0..Size[s] : PartOf(disk'[b][path], s, 0, j)
    BY <1>6, <2>2
  <2> HIDE DEF path
  <2>4. disk'[Other(b)] = disk[Other(b)]
    BY <1>1, <1>4
  <2>5. QED
    BY <1>1, <2>2, <2>3, <2>4, ChangedDownload DEF path
<1>8. Progress(a, s)'
  <2>1. /\ Skipped(a)' = Len(kept) /\ Reach(a)' = Len(kept)
        /\ Len(kept) \in Nat /\ Len(kept) <= Size[s]
    <3>1. ftm'[b].received = Len(kept) /\ Len(ftm'[b].hash) = 0
          /\ Len(binary'[b]) = 0
      BY <1>3, <1>4, <1>5
    <3>2. Len(kept) \in Nat /\ Len(kept) <= Size[s]
      BY <1>6
    <3>3. QED
      BY <3>1, <3>2 DEF Skipped, Reach
  <2>2. PartOf(disk'[b][ftm'[b].file], s, 0, ftm'[b].received)
    <3>1. disk[b] \in [Paths -> Seq(Block) \cup {None}] /\ path \in Paths
      BY <1>1, <1>4 DEF IInv, TypeOK, Paths
    <3>2. disk'[b][path] = kept
      BY <1>4, <3>1
    <3>3. QED
      BY <1>4, <1>6, <3>2
  <2>3. /\ PartOf(<<>>, s, Len(kept), Len(kept))
        /\ ftm'[b].hash = <<>> /\ binary'[b] = <<>>
        /\ ftm'[b].received = Len(kept)
    BY <1>3, <1>4, <1>5, <2>1, NothingIsPart
  <2>4. Receiving(a)' => ~Ending(a)' /\ (up' => Accepting(a)' \/ ~Sending(a)')
    <3>1. ~Ending(a)' /\ (up => Accepting(a)')
      BY SessionReceiveMetadata
    <3>2. QED
      BY <1>5, <3>1
  <2>5. QED
    BY <1>4, <2>1, <2>2, <2>3, <2>4 DEF Progress
<1>9. QED
  BY <1>5, <1>7, <1>8

LEMMA ProgressHandleBinaryChunk ==
  ASSUME LinkInv, ~DiskFails, Downloads, JudgedFileIsExact,
         NEW a \in Peers, NEW s \in Sources, Session(a, s), Progress(a, s),
         NEW p \in Peers, HandleBinaryChunk(p)
  PROVE  Progress(a, s)' /\ Downloads' /\ JudgedFileIsExact'
<1> DEFINE b == Other(a)
           chunk == binary[b][1]
           path == ftm[b].file
           m == WithChunk(ftm[b], chunk)
           written == Append(disk[b][path], chunk)
           files == [disk[b] EXCEPT ![path] = written]
<1>1. /\ IInv /\ b \in Peers /\ b # a /\ Other(b) = a /\ Peers = {a, b}
      /\ binary \in [Peers -> Seq(Block)] /\ Len(binary[b]) \in Nat
      /\ ftm[b].received \in Nat /\ up \in BOOLEAN
  BY SessionTypes
<1>2. p = b /\ ~Accepting(a) /\ ~Announcing(a)
  BY SessionHandleBinaryChunk
<1>3. UNCHANGED <<control, up, announced>>
  BY DEF HandleBinaryChunk
<1>4. CASE ~Receiving(a)
  <2>1. UNCHANGED <<ftm, disk, verdict>>
    BY <1>1, <1>2, <1>4, ChunkStep DEF Receiving
  <2>2. QED
    BY <1>4, <2>1, SameDownloads DEF Progress, Receiving, JudgedFileIsExact
<1>5. CASE Receiving(a)
  <2>1. /\ binary[b] # <<>> /\ chunk \in Block /\ binary' = Taken(binary, b)
        /\ path \in Paths /\ disk[b][path] \in Seq(Block)
        /\ ftm[b].hash \in Seq(Block)
        /\ m \in Manager /\ m.hash = Append(ftm[b].hash, chunk)
        /\ m.hash \in Seq(Block) /\ m.received = ftm[b].received + 1
        /\ m.state = "Receiving" /\ m.file = path
        /\ m.expectedSize = ftm[b].expectedSize
        /\ m.expectedHash = ftm[b].expectedHash
        /\ written \in Seq(Block) /\ CheckCompletion(b, m, files)
    BY <1>1, <1>2, <1>5, ChunkStep DEF Receiving
  <2>2. /\ Skipped(a) >= 0 /\ Reach(a) <= Size[s]
        /\ PartOf(disk[b][path], s, 0, ftm[b].received)
        /\ PartOf(ftm[b].hash, s, Skipped(a), ftm[b].received)
        /\ PartOf(binary[b], s, ftm[b].received, Reach(a))
    BY <1>5 DEF Progress
  <2>3. path = DownloadPath(NameOf[s]) /\ ftm[b].expectedSize = Size[s]
        /\ announced[b] = s /\ Size[s] \in Nat
    BY <1>5, ContentIsPart DEF Session, Sides
  <2>4. /\ Skipped(a) \in Int /\ Skipped(a) <= ftm[b].received
        /\ Len(ftm[b].hash) = ftm[b].received - Skipped(a)
        /\ Len(ftm[b].hash) \in Nat
    BY <1>1, <2>1, <2>2 DEF Skipped
  <2>5. Len(binary[b]) > 0 /\ Reach(a) = ftm[b].received + Len(binary[b])
    BY <1>1, <2>1, TakenMessages DEF Reach
  <2>6. chunk = <<s, ftm[b].received + 1>>
    BY <1>1, <2>2, <2>5 DEF PartOf
  <2>7. /\ PartOf(written, s, 0, ftm[b].received + 1)
        /\ PartOf(m.hash, s, Skipped(a), ftm[b].received + 1)
    <3>1. <<s, ftm[b].received + 1>> \in Block /\ 0 <= ftm[b].received
      BY <1>1, ContentIsPart
    <3>2. PartOf(Append(disk[b][path], <<s, ftm[b].received + 1>>), s, 0,
                 ftm[b].received + 1)
      BY <1>1, <2>1, <2>2, <3>1, PartAppended
    <3>3. PartOf(Append(ftm[b].hash, <<s, ftm[b].received + 1>>), s, Skipped(a),
                 ftm[b].received + 1)
      BY <1>1, <2>1, <2>2, <2>4, <3>1, PartAppended
    <3>4. QED
      BY <2>1, <2>6, <3>2, <3>3
  <2>8. ftm[b].received + 1 \in 0..Size[s]
    BY <1>1, <2>2, <2>3, <2>5
  <2>9. /\ files[path] = written
        /\ \A other \in Paths : other # path => files[other] = disk[b][other]
    <3>1. disk[b] \in [Paths -> Seq(Block) \cup {None}]
      BY <1>1 DEF IInv, TypeOK
    <3>2. QED
      BY <2>1, <3>1
  <2> HIDE DEF m, files, written, chunk, path
  <2>10. m.hash # None /\ written # None
    BY <2>1, BlocksAreNotNone
  <2>11. /\ ftm'[a] = ftm[a] /\ disk'[a] = disk[a] /\ verdict'[a] = verdict[a]
         /\ \/ /\ ~Due(m) /\ ftm'[b] = m /\ disk'[b] = files
               /\ verdict'[b] = verdict[b]
            \/ /\ Due(m) /\ ftm'[b].state = "Idle"
               /\ disk'[b] \in {files, [files EXCEPT ![path] = None]}
               /\ verdict'[b].source = s
               /\ verdict'[b].content = written
               /\ verdict'[b].sent = ftm[b].expectedHash
               /\ verdict'[b].got = m.hash
    <3>1. Other(b) = a /\ m.hash # None /\ files[m.file] = written
      BY <1>1, <2>1, <2>9, <2>10
    <3>2. /\ ftm'[Other(b)] = ftm[Other(b)] /\ disk'[Other(b)] = disk[Other(b)]
          /\ verdict'[Other(b)] = verdict[Other(b)]
          /\ \/ /\ ~Due(m) /\ ftm'[b] = m /\ disk'[b] = files
                /\ verdict'[b] = verdict[b]
             \/ m.hash = None
             \/ /\ Due(m) /\ ftm'[b].state = "Idle"
                /\ disk'[b] \in {files, [files EXCEPT ![m.file] = None]}
                /\ verdict'[b].source = announced[b]
                /\ verdict'[b].content = files[m.file]
                /\ verdict'[b].sent = m.expectedHash
                /\ verdict'[b].got = m.hash
      BY <1>1, <2>1, CompletionStep
    <3>3. QED
      BY <2>1, <2>3, <3>1, <3>2
  <2>12. Downloads'
    <3>1. disk'[b] = files \/ disk'[b] = [files EXCEPT ![path] = None]
      BY <2>11
    <3>2. files \in [Paths -> Seq(Block) \cup {None}]
      BY <1>1, <2>1 DEF files, IInv, TypeOK
    <3>3. /\ disk'[b][path] = None \/ disk'[b][path] = written
          /\ \A other \in Paths : other # path => disk'[b][other] = disk[b][other]
      BY <2>1, <2>9, <3>1, <3>2
    <3>4. \/ disk'[b][path] = None
          \/ \E j \in 0..Size[s] : PartOf(disk'[b][path], s, 0, j)
      BY <2>7, <2>8, <3>3
    <3>5. disk'[Other(b)] = disk[Other(b)]
      BY <1>1, <2>11
    <3>6. QED
      BY <1>1, <2>3, <3>3, <3>4, <3>5, ChangedDownload
  <2>13. CASE ~Due(m) /\ ftm'[b] = m /\ disk'[b] = files /\ verdict'[b] = verdict[b]
    <3>1. JudgedFileIsExact'
      BY <1>1, <2>11, <2>13 DEF JudgedFileIsExact
    <3>2. /\ Skipped(a)' = Skipped(a) /\ Reach(a)' = Reach(a)
          /\ PartOf(binary'[b], s, ftm[b].received + 1, Reach(a))
      <4>1. /\ Len(binary'[b]) = Len(binary[b]) - 1
            /\ \A n \in 1..Len(binary[b]) - 1 : binary'[b][n] = binary[b][n + 1]
        BY <1>1, <2>1, TakenMessages
      <4>2. ftm'[b].received = ftm[b].received + 1
        BY <2>1, <2>13
      <4>3. Reach(a)' = Reach(a)
        <5>1. Len(binary[b]) \in Nat /\ ftm[b].received \in Nat
          BY <1>1
        <5>2. (ftm[b].received + 1) + (Len(binary[b]) - 1)
                = ftm[b].received + Len(binary[b])
          BY <5>1
        <5>3. QED
          BY <4>1, <4>2, <5>2, Zenon DEF Reach
      <4>4. Len(m.hash) = Len(ftm[b].hash) + 1
        BY <2>1, AppendElements
      <4>5. Skipped(a)' = Skipped(a)
        <5>1. Len(ftm[b].hash) \in Nat /\ ftm[b].received \in Nat
          BY <1>1, <2>4
        <5>2. Len(ftm'[b].hash) = Len(ftm[b].hash) + 1
          BY <2>13, <4>4
        <5>3. (ftm[b].received + 1) - (Len(ftm[b].hash) + 1)
                = ftm[b].received - Len(ftm[b].hash)
          BY <5>1
        <5>4. QED
          BY <4>2, <5>2, <5>3, Zenon DEF Skipped
      <4>6. PartOf(binary'[b], s, ftm[b].received + 1, Reach(a))
        <5>1. \A n \in 1..Len(binary[b]) : binary[b][n] = <<s, ftm[b].received + n>>
          BY <2>2, <2>5 DEF PartOf
        <5>2. ASSUME NEW n \in 1..Len(binary[b]) - 1
              PROVE  binary'[b][n] = <<s, (ftm[b].received + 1) + n>>
          <6>1. Len(binary[b]) \in Nat /\ ftm[b].received \in Nat
            BY <1>1
          <6>2. binary'[b][n] = binary[b][n + 1]
            BY <4>1
          <6>3. n + 1 \in 1..Len(binary[b])
            BY <6>1
          <6>4. ftm[b].received + (n + 1) = (ftm[b].received + 1) + n
            BY <6>1
          <6>5. QED
            BY <5>1, <6>2, <6>3, <6>4
        <5>3. Reach(a) - (ftm[b].received + 1) = Len(binary[b]) - 1
          BY <1>1, <2>5
        <5>4. QED
          BY <4>1, <5>2, <5>3 DEF PartOf
      <4>7. QED
        BY <4>3, <4>5, <4>6
    <3>3. Ending(a)' <=> Ending(a)
      BY <1>3, SameCommands
    <3>4. /\ Accepting(a)' <=> Accepting(a)
          /\ Sending(a)' <=> Sending(a)
      BY <1>3, <2>11, SameCommands DEF Sending
    <3>5. /\ PartOf(disk'[b][ftm'[b].file], s, 0, ftm'[b].received)
          /\ PartOf(ftm'[b].hash, s, Skipped(a), ftm'[b].received)
          /\ ftm'[b].received = ftm[b].received + 1
          /\ ftm'[b].expectedHash = ftm[b].expectedHash
      BY <2>1, <2>7, <2>9, <2>13
    <3>6. QED
      BY <1>3, <1>5, <2>2, <2>11, <2>12, <3>1, <3>2, <3>3, <3>4, <3>5
         DEF Progress
  <2>14. CASE /\ Due(m) /\ ftm'[b].state = "Idle"
              /\ verdict'[b].source = s
              /\ verdict'[b].content = written
              /\ verdict'[b].sent = ftm[b].expectedHash
              /\ verdict'[b].got = m.hash
    <3>1. ftm[b].received + 1 = Size[s] /\ ftm[b].expectedHash # None
      BY <1>1, <2>1, <2>3, <2>8, <2>14 DEF Due
    <3>2. PartOf(ftm[b].expectedHash, s, Skipped(a), Size[s])
      BY <1>5, <3>1 DEF Progress
    <3>3. written = Content(s)
      BY <2>1, <2>3, <2>7, <3>1, ContentIsPart, PartsAreEqual
    <3>4. ftm[b].expectedHash \in Seq(Block)
      BY <1>1, <3>1 DEF IInv, TypeOK, Manager
    <3>5. m.hash = ftm[b].expectedHash
      <4>1. PartOf(m.hash, s, Skipped(a), Size[s]) /\ m.hash \in Seq(Block)
        BY <2>1, <2>7, <3>1
      <4>2. Skipped(a) \in Int /\ Size[s] \in Int
        BY <2>3, <2>4
      <4>3. QED
        BY <3>2, <3>4, <4>1, <4>2, PartsAreEqual
    <3>6. JudgedFileIsExact'
      BY <1>1, <2>11, <2>14, <3>3, <3>5 DEF JudgedFileIsExact
    <3>7. Progress(a, s)'
      BY <2>14 DEF Progress, Receiving
    <3>8. QED
      BY <2>12, <3>6, <3>7
  <2>15. QED
    BY <2>11, <2>13, <2>14
<1>6. QED
  BY <1>4, <1>5

LEMMA ProgressReceiveComplete ==
  ASSUME LinkInv, Downloads, JudgedFileIsExact,
         NEW a \in Peers, NEW s \in Sources, Session(a, s), Progress(a, s),
         NEW p \in Peers, ReceiveComplete(p)
  PROVE  Progress(a, s)' /\ Downloads' /\ JudgedFileIsExact'
<1> DEFINE b == Other(a)
           hash == control[b][1].hash
           m == [ftm[b] EXCEPT !.expectedHash = hash]
           path == ftm[b].file
<1>1. /\ IInv /\ b \in Peers /\ b # a /\ Other(b) = a /\ Peers = {a, b}
      /\ ftm[b].received \in Nat /\ up \in BOOLEAN
      /\ control \in [Peers -> Seq(Message)]
  BY SessionTypes
<1>2. p = b /\ Ending(a) /\ Len(control[b]) = 1
  BY SessionReceiveComplete
     DEF Session, Queues, ToReceiver, Ending, FirstIs
<1>3. /\ control' = Taken(control, b) /\ m \in Manager /\ m.hash = ftm[b].hash
      /\ m.received = ftm[b].received /\ m.expectedHash = hash
      /\ m.expectedSize = ftm[b].expectedSize /\ hash # None
      /\ m.state = ftm[b].state /\ m.file = path /\ hash \in Seq(Block)
      /\ CheckCompletion(b, m, disk[b])
  BY <1>1, <1>2, CompleteStep
<1>4. UNCHANGED <<binary, up, announced>>
  BY DEF ReceiveComplete
<1>5. ~Sending(a)
  BY <1>2 DEF Session, Leaving
<1>6. Len(control'[b]) = 0
  <2>1. control[b] # <<>>
    BY <1>2
  <2>2. Len(Taken(control, b)[b]) = Len(control[b]) - 1
    BY <1>1, <2>1, TakenCommands
  <2>3. QED
    BY <1>2, <1>3, <2>2
<1> HIDE DEF m, hash, path
<1>7. /\ ftm'[a] = ftm[a] /\ disk'[a] = disk[a] /\ verdict'[a] = verdict[a]
      /\ \/ /\ ~Due(m) /\ ftm'[b] = m /\ disk'[b] = disk[b]
            /\ verdict'[b] = verdict[b]
         \/ /\ m.hash = None /\ UNCHANGED <<ftm, disk, verdict>>
         \/ /\ Due(m) /\ m.hash # None /\ ftm'[b].state = "Idle"
            /\ disk'[b] \in {disk[b], [disk[b] EXCEPT ![path] = None]}
            /\ verdict'[b].source = announced[b]
            /\ verdict'[b].content = disk[b][path]
            /\ verdict'[b].sent = hash /\ verdict'[b].got = ftm[b].hash
  BY <1>1, <1>3, CompletionStep
<1>8. ~Sending(a)' /\ ~Ending(a)'
  BY <1>5, <1>6, <1>7 DEF Sending, Ending, FirstIs
<1>9. Receiving(a) <=> ftm[b].hash # None
  BY <1>1 DEF Receiving, Session, Sides, IInv, WorkerOwnsResources
<1>10. CASE ~Receiving(a)
  <2>1. m.hash = None /\ m.state = "Idle"
    BY <1>3, <1>9, <1>10 DEF Receiving, Session, Sides
  <2>2. disk' = disk /\ verdict' = verdict /\ ftm'[b].state = "Idle"
    <3>1. disk'[b] = disk[b] /\ verdict'[b] = verdict[b] /\ ftm'[b].state = "Idle"
      BY <1>7, <1>10, <2>1 DEF Receiving, Session, Sides
    <3>2. CheckCompletion(b, m, disk[b]) => ~(Due(m) /\ m.hash # None)
      BY <2>1
    <3>3. /\ disk' = disk \/ disk' = [disk EXCEPT ![b] = disk[b]]
          /\ verdict' = verdict
      BY <1>3, <2>1 DEF CheckCompletion
    <3>4. disk \in [Peers -> [Paths -> Seq(Block) \cup {None}]]
      BY <1>1 DEF IInv, TypeOK
    <3>5. QED
      BY <3>1, <3>3, <3>4
  <2>3. QED
    BY <2>2, SameDownloads DEF Progress, Receiving, JudgedFileIsExact
<1>11. CASE Receiving(a)
  <2>1. /\ Skipped(a) >= 0 /\ Reach(a) <= Size[s]
        /\ PartOf(disk[b][path], s, 0, ftm[b].received)
        /\ PartOf(ftm[b].hash, s, Skipped(a), ftm[b].received)
        /\ PartOf(hash, s, Skipped(a), Size[s])
        /\ PartOf(binary[b], s, ftm[b].received, Reach(a))
    BY <1>2, <1>11 DEF Progress, path, hash
  <2>2. path = DownloadPath(NameOf[s]) /\ ftm[b].expectedSize = Size[s]
        /\ announced[b] = s /\ Size[s] \in Nat
    BY <1>11, ContentIsPart DEF Session, Sides, path
  <2>3. ftm[b].received <= Size[s] /\ ftm[b].received \in 0..Size[s]
    <3>1. Len(binary[b]) \in Nat
      BY SessionTypes
    <3>2. QED
      BY <1>1, <2>1, <2>2, <3>1 DEF Reach
  <2>4. /\ path \in Paths /\ disk[b][path] \in Seq(Block)
        /\ ftm[b].hash \in Seq(Block)
        /\ disk[b] \in [Paths -> Seq(Block) \cup {None}]
    BY <1>1, <1>11 DEF IInv, TypeOK, WorkerOwnsResources, Manager, Receiving, path
  <2>5. Skipped(a) \in Int
    BY <1>1, <2>4 DEF Skipped
  <2>6. Downloads'
    <3>1. disk'[b] = disk[b] \/ disk'[b] = [disk[b] EXCEPT ![path] = None]
      BY <1>7
    <3>2. /\ disk'[b][path] = None \/ disk'[b][path] = disk[b][path]
          /\ \A other \in Paths : other # path => disk'[b][other] = disk[b][other]
      BY <2>4, <3>1
    <3>3. \/ disk'[b][path] = None
          \/ \E j \in 0..Size[s] : PartOf(disk'[b][path], s, 0, j)
      BY <2>1, <2>3, <3>2
    <3>4. disk'[Other(b)] = disk[Other(b)]
      BY <1>1, <1>7
    <3>5. QED
      BY <1>1, <2>2, <3>2, <3>3, <3>4, ChangedDownload
  <2>7. CASE ~Due(m) /\ ftm'[b] = m /\ disk'[b] = disk[b] /\ verdict'[b] = verdict[b]
    <3>1. JudgedFileIsExact'
      BY <1>1, <1>7, <2>7 DEF JudgedFileIsExact
    <3>2. Skipped(a)' = Skipped(a) /\ Reach(a)' = Reach(a)
      BY <1>3, <1>4, <2>7 DEF Skipped, Reach
    <3>3. /\ ftm'[b].file = path /\ ftm'[b].received = ftm[b].received
          /\ ftm'[b].hash = ftm[b].hash /\ ftm'[b].expectedHash = hash
          /\ disk'[b] = disk[b] /\ binary'[b] = binary[b]
      BY <1>3, <1>4, <2>7
    <3>4. Progress(a, s)'
      BY <1>8, <2>1, <3>2, <3>3 DEF Progress
    <3>5. QED
      BY <2>6, <3>1, <3>4
  <2>8. CASE /\ Due(m) /\ m.hash # None /\ ftm'[b].state = "Idle"
             /\ verdict'[b].source = announced[b]
             /\ verdict'[b].content = disk[b][path]
             /\ verdict'[b].sent = hash /\ verdict'[b].got = ftm[b].hash
    <3>1. ftm[b].received = Size[s]
      BY <1>1, <1>3, <2>2, <2>3, <2>8 DEF Due
    <3>2. disk[b][path] = Content(s)
      BY <2>1, <2>2, <2>4, <3>1, ContentIsPart, PartsAreEqual
    <3>3. ftm[b].hash = hash
      <4>1. PartOf(ftm[b].hash, s, Skipped(a), Size[s])
        BY <2>1, <3>1
      <4>2. QED
        BY <1>3, <2>1, <2>2, <2>4, <2>5, <4>1, PartsAreEqual
    <3>4. JudgedFileIsExact'
      BY <1>1, <1>7, <2>2, <2>8, <3>2, <3>3 DEF JudgedFileIsExact
    <3>5. Progress(a, s)'
      BY <2>8 DEF Progress, Receiving
    <3>6. QED
      BY <2>6, <3>4, <3>5
  <2>9. QED
    BY <1>3, <1>7, <1>9, <1>11, <2>7, <2>8
<1>12. QED
  BY <1>10, <1>11

LEMMA ProgressEndedEarly ==
  ASSUME LinkInv, NEW a \in Peers, NEW s \in Sources, Session(a, s),
         Progress(a, s), NEW p \in Peers,
         \/ ReceiveCancel(p) \/ OnPeerDisconnected(p)
         \/ CancelTransfer(p) /\ ftm[p].state # "Idle"
  PROVE  Progress(a, s)'
<1> DEFINE b == Other(a)
<1>1. /\ IInv /\ b \in Peers /\ b # a /\ Other(b) = a /\ Peers = {a, b}
      /\ control \in [Peers -> Seq(Message)] /\ up \in BOOLEAN
  BY SessionTypes
<1>2. /\ ftm'[p].state = "Idle" /\ ftm'[Other(p)] = ftm[Other(p)]
      /\ UNCHANGED <<disk, binary, up>>
  BY <1>1, CleanedPeer
     DEF ReceiveCancel, OnPeerDisconnected, CancelTransfer, link
<1>3. CASE p = b
  BY <1>2, <1>3 DEF Progress, Receiving
<1>4. CASE p = a
  <2>1. ~Sending(a)' /\ ftm'[b] = ftm[b]
    BY <1>2, <1>4 DEF Sending
  <2>2. CASE ReceiveCancel(a)
    <3>1. control[a] # <<>> /\ control' = Taken(control, a)
      BY <2>2 DEF ReceiveCancel, Pending
    <3>2. control'[b] = control[b]
      BY <1>1, <3>1, TakenCommands
    <3>3. QED
      BY <1>2, <2>1, <3>2, SameProgress DEF Ending
  <2>3. CASE OnPeerDisconnected(a)
    <3>1. control' = control
      BY <2>3 DEF OnPeerDisconnected, link
    <3>2. QED
      BY <1>2, <2>1, <3>1, SameProgress DEF Ending
  <2>4. CASE CancelTransfer(a) /\ ftm[a].state # "Idle"
    <3>1. Session(a, s)'
      BY <2>4, SessionCancelTransfer
    <3>2. ~Ending(a)'
      BY <2>4, SessionCancelTransfer DEF Sending
    <3>3. QED
      BY <1>2, <2>1, <3>2, SameProgress
  <2>5. QED
    BY <1>4, <2>2, <2>3, <2>4
<1>5. QED
  BY <1>1, <1>3, <1>4

LEMMA ProgressLess ==
  ASSUME LinkInv, NEW a \in Peers, NEW s \in Sources, Session(a, s),
         Progress(a, s), ~up', UNCHANGED <<ftm, disk>>,
         Ending(a)' => Ending(a) /\ control'[Other(a)] = control[Other(a)],
         Len(binary'[Other(a)]) \in 0..Len(binary[Other(a)]),
         \A n \in 1..Len(binary'[Other(a)]) :
           binary'[Other(a)][n] = binary[Other(a)][n]
  PROVE  Progress(a, s)'
<1> DEFINE b == Other(a)
<1>1. CASE Receiving(a)
  <2>1. /\ Len(binary[b]) \in Nat /\ ftm[b].received \in Nat
        /\ Size[s] \in Nat
    BY SessionTypes, ContentIsPart
  <2>2. /\ Reach(a) = ftm[b].received + Len(binary[b])
        /\ Reach(a)' = ftm[b].received + Len(binary'[b])
        /\ Skipped(a)' = Skipped(a)
    BY DEF Reach, Skipped
  <2>3. Reach(a) <= Size[s] /\ PartOf(binary[b], s, ftm[b].received, Reach(a))
    BY <1>1 DEF Progress
  <2>4. Reach(a)' <= Size[s]
    BY <2>1, <2>2, <2>3
  <2>5. /\ Reach(a)' - ftm[b].received = Len(binary'[b])
        /\ Reach(a) - ftm[b].received = Len(binary[b])
    BY <2>1, <2>2
  <2>6. PartOf(binary'[b], s, ftm[b].received, Reach(a)')
    <3>1. \A n \in 1..Len(binary[b]) : binary[b][n] = <<s, ftm[b].received + n>>
      BY <2>3, <2>5 DEF PartOf
    <3>2. \A n \in 1..Len(binary'[b]) : n \in 1..Len(binary[b])
      BY <2>1
    <3>3. \A n \in 1..Len(binary'[b]) :
            binary'[b][n] = <<s, ftm[b].received + n>>
      BY <3>1, <3>2
    <3>4. QED
      BY <2>5, <3>3 DEF PartOf
  <2>7. QED
    BY <1>1, <2>2, <2>4, <2>6 DEF Progress
<1>2. CASE ~Receiving(a)
  BY <1>2 DEF Progress, Receiving
<1>3. QED
  BY <1>1, <1>2

LEMMA ProgressOfNetwork ==
  ASSUME LinkInv, NEW a \in Peers, NEW s \in Sources, Session(a, s),
         Progress(a, s),
         \/ \E p \in Peers : Drain(p) \/ LoseInFlight(p)
         \/ LinkLost
  PROVE  Progress(a, s)'
<1> DEFINE b == Other(a)
<1>1. /\ IInv /\ b \in Peers /\ b # a /\ Other(b) = a /\ Peers = {a, b}
      /\ control \in [Peers -> Seq(Message)] /\ binary \in [Peers -> Seq(Block)]
      /\ Len(binary[b]) \in Nat /\ buffered[a] \in Nat
      /\ buffered[a] <= Len(binary[b])
  BY SessionTypes
<1>2. ASSUME NEW p \in Peers, Drain(p)
      PROVE  Progress(a, s)'
  BY <1>2, SameProgress DEF Drain, Ending, Accepting, Sending
<1>3. ASSUME NEW p \in Peers, LoseInFlight(p)
      PROVE  Progress(a, s)'
  <2>1. ~up' /\ UNCHANGED <<ftm, disk>>
    BY <1>3 DEF LoseInFlight
  <2>2. CASE binary[p] # <<>> /\ binary' = DropLast(binary, p) /\ control' = control
    <3>1. /\ Len(binary[p]) > 0
          /\ Len(binary'[p]) = Len(binary[p]) - 1
          /\ \A n \in 1..Len(binary[p]) - 1 : binary'[p][n] = binary[p][n]
      BY <1>1, <2>2, DroppedMessages
    <3>2. p = b
      BY <1>1, <2>2 DEF Session, Queues
    <3>3. /\ Len(binary'[b]) \in 0..Len(binary[b])
          /\ \A n \in 1..Len(binary'[b]) : binary'[b][n] = binary[b][n]
      BY <1>1, <3>1, <3>2
    <3>4. QED
      BY <2>1, <2>2, <3>3, ProgressLess DEF Ending
  <2>3. CASE control[p] # <<>> /\ control' = DropLast(control, p) /\ binary' = binary
    <3>1. Len(binary'[b]) \in 0..Len(binary[b])
      BY <1>1, <2>3
    <3>2. Ending(a)' => control'[b] = control[b]
      <4>1. /\ Len(control'[p]) = Len(control[p]) - 1
            /\ Len(control[p]) = 2 => control'[p][1] = control[p][1]
            /\ control'[Other(p)] = control[Other(p)] /\ Len(control[p]) > 0
        BY <1>1, <2>3, DroppedCommands
      <4>2. CASE p = a
        BY <4>1, <4>2
      <4>3. CASE p = b
        <5>1. \/ Len(control[b]) = 1
              \/ Len(control[b]) = 2 /\ control[b][1].type = "metadata"
          BY <4>1, <4>3 DEF Session, Queues, ToReceiver
        <5>2. \/ Len(control'[b]) = 0
              \/ control'[b][1].type = "metadata"
          <6>1. Len(control[b]) = 1 => Len(control'[b]) = 0
            BY <4>1, <4>3
          <6>2. Len(control[b]) = 2 => control'[b][1] = control[b][1]
            BY <4>1, <4>3
          <6>3. QED
            BY <5>1, <6>1, <6>2
        <5>3. QED
          BY <5>2 DEF Ending, FirstIs
      <4>4. QED
        BY <1>1, <4>2, <4>3
    <3>3. QED
      BY <2>1, <2>3, <3>1, <3>2, ProgressLess DEF Ending
  <2>4. QED
    BY <1>3, <2>2, <2>3 DEF LoseInFlight
<1>4. CASE LinkLost
  <2>1. /\ ~up' /\ UNCHANGED <<ftm, disk, control>>
        /\ binary'[b] = SubSeq(binary[b], 1, Len(binary[b]) - buffered[a])
    BY <1>1, <1>4 DEF LinkLost, Arrived
  <2> DEFINE k == Len(binary[b]) - buffered[a]
  <2>2. k \in Nat /\ k <= Len(binary[b]) /\ binary[b] \in Seq(Block)
    BY <1>1
  <2>3. /\ Len(SubSeq(binary[b], 1, k)) = IF 1 <= k THEN k - 1 + 1 ELSE 0
        /\ \A n \in 1..k - 1 + 1 :
             SubSeq(binary[b], 1, k)[n] = binary[b][1 + n - 1]
    <3>1. \A n \in 1..k : binary[b][n] \in Block
      BY <1>1, <2>2
    <3> HIDE DEF k
    <3>2. QED
      BY <2>2, <3>1, SubSeqProperties
  <2>4. binary'[b] = SubSeq(binary[b], 1, k)
    BY <2>1
  <2> HIDE DEF k
  <2>5. /\ Len(binary'[b]) = k
        /\ \A n \in 1..k : binary'[b][n] = binary[b][n]
    BY <2>2, <2>3, <2>4
  <2>6. /\ Len(binary'[b]) \in 0..Len(binary[b])
        /\ \A n \in 1..Len(binary'[b]) : binary'[b][n] = binary[b][n]
    BY <1>1, <2>2, <2>5
  <2>7. QED
    BY <2>1, <2>6, ProgressLess DEF Ending
<1>5. QED
  BY <1>2, <1>3, <1>4

LEMMA ProgressOfWorker ==
  ASSUME LinkInv, ~DiskFails, Downloads, JudgedFileIsExact,
         \A t, u \in Sources : NameOf[t] = NameOf[u] => t = u,
         NEW a \in Peers, NEW s \in Sources, Session(a, s), Progress(a, s),
         NEW p \in Peers,
         Worker(p) \/ (CancelTransfer(p) /\ ftm[p].state # "Idle")
  PROVE  Progress(a, s)' /\ Downloads' /\ JudgedFileIsExact'
<1>1. ASSUME UNCHANGED <<disk, verdict>>
      PROVE  Downloads' /\ JudgedFileIsExact'
  BY <1>1, SameDownloads DEF JudgedFileIsExact
<1>2. CASE SendChunk(p)
  BY <1>1, <1>2, SameFiles, ProgressSendChunk, Zenon
<1>3. CASE PauseLoop(p) \/ SetBackpressure(p)
  <2>1. UNCHANGED <<ftm, disk, binary, control, up>>
    BY <1>3 DEF PauseLoop, SetBackpressure, link
  <2>2. Progress(a, s)'
    BY <2>1, SameProgress, SameCommands DEF Sending
  <2>3. QED
    BY <1>1, <1>3, <2>2, SameFiles, Zenon
<1>4. CASE FinishLoop(p)
  BY <1>1, <1>4, SameFiles, ProgressFinishLoop, Zenon
<1>5. CASE HandleBinaryChunk(p)
  BY <1>5, ProgressHandleBinaryChunk
<1>6. CASE ReceiveMetadata(p)
  <2>1. Progress(a, s)' /\ Downloads' /\ verdict' = verdict
    BY <1>6, ProgressReceiveMetadata
  <2>2. QED
    BY <2>1 DEF JudgedFileIsExact
<1>7. CASE ReceiveAccept(p)
  BY <1>1, <1>7, SameFiles, ProgressReceiveAccept, Zenon
<1>8. CASE ReceiveComplete(p)
  BY <1>8, ProgressReceiveComplete
<1>9. CASE \/ ReceiveCancel(p) \/ OnPeerDisconnected(p)
           \/ CancelTransfer(p) /\ ftm[p].state # "Idle"
  BY <1>1, <1>9, SameFiles, ProgressEndedEarly, Zenon
<1>10. QED
  BY <1>2, <1>3, <1>4, <1>5, <1>6, <1>7, <1>8, <1>9 DEF Worker

LEMMA InitProgressInv == Init => ProgressInv
<1> SUFFICES ASSUME Init PROVE ProgressInv
  OBVIOUS
<1>1. Calm /\ JudgedFileIsExact
  BY DEF Init, Calm, NewManager, JudgedFileIsExact
<1>2. QED
  BY <1>1, InitLinkInv, InitDownloads DEF ProgressInv

LEMMA NextProgressInv ==
  ASSUME ~DiskFails, \A t, u \in Sources : NameOf[t] = NameOf[u] => t = u
  PROVE  ProgressInv /\ [Next /\ Patient]_vars => ProgressInv'
<1> SUFFICES ASSUME ProgressInv, [Next /\ Patient]_vars PROVE ProgressInv'
  OBVIOUS
<1> DEFINE Step == \/ Network
                   \/ \E p \in Peers :
                        Worker(p) \/ (CancelTransfer(p) /\ ftm[p].state # "Idle")
           Some == \E a \in Peers, s \in Sources : Session(a, s) /\ Progress(a, s)
<1>1. LinkInv /\ LinkInv' /\ TypeOK
  BY NextLinkInv DEF ProgressInv, LinkInv, RolesInv, IInv
<1>2. Downloads /\ JudgedFileIsExact /\ (Calm \/ Some)
  BY DEF ProgressInv
<1>3. ASSUME UNCHANGED <<disk, verdict>>
      PROVE  Downloads' /\ JudgedFileIsExact'
  BY <1>2, <1>3, SameDownloads DEF JudgedFileIsExact
<1>4. CASE UNCHANGED vars
  <2>1. Calm' <=> Calm
    BY <1>4 DEF vars, link, Calm
  <2>2. Some' <=> Some
    BY <1>4
       DEF vars, link, history, Session, Queues, Sides, Opening, Leaving,
           Served, ToReceiver, ToSender, Sending, Receiving, Announcing, Ending,
           Cancelling, Accepting, Refusing, FirstIs, LastIs, Reach, Progress,
           Skipped
  <2>3. Downloads' /\ JudgedFileIsExact'
    BY <1>3, <1>4 DEF vars, history
  <2>4. QED
    BY <1>1, <1>2, <2>1, <2>2, <2>3 DEF ProgressInv
<1>5. CASE Step
  <2>1. CASE Calm
    <3>1. Calm' /\ UNCHANGED <<disk, verdict>>
      BY <1>1, <1>5, <2>1, CalmStep
    <3>2. QED
      BY <1>1, <1>3, <3>1 DEF ProgressInv
  <2>2. ASSUME NEW a \in Peers, NEW s \in Sources, Session(a, s), Progress(a, s)
        PROVE  ProgressInv'
    <3>1. CASE LinkRestored
      BY <1>1, <1>3, <3>1, CalmRestored DEF ProgressInv, LinkRestored, history
    <3>2. CASE (\E p \in Peers : Drain(p) \/ LoseInFlight(p)) \/ LinkLost
      <4>1. Progress(a, s)'
        BY <1>1, <2>2, <3>2, ProgressOfNetwork
      <4>2. UNCHANGED <<disk, verdict>>
        BY <3>2 DEF Drain, LoseInFlight, LinkLost, history
      <4>3. Session(a, s)'
        BY <1>1, <2>2, <3>2, SessionDrain, SessionLoseInFlight, SessionLinkLost
      <4>4. QED
        BY <1>1, <1>3, <4>1, <4>2, <4>3 DEF ProgressInv
    <3>3. ASSUME NEW p \in Peers,
                 Worker(p) \/ (CancelTransfer(p) /\ ftm[p].state # "Idle")
          PROVE  ProgressInv'
      <4>1. Progress(a, s)' /\ Downloads' /\ JudgedFileIsExact'
        BY <1>1, <1>2, <2>2, <3>3, ProgressOfWorker
      <4>2. Session(a, s)' \/ Calm'
        BY <1>1, <2>2, <3>3, SessionStep
      <4>3. QED
        BY <1>1, <4>1, <4>2 DEF ProgressInv
    <3>4. QED
      BY <1>5, <3>1, <3>2, <3>3 DEF Network
  <2>3. QED
    BY <1>2, <2>1, <2>2
<1>6. ASSUME Quiet, \A q \in Peers : ftm[q].state = "Idle",
             NEW a \in Peers, NEW s \in Outbox[a], SendFile(a, s)
      PROVE  ProgressInv'
  <2>1. Session(a, s)' /\ s \in Sources /\ ~Receiving(a)'
    BY <1>1, <1>6, SessionBegins
  <2>2. Progress(a, s)'
    BY <2>1 DEF Progress, Receiving
  <2>3. JudgedFileIsExact'
    <3>1. \A p \in Peers : verdict'[p] \in {verdict[p], None}
      BY <1>1, <1>6 DEF SendFile, ProgressInv, LinkInv, RolesInv, IInv, TypeOK
    <3>2. JudgedFileIsExact
      BY <1>1 DEF ProgressInv
    <3>3. QED
      BY <3>1, <3>2 DEF JudgedFileIsExact
  <2>4. Downloads'
    BY <1>1, <1>6, SameDownloads DEF SendFile, ProgressInv
  <2>5. LinkInv'
    BY <1>1
  <2>6. QED
    BY <2>1, <2>2, <2>3, <2>4, <2>5 DEF ProgressInv
<1>7. CASE Next /\ Patient
  <2>1. \/ Step
        \/ /\ Quiet /\ \A q \in Peers : ftm[q].state = "Idle"
           /\ \E p \in Peers : \E s \in Outbox[p] : SendFile(p, s)
    BY <1>1, <1>7, PatientSteps, Zenon
  <2>2. QED
    BY <1>5, <1>6, <2>1, Zenon
<1>8. QED
  BY <1>4, <1>7

LEMMA ProgressAlways ==
  ASSUME ~DiskFails, \A t, u \in Sources : NameOf[t] = NameOf[u] => t = u
  PROVE  PatientSpec => []ProgressInv
  BY InitProgressInv, NextProgressInv, PTL DEF PatientSpec

\* Whatever was cancelled or lost before, and wherever the download resumed, a
\* receiver judges the whole announced file, by the hash of the blocks it hashed
\* itself (filetransfermanager.cpp:129, :154 and :221); files can be opened and
\* written, and no two of them go by one name.
THEOREM JudgedFilesAreExact ==
  ASSUME ~DiskFails, \A t, u \in Sources : NameOf[t] = NameOf[u] => t = u
  PROVE  PatientSpec => []JudgedFileIsExact
<1>1. PatientSpec => []ProgressInv
  BY ProgressAlways
<1>2. ProgressInv => JudgedFileIsExact
  BY DEF ProgressInv
<1>3. QED
  BY <1>1, <1>2, PTL

-----------------------------------------------------------------------------
(* The promise made to users (HandOver), and why every step keeps it: an    *)
(* offer stands while its session lives, and within a session the blocks    *)
(* on the receiver's disk are known.                                        *)

Live(a) == Sending(a) \/ Receiving(a) \/ Announcing(a)

\* The offer that stands is that of the session, if any.
DealIsOfSession ==
  \A a \in Peers, s \in Sources :
    LinkInv /\ Session(a, s) => Deals = IF Live(a) THEN {<<a, s>>} ELSE {}

LEMMA DealsOfSession == DealIsOfSession
<1> SUFFICES ASSUME NEW a \in Peers, NEW s \in Sources, LinkInv, Session(a, s)
             PROVE  Deals = IF Live(a) THEN {<<a, s>>} ELSE {}
  BY DEF DealIsOfSession
<1> DEFINE b == Other(a)
<1>1. /\ IInv /\ b \in Peers /\ b # a /\ Other(b) = a /\ Peers = {a, b}
      /\ control[a] \in Seq(Message) /\ control[b] \in Seq(Message)
  BY SessionTypes DEF IInv, TypeOK
<1>2. Queues(a, s) /\ Sides(a, s)
  BY DEF Session
<1>3. ASSUME NEW t \in Sources
      PROVE  Announced(a, t) <=> Announcing(a) /\ t = s
  <2>1. DOMAIN control[b] = 1..Len(control[b]) /\ Len(control[b]) \in Nat
    BY <1>1
  <2>2. ToReceiver(control[b], s)
    BY <1>2 DEF Queues
  <2>3. QED
    BY <2>1, <2>2 DEF Announced, Announcing, FirstIs, ToReceiver
<1>4. ASSUME NEW t \in Sources
      PROVE  ~Announced(b, t)
  <2>1. DOMAIN control[a] = 1..Len(control[a]) /\ Len(control[a]) \in Nat
    BY <1>1
  <2>2. ToSender(control[a])
    BY <1>2 DEF Queues
  <2>3. QED
    BY <1>1, <2>1, <2>2 DEF Announced, ToSender
<1>5. ASSUME NEW t \in Sources
      PROVE  Dealing(a, t) <=> Live(a) /\ t = s
  <2>1. SourcePath(t) = SourcePath(s) <=> t = s
    BY DEF SourcePath
  <2>2. QED
    BY <1>2, <1>3, <2>1 DEF Dealing, Live, Sides, Sending, Receiving
<1>6. ASSUME NEW t \in Sources
      PROVE  ~Dealing(b, t)
  BY <1>1, <1>2, <1>4 DEF Dealing, Sides
<1>7. \A deal \in Peers \X Sources :
        Dealing(deal[1], deal[2]) <=> Live(a) /\ deal = <<a, s>>
  BY <1>1, <1>5, <1>6
<1>8. QED
  BY <1>7 DEF Deals

LEMMA NobodyDeals ==
  ASSUME \A p \in Peers : ftm[p].state = "Idle" /\ control[p] = <<>>
  PROVE  Deals = {}
<1> SUFFICES ASSUME NEW p \in Peers, NEW s \in Sources
             PROVE  ~Dealing(p, s)
  BY DEF Deals
<1>1. Other(p) \in Peers
  BY TwoPeers
<1>2. QED
  BY <1>1 DEF Dealing, Announced

LEMMA DealsInCalm == Calm => Deals = {}
  BY NobodyDeals DEF Calm

LEMMA DealsAfter ==
  ASSUME LinkInv, LinkInv', NEW a \in Peers, NEW s \in Sources, Session(a, s)
  PROVE  /\ Deals = IF Live(a) THEN {<<a, s>>} ELSE {}
         /\ Session(a, s)' => Deals' = IF Live(a)' THEN {<<a, s>>} ELSE {}
         /\ Calm' => Deals' = {}
<1>1. (Calm => Deals = {})'
  BY DealsInCalm, PTL
<1>2. DealIsOfSession'
  BY DealsOfSession, PTL
<1>3. Session(a, s)' => Deals' = IF Live(a)' THEN {<<a, s>>} ELSE {}
  BY <1>2 DEF DealIsOfSession
<1>4. Deals = IF Live(a) THEN {<<a, s>>} ELSE {}
  BY DealsOfSession DEF DealIsOfSession
<1>5. QED
  BY <1>1, <1>3, <1>4

\* No step of a transfer that is running or over announces it anew.
LEMMA NothingAnnounced ==
  ASSUME LinkInv, NEW a \in Peers, NEW s \in Sources, Session(a, s),
         NEW p \in Peers,
         \/ control' = control
         \/ control[p] # <<>> /\ control' = Taken(control, p)
         \/ control[p] # <<>> /\ control' = DropLast(control, p)
         \/ \E message \in Message :
              message.type # "metadata" /\ control' = Posted(control, p, message),
         Announcing(a)'
  PROVE  Announcing(a)
<1> DEFINE b == Other(a)
<1>1. /\ b \in Peers /\ b # a /\ Other(b) = a /\ Peers = {a, b}
      /\ control \in [Peers -> Seq(Message)] /\ up \in BOOLEAN
      /\ Len(control[b]) \in Nat
  BY SessionTypes
<1>2. ToReceiver(control[b], s)
  BY DEF Session, Queues
<1>3. CASE control' = control
  BY <1>3, SameCommands
<1>4. CASE control[p] # <<>> /\ control' = Taken(control, p)
  <2>1. /\ Len(control'[p]) = Len(control[p]) - 1
        /\ Len(control[p]) = 2 => control'[p][1] = control[p][2]
        /\ control'[Other(p)] = control[Other(p)]
    BY <1>1, <1>4, TakenCommands
  <2>2. CASE p = a
    BY <1>1, <2>1, <2>2 DEF Announcing
  <2>3. CASE p = b
    <3>1. /\ Len(control[b]) = 1 => Len(control'[b]) = 0
          /\ Len(control[b]) = 2 => FirstIs(control[b], "metadata")
      <4>1. Len(control'[b]) = Len(control[b]) - 1
        BY <2>1, <2>3
      <4>2. Len(control[b]) = 1 => Len(control'[b]) = 0
        BY <4>1
      <4>3. Len(control[b]) = 2 => FirstIs(control[b], "metadata")
        BY <1>2 DEF FirstIs, ToReceiver
      <4>4. QED
        BY <4>2, <4>3
    <3>2. Len(control[b]) \in 1..2
      BY <1>1, <1>2, <1>4, <2>3, TakenCommands DEF ToReceiver
    <3>3. QED
      BY <3>1, <3>2, <2>3 DEF Announcing, FirstIs
  <2>4. QED
    BY <1>1, <2>2, <2>3
<1>5. CASE control[p] # <<>> /\ control' = DropLast(control, p)
  <2>1. /\ Len(control'[p]) = Len(control[p]) - 1
        /\ Len(control[p]) = 2 => control'[p][1] = control[p][1]
        /\ control'[Other(p)] = control[Other(p)]
    BY <1>1, <1>5, DroppedCommands
  <2>2. CASE p = a
    BY <1>1, <2>1, <2>2 DEF Announcing
  <2>3. CASE p = b
    <3>1. /\ Len(control[b]) = 1 => Len(control'[b]) = 0
          /\ Len(control[b]) = 2 => FirstIs(control[b], "metadata")
      <4>1. Len(control'[b]) = Len(control[b]) - 1
        BY <2>1, <2>3
      <4>2. Len(control[b]) = 1 => Len(control'[b]) = 0
        BY <4>1
      <4>3. Len(control[b]) = 2 => FirstIs(control[b], "metadata")
        BY <1>2 DEF FirstIs, ToReceiver
      <4>4. QED
        BY <4>2, <4>3
    <3>2. Len(control[b]) \in 1..2
      BY <1>1, <1>2, <1>5, <2>3, DroppedCommands DEF ToReceiver
    <3>3. QED
      BY <3>1, <3>2, <2>3 DEF Announcing, FirstIs
  <2>4. QED
    BY <1>1, <2>2, <2>3
<1>6. ASSUME NEW message \in Message, message.type # "metadata",
             control' = Posted(control, p, message)
      PROVE  Announcing(a)
  <2>1. control'[p] = control[p]
    BY <1>1, <1>6, PostedCommands
  <2>2. CASE p = a
    <3>1. /\ ~up => control'[b] = control[b]
          /\ up => /\ Len(control[b]) = 0 => control'[b][1] = message
                   /\ Len(control[b]) = 1 => control'[b][1] = control[b][1]
      BY <1>1, <1>6, <2>2, PostedCommands
    <3>2. QED
      BY <1>1, <1>2, <1>6, <3>1 DEF Announcing, FirstIs, ToReceiver
  <2>3. QED
    BY <1>1, <2>1, <2>2 DEF Announcing
<1>7. QED
  BY <1>3, <1>4, <1>5, <1>6

\* What a worker does but begin a transfer leaves it where it was or ends it.
LEMMA NothingBegins ==
  ASSUME LinkInv, NEW a \in Peers, NEW s \in Sources, Session(a, s),
         NEW p \in Peers,
         ftm'[p].state \in {ftm[p].state, "Idle"},
         ftm'[Other(p)].state = ftm[Other(p)].state,
         Announcing(a)' => Announcing(a), Live(a)'
  PROVE  Live(a)
<1>1. Other(a) \in Peers /\ Peers = {a, Other(a)} /\ Other(Other(a)) = a
  BY SessionTypes
<1>2. QED
  BY <1>1 DEF Live, Sending, Receiving

LEMMA FilesUntouched ==
  ASSUME disk' = disk, Deals' \in {Deals, {}}
  PROVE  [Promise!Next]_<<Deals, Copy>>
<1>1. Copy' = Copy
  BY DEF Copy
<1>2. CASE Deals' = Deals
  BY <1>1, <1>2
<1>3. CASE Deals' # Deals
  BY <1>1, <1>3 DEF Promise!Next, Promise!GiveUp
<1>4. QED
  BY <1>2, <1>3

\* A step that writes one download changes one copy.
LEMMA CopyChanged ==
  ASSUME IInv, NEW b \in Peers, NEW n \in Names, NEW blocks,
         disk'[Other(b)] = disk[Other(b)],
         \A path \in Paths : path # DownloadPath(n) =>
           disk'[b][path] = disk[b][path],
         disk'[b][DownloadPath(n)] = blocks
  PROVE  /\ Copy' = [Copy EXCEPT ![b][n] = blocks]
         /\ Copy[b][n] = disk[b][DownloadPath(n)]
<1>1. /\ Copy[b][n] = disk[b][DownloadPath(n)]
      /\ Peers = {b, Other(b)} /\ Other(b) # b
  BY TwoPeers DEF Copy
<1>2. ASSUME NEW q \in Peers, NEW m \in Names
      PROVE  disk'[q][DownloadPath(m)]
               = IF q = b /\ m = n THEN blocks ELSE disk[q][DownloadPath(m)]
  <2>1. DownloadPath(m) \in Paths
        /\ (m # n => DownloadPath(m) # DownloadPath(n))
    BY DEF Paths, DownloadPath
  <2>2. QED
    BY <1>1, <2>1
<1>3. Copy' = [q \in Peers |-> [m \in Names |->
                 IF q = b /\ m = n THEN blocks ELSE disk[q][DownloadPath(m)]]]
  BY <1>2, Zenon DEF Copy
<1>4. [Copy EXCEPT ![b][n] = blocks]
        = [q \in Peers |-> [m \in Names |->
             IF q = b /\ m = n THEN blocks ELSE disk[q][DownloadPath(m)]]]
  BY <1>1 DEF Copy
<1>5. QED
  BY <1>1, <1>3, <1>4

LEMMA PartIsUnique ==
  ASSUME NEW s \in Sources, NEW k \in Nat, NEW blocks \in Seq(Block),
         PartOf(blocks, s, 0, k)
  PROVE  blocks = Promise!Part(s, k)
<1>1. Promise!Part(s, k) \in Seq(Block) /\ PartOf(Promise!Part(s, k), s, 0, k)
  <2> DEFINE part == [i \in 1..k |-> <<s, i>>]
  <2>1. part \in Seq(Block) /\ Len(part) = k
    BY DEF Block
  <2>2. \A n \in 1..k - 0 : part[n] = <<s, 0 + n>>
    OBVIOUS
  <2>3. QED
    BY <2>1, <2>2 DEF PartOf, Promise!Part
<1>2. QED
  BY <1>1, PartsAreEqual

LEMMA HandOverWithoutFiles ==
  ASSUME LinkInv, LinkInv', ~DiskFails,
         NEW a \in Peers, NEW s \in Sources, Session(a, s),
         Session(a, s)' \/ Calm', NEW p \in Peers,
         \/ SendChunk(p) \/ PauseLoop(p) \/ FinishLoop(p) \/ SetBackpressure(p)
         \/ ReceiveAccept(p) \/ ReceiveCancel(p) \/ OnPeerDisconnected(p)
         \/ CancelTransfer(p)
  PROVE  [Promise!Next]_<<Deals, Copy>>
<1>1. disk' = disk
  BY SameFiles
<1>2. /\ IInv /\ up \in BOOLEAN /\ ftm[p] \in Manager
      /\ control \in [Peers -> Seq(Message)]
  BY DEF LinkInv, RolesInv, IInv, TypeOK
<1>3. \/ /\ ftm'[p].state \in {ftm[p].state, "Idle"}
         /\ ftm'[Other(p)].state = ftm[Other(p)].state
      \/ ReceiveMetadata(p)
  <2>1. Worker(p) \/ CancelTransfer(p)
    BY DEF Worker
  <2>2. QED
    BY <1>2, <2>1, ManagerSteps
<1>4. Announcing(a)' => Announcing(a)
  <2>1. CASE \/ SendChunk(p) \/ PauseLoop(p) \/ SetBackpressure(p)
             \/ OnPeerDisconnected(p)
    <3>1. control' = control
      BY <2>1 DEF SendChunk, PauseLoop, SetBackpressure, OnPeerDisconnected, link
    <3>2. QED
      BY <3>1, NothingAnnounced
  <2>2. CASE ReceiveAccept(p) \/ ReceiveCancel(p)
    <3>1. control[p] # <<>> /\ control' = Taken(control, p)
      BY <2>2 DEF ReceiveAccept, ReceiveCancel, Pending
    <3>2. QED
      BY <3>1, NothingAnnounced
  <2>3. CASE FinishLoop(p)
    <3> DEFINE message == [type |-> "transfer_complete", hash |-> ftm[p].hash]
    <3>1. message \in Message /\ message.type # "metadata"
      BY <1>2, <2>3, LoopReadsBlocks DEF Message, FinishLoop
    <3>2. control' = Posted(control, p, message)
      BY <2>3 DEF FinishLoop
    <3> HIDE DEF message
    <3>3. QED
      BY <3>1, <3>2, NothingAnnounced
  <2>4. CASE CancelTransfer(p)
    <3> DEFINE message == [type |-> IF ftm[p].state = "Sending"
                                    THEN "cancel_transfer"
                                    ELSE "receiver_canceled"]
    <3>1. message \in Message /\ message.type # "metadata"
      BY DEF Message
    <3>2. control' = Posted(control, p, message)
      BY <2>4 DEF CancelTransfer
    <3> HIDE DEF message
    <3>3. QED
      BY <3>1, <3>2, NothingAnnounced
  <2>5. QED
    BY <2>1, <2>2, <2>3, <2>4
<1>5. Live(a)' => Live(a)
  <2>1. CASE ReceiveMetadata(p)
    BY <2>1, SessionReceiveMetadata DEF Live
  <2>2. QED
    BY <1>3, <1>4, <2>1, NothingBegins
<1>6. QED
  BY <1>1, <1>5, DealsAfter, FilesUntouched

LEMMA HandOverByNetwork ==
  ASSUME LinkInv, LinkInv', NEW a \in Peers, NEW s \in Sources, Session(a, s),
         Session(a, s)' \/ Calm', Network
  PROVE  [Promise!Next]_<<Deals, Copy>>
<1>1. PICK p \in Peers : \/ Drain(p) \/ LoseInFlight(p)
                         \/ LinkLost \/ LinkRestored
  BY DEF Network
<1>2. UNCHANGED <<ftm, disk>>
  BY <1>1 DEF Drain, LoseInFlight, LinkLost, LinkRestored
<1>3. Announcing(a)' => Announcing(a)
  <2>1. \/ control' = control
        \/ control[p] # <<>> /\ control' = DropLast(control, p)
    BY <1>1 DEF Drain, LoseInFlight, LinkLost, LinkRestored, link
  <2>2. QED
    BY <2>1, NothingAnnounced
<1>4. Live(a)' => Live(a)
  BY <1>2, <1>3, NothingBegins
<1>5. QED
  BY <1>2, <1>4, DealsAfter, FilesUntouched

LEMMA HandOverReceiveMetadata ==
  ASSUME LinkInv, LinkInv', ~DiskFails, Downloads,
         \A t, u \in Sources : NameOf[t] = NameOf[u] => t = u,
         NEW a \in Peers, NEW s \in Sources, Session(a, s),
         NEW p \in Peers, ReceiveMetadata(p)
  PROVE  [Promise!Next]_<<Deals, Copy>>
<1> DEFINE b == Other(a)
           n == NameOf[s]
           path == DownloadPath(n)
           file == disk[b][path]
           kept == IF FileSize(file) > Size[s] \/ file = None THEN <<>>
                   ELSE file
<1>1. /\ IInv /\ b \in Peers /\ b # a /\ Other(b) = a
      /\ disk[b] \in [Paths -> Seq(Block) \cup {None}]
  BY SessionTypes DEF IInv, TypeOK
<1>2. Session(a, s)' /\ p = b /\ Announcing(a) /\ control[b][1].source = s
  BY SessionReceiveMetadata
<1>3. /\ n \in Names /\ ftm'[b].state = "Receiving"
      /\ disk'[a] = disk[a] /\ disk'[b] = [disk[b] EXCEPT ![path] = kept]
  <2>1. ReceiveMetadata(b)
    BY <1>2
  <2>2. LET t      == control[b][1].source
            target == DownloadPath(NameOf[t])
            old    == disk[b][target]
            left   == IF FileSize(old) > Size[t] \/ old = None THEN <<>> ELSE old
        IN  /\ NameOf[t] \in Names /\ ftm'[b].state = "Receiving"
            /\ disk'[Other(b)] = disk[Other(b)]
            /\ disk'[b] = [disk[b] EXCEPT ![target] = left]
    BY <1>1, <2>1, MetadataStep, Zenon
  <2>3. QED
    BY <1>1, <1>2, <2>2, Zenon
<1>4. Deals = {<<a, s>>} /\ Deals' = {<<a, s>>}
  BY <1>2, <1>3, DealsAfter DEF Live, Receiving
<1>5. /\ Copy' = [Copy EXCEPT ![b][n] = kept]
      /\ Copy[b][n] = file
  <2>1. path \in Paths
    BY <1>3 DEF Paths
  <2> HIDE DEF kept
  <2>2. /\ disk'[b][path] = kept
        /\ \A other \in Paths : other # path => disk'[b][other] = disk[b][other]
    BY <1>1, <1>3, <2>1
  <2> HIDE DEF n
  <2>3. disk'[Other(b)] = disk[Other(b)]
    BY <1>1, <1>3
  <2>4. QED
    BY <1>1, <1>3, <2>2, <2>3, CopyChanged
<1>6. CASE file = None
  <2>1. kept = Promise!Part(s, 0)
    <3>1. <<>> = Promise!Part(s, 0)
      <4>1. PartOf(<<>>, s, 0, 0)
        BY NothingIsPart
      <4>2. QED
        BY <4>1, PartIsUnique, BlocksAreNotNone
    <3>2. QED
      BY <1>6, <3>1
  <2>2. Promise!Copied(a, s) = None /\ Promise!Copies(a, s, Promise!Part(s, 0))
    BY <1>5, <1>6, <2>1 DEF Promise!Copied, Promise!Copies, Promise!Other, Other
  <2>3. Promise!Open(a, s)
    BY <1>4, <2>2 DEF Promise!Open
  <2>4. QED
    BY <2>3 DEF Promise!Next
<1>7. CASE file # None
  <2>1. \E t \in Sources : \E j \in 0..Size[t] :
          NameOf[t] = n /\ PartOf(file, t, 0, j)
    BY <1>1, <1>3, <1>7 DEF Downloads
  <2>2. PICK j \in 0..Size[s] : PartOf(file, s, 0, j)
    BY <2>1
  <2>3. kept = file
    <3>1. Size[s] \in Nat
      BY ContentIsPart
    <3> HIDE DEF file
    <3>2. Len(file) = j /\ j \in Nat /\ j <= Size[s]
      BY <2>2, <3>1 DEF PartOf
    <3>3. QED
      BY <1>7, <3>1, <3>2 DEF FileSize
  <2>4. Copy' = Copy
    <3>1. Copy' = [Copy EXCEPT ![b][n] = Copy[b][n]]
      BY <1>5, <2>3
    <3>2. QED
      BY <3>1 DEF Copy
  <2>5. QED
    BY <1>4, <2>4
<1>8. QED
  BY <1>6, <1>7

LEMMA HandOverHandleBinaryChunk ==
  ASSUME LinkInv, LinkInv', ~DiskFails,
         NEW a \in Peers, NEW s \in Sources, Session(a, s), Progress(a, s),
         NEW p \in Peers, HandleBinaryChunk(p)
  PROVE  [Promise!Next]_<<Deals, Copy>>
<1> DEFINE b == Other(a)
           n == NameOf[s]
           chunk == binary[b][1]
           path == ftm[b].file
           m == WithChunk(ftm[b], chunk)
           k == ftm[b].received
           written == Append(disk[b][path], chunk)
           files == [disk[b] EXCEPT ![path] = written]
<1>1. /\ IInv /\ b \in Peers /\ b # a /\ Other(b) = a
      /\ binary \in [Peers -> Seq(Block)] /\ Len(binary[b]) \in Nat
      /\ k \in Nat /\ disk[b] \in [Paths -> Seq(Block) \cup {None}]
  BY SessionTypes DEF IInv, TypeOK
<1>2. /\ Session(a, s)' /\ p = b /\ ~Announcing(a) /\ ~Announcing(a)'
  BY SessionHandleBinaryChunk, SameCommands DEF HandleBinaryChunk
<1>3. CASE ~Receiving(a)
  <2>1. UNCHANGED <<ftm, disk>>
    BY <1>1, <1>2, <1>3, ChunkStep DEF Receiving
  <2>2. Live(a)' <=> Live(a)
    BY <1>2, <2>1 DEF Live, Sending, Receiving
  <2>3. QED
    BY <1>2, <2>1, <2>2, DealsAfter, FilesUntouched
<1>4. CASE Receiving(a)
  <2>1. /\ binary[b] # <<>> /\ chunk \in Block
        /\ path \in Paths /\ disk[b][path] \in Seq(Block)
        /\ m \in Manager /\ m.hash # None /\ m.received = k + 1
        /\ m.state = "Receiving" /\ m.file = path
        /\ m.expectedSize = ftm[b].expectedSize
        /\ m.expectedHash = ftm[b].expectedHash
        /\ written \in Seq(Block) /\ CheckCompletion(b, m, files)
    BY <1>1, <1>2, <1>4, ChunkStep, BlocksAreNotNone DEF Receiving
  <2>2. /\ path = DownloadPath(n) /\ ftm[b].expectedSize = Size[s]
        /\ Size[s] \in Nat /\ n \in Names
    BY <1>4, ContentIsPart, FilesAssumption DEF Session, Sides
  <2>3. /\ PartOf(disk[b][path], s, 0, k) /\ Reach(a) <= Size[s]
        /\ PartOf(binary[b], s, k, Reach(a))
    BY <1>4 DEF Progress
  <2>4. Len(binary[b]) > 0 /\ Reach(a) = k + Len(binary[b])
    BY <1>1, <2>1, TakenMessages DEF Reach
  <2>5. chunk = <<s, k + 1>> /\ k \in 0..Size[s] - 1
    BY <1>1, <2>2, <2>3, <2>4 DEF PartOf
  <2>6. /\ disk[b][path] = Promise!Part(s, k)
        /\ written = Promise!Part(s, k + 1)
    <3>1. PartOf(written, s, 0, k + 1)
      BY <1>1, <2>1, <2>3, <2>5, PartAppended
    <3> HIDE DEF written
    <3>2. QED
      BY <1>1, <2>1, <2>3, <3>1, PartIsUnique
  <2>7. /\ files[path] = written /\ files \in [Paths -> Seq(Block) \cup {None}]
        /\ \A other \in Paths : other # path => files[other] = disk[b][other]
    BY <1>1, <2>1
  <2> HIDE DEF m, files, written, chunk, path, n, k
  <2>8. /\ ftm'[a] = ftm[a] /\ disk'[a] = disk[a]
        /\ \/ ~Due(m) /\ ftm'[b] = m /\ disk'[b] = files
           \/ /\ Due(m) /\ ftm'[b].state = "Idle"
              /\ disk'[b] \in {files, [files EXCEPT ![path] = None]}
    BY <1>1, <2>1, CompletionStep
  <2>9. PICK after \in {written, None} :
          /\ Copy' = [Copy EXCEPT ![b][n] = after]
          /\ Due(m) \/ after = written
    <3>1. /\ disk'[b][path] \in {written, None}
          /\ Due(m) \/ disk'[b][path] = written
          /\ \A other \in Paths : other # path => disk'[b][other] = disk[b][other]
      BY <2>1, <2>7, <2>8
    <3>2. disk'[Other(b)] = disk[Other(b)]
      BY <1>1, <2>8
    <3>3. Copy' = [Copy EXCEPT ![b][n] = disk'[b][path]]
      BY <1>1, <2>2, <3>1, <3>2, CopyChanged
    <3>4. QED
      BY <3>1, <3>3
  <2>10. Copy[b][n] = Promise!Part(s, k)
    BY <1>1, <2>2, <2>6 DEF Copy
  <2>11. Deals = {<<a, s>>}
    BY <1>4, DealsAfter DEF Live
  <2>12. CASE ~Due(m) /\ ftm'[b] = m
    <3>1. Deals' = {<<a, s>>}
      BY <1>2, <2>1, <2>12, DealsAfter DEF Live, Receiving
    <3>2. /\ Promise!Copied(a, s) = Promise!Part(s, k)
          /\ Promise!Copies(a, s, Promise!Part(s, k + 1))
      BY <2>6, <2>9, <2>10, <2>12
         DEF Promise!Copied, Promise!Copies, Promise!Other, Other, n
    <3>3. Promise!Grow(a, s)
      BY <2>5, <2>11, <3>1, <3>2 DEF Promise!Grow
    <3>4. QED
      BY <3>3 DEF Promise!Next
  <2>13. CASE Due(m) /\ ftm'[b].state = "Idle"
    <3>1. k = Size[s] - 1 /\ Size[s] > 0 /\ k + 1 = Size[s]
          /\ ftm[b].expectedHash # None
      <4>1. /\ k + 1 >= Size[s] /\ Size[s] > 0 /\ ftm[b].expectedHash # None
        BY <2>1, <2>2, <2>13 DEF Due
      <4>2. QED
        BY <2>2, <2>5, <4>1
    <3>2. ~Sending(a)
      BY <1>4, <3>1 DEF Session, Leaving
    <3>3. Deals' = {}
      BY <1>2, <2>8, <2>13, <3>2, DealsAfter DEF Live, Sending, Receiving
    <3>4. /\ Promise!Copied(a, s) = Promise!Part(s, Size[s] - 1)
          /\ \E blocks \in {Promise!Part(s, Size[s]), None} :
               Promise!Copies(a, s, blocks)
      BY <2>6, <2>9, <2>10, <3>1
         DEF Promise!Copied, Promise!Copies, Promise!Other, Other, n
    <3>5. Promise!Judge(a, s)
      BY <2>11, <3>1, <3>3, <3>4 DEF Promise!Judge
    <3>6. QED
      BY <3>5 DEF Promise!Next
  <2>14. QED
    BY <2>8, <2>12, <2>13
<1>5. QED
  BY <1>3, <1>4

LEMMA HandOverReceiveComplete ==
  ASSUME LinkInv, LinkInv',
         NEW a \in Peers, NEW s \in Sources, Session(a, s), Progress(a, s),
         NEW p \in Peers, ReceiveComplete(p)
  PROVE  [Promise!Next]_<<Deals, Copy>>
<1> DEFINE b == Other(a)
           n == NameOf[s]
           hash == control[b][1].hash
           m == [ftm[b] EXCEPT !.expectedHash = hash]
           path == ftm[b].file
           k == ftm[b].received
<1>1. /\ IInv /\ b \in Peers /\ b # a /\ Other(b) = a
      /\ k \in Nat /\ disk[b] \in [Paths -> Seq(Block) \cup {None}]
      /\ disk \in [Peers -> [Paths -> Seq(Block) \cup {None}]]
  BY SessionTypes DEF IInv, TypeOK
<1>2. Session(a, s)' /\ p = b /\ Ending(a)
  BY SessionReceiveComplete
<1>3. /\ control' = Taken(control, b) /\ control[b] # <<>>
      /\ m \in Manager /\ m.hash = ftm[b].hash /\ m.received = k
      /\ m.expectedSize = ftm[b].expectedSize /\ m.expectedHash = hash
      /\ m.state = ftm[b].state /\ m.file = path
      /\ CheckCompletion(b, m, disk[b])
  BY <1>1, <1>2, CompleteStep DEF ReceiveComplete, Pending
<1>4. ~Sending(a) /\ ~Announcing(a) /\ ~Announcing(a)'
  <2>1. ~Sending(a) /\ ~Announcing(a)
    BY <1>2 DEF Session, Leaving, Ending, Announcing, FirstIs
  <2>2. QED
    BY <1>1, <1>3, <2>1, NothingAnnounced
<1> HIDE DEF m, hash, path, k, n
<1>5. /\ ftm'[a] = ftm[a] /\ disk'[a] = disk[a]
      /\ \/ ~Due(m) /\ ftm'[b] = m /\ disk'[b] = disk[b]
         \/ UNCHANGED <<ftm, disk>>
         \/ /\ Due(m) /\ m.hash # None /\ ftm'[b].state = "Idle"
            /\ disk'[b] \in {disk[b], [disk[b] EXCEPT ![path] = None]}
  BY <1>1, <1>3, CompletionStep
<1>6. CASE /\ ~Due(m) /\ ftm'[b] = m /\ disk'[b] = disk[b]
           \/ UNCHANGED <<ftm, disk>>
  <2>1. disk' = disk
    <3>1. disk' \in [Peers -> [Paths -> Seq(Block) \cup {None}]]
      BY DEF LinkInv, RolesInv, IInv, TypeOK
    <3>2. Peers = {a, b}
      BY SessionTypes
    <3>3. QED
      BY <1>1, <1>5, <1>6, <3>1, <3>2
  <2>2. Live(a)' => Live(a)
    BY <1>3, <1>4, <1>5, <1>6 DEF Live, Sending, Receiving
  <2>3. QED
    BY <1>2, <2>1, <2>2, DealsAfter, FilesUntouched
<1>7. CASE /\ Due(m) /\ m.hash # None /\ ftm'[b].state = "Idle"
           /\ disk'[b] \in {disk[b], [disk[b] EXCEPT ![path] = None]}
  <2>1. Receiving(a)
    BY <1>1, <1>3, <1>7
       DEF Receiving, Session, Sides, IInv, WorkerOwnsResources
  <2>2. /\ path = DownloadPath(n) /\ ftm[b].expectedSize = Size[s]
        /\ Size[s] \in Nat /\ n \in Names
    BY <2>1, ContentIsPart, FilesAssumption DEF Session, Sides, path, n
  <2>3. /\ PartOf(disk[b][path], s, 0, k) /\ Reach(a) <= Size[s]
    BY <2>1 DEF Progress, path, k
  <2>4. k = Size[s] /\ Size[s] > 0
    <3>1. Reach(a) = k + Len(binary[b]) /\ Len(binary[b]) \in Nat
      BY SessionTypes DEF Reach, k
    <3>2. QED
      BY <1>1, <1>3, <1>7, <2>2, <2>3, <3>1 DEF Due
  <2>5. disk[b][path] = Promise!Part(s, Size[s])
    <3>1. disk[b][path] \in Seq(Block)
      BY <1>1, <2>1 DEF IInv, TypeOK, WorkerOwnsResources, Manager, Receiving, path
    <3>2. QED
      BY <2>2, <2>3, <2>4, <3>1, PartIsUnique
  <2>6. PICK after \in {disk[b][path], None} :
          Copy' = [Copy EXCEPT ![b][n] = after]
    <3>1. /\ disk'[b][path] \in {disk[b][path], None}
          /\ \A other \in Paths : other # path => disk'[b][other] = disk[b][other]
      <4>1. path \in Paths
        BY <2>2 DEF Paths
      <4>2. QED
        BY <1>1, <1>7, <4>1
    <3>2. disk'[Other(b)] = disk[Other(b)]
      BY <1>1, <1>5
    <3>3. QED
      BY <1>1, <2>2, <3>1, <3>2, CopyChanged
  <2>7. Copy[b][n] = Promise!Part(s, Size[s])
    BY <1>1, <2>2, <2>5 DEF Copy
  <2>8. Deals = {<<a, s>>} /\ Deals' = {}
    <3>1. Live(a) /\ ~Live(a)'
      BY <1>4, <1>5, <1>7, <2>1 DEF Live, Sending, Receiving
    <3>2. QED
      BY <1>2, <3>1, DealsAfter
  <2>9. /\ Promise!Copied(a, s) = Promise!Part(s, Size[s])
        /\ \E blocks \in {Promise!Part(s, Size[s]), None} :
             Promise!Copies(a, s, blocks)
    BY <2>5, <2>6, <2>7
       DEF Promise!Copied, Promise!Copies, Promise!Other, Other, n
  <2>10. Promise!Judge(a, s)
    BY <2>4, <2>8, <2>9 DEF Promise!Judge
  <2>11. QED
    BY <2>10 DEF Promise!Next
<1>8. QED
  BY <1>5, <1>6, <1>7

LEMMA InitHandOver == Init => Promise!Init
<1> SUFFICES ASSUME Init PROVE Promise!Init
  OBVIOUS
<1>1. Deals = {} /\ Downloads /\ TypeOK
  BY InitDownloads, InitIInv, NobodyDeals DEF Init, NewManager, IInv
<1>2. ASSUME NEW p \in Peers, NEW n \in Names
      PROVE  Copy[p][n] \in Promise!PartsOf(n)
  <2>1. /\ Copy[p][n] = disk[p][DownloadPath(n)]
        /\ Copy[p][n] \in Seq(Block) \cup {None}
    <3>1. DownloadPath(n) \in Paths
      BY DEF Paths
    <3>2. disk[p] \in [Paths -> Seq(Block) \cup {None}]
      BY <1>1 DEF TypeOK
    <3>3. QED
      BY <3>1, <3>2 DEF Copy
  <2>2. CASE Copy[p][n] = None
    BY <2>2 DEF Promise!PartsOf
  <2>3. CASE Copy[p][n] # None
    <3>1. PICK t \in Sources : \E j \in 0..Size[t] :
            NameOf[t] = n /\ PartOf(Copy[p][n], t, 0, j)
      BY <1>1, <2>1, <2>3 DEF Downloads
    <3>2. PICK j \in 0..Size[t] : PartOf(Copy[p][n], t, 0, j)
      BY <3>1
    <3>3. j \in Nat
      BY ContentIsPart
    <3>4. Copy[p][n] = Promise!Part(t, j)
      BY <2>1, <2>3, <3>2, <3>3, PartIsUnique
    <3>5. t \in {u \in Sources : NameOf[u] = n}
      BY <3>1
    <3>6. QED
      BY <3>2, <3>4, <3>5 DEF Promise!PartsOf
  <2>4. QED
    BY <2>2, <2>3
<1>3. Copy \in [Peers -> [Names -> UNION {Promise!PartsOf(n) : n \in Names}]]
  <2>1. \A p \in Peers, n \in Names :
          disk[p][DownloadPath(n)] \in UNION {Promise!PartsOf(m) : m \in Names}
    BY <1>2 DEF Copy
  <2>2. QED
    BY <2>1 DEF Copy
<1>4. QED
  BY <1>1, <1>2, <1>3 DEF Promise!Init

\* One step of the managers and channels is one of the promise, or none.
LEMMA HandOverStep ==
  ASSUME ~DiskFails, \A t, u \in Sources : NameOf[t] = NameOf[u] => t = u
  PROVE  ProgressInv /\ ProgressInv' /\ [Next /\ Patient]_vars
           => [Promise!Next]_<<Deals, Copy>>
<1> SUFFICES ASSUME ProgressInv, ProgressInv', [Next /\ Patient]_vars
             PROVE  [Promise!Next]_<<Deals, Copy>>
  OBVIOUS
<1> DEFINE Step == \/ Network
                   \/ \E p \in Peers :
                        Worker(p) \/ (CancelTransfer(p) /\ ftm[p].state # "Idle")
           Some == \E a \in Peers, s \in Sources : Session(a, s) /\ Progress(a, s)
<1>1. LinkInv /\ LinkInv' /\ TypeOK /\ Downloads /\ (Calm \/ Some)
  BY DEF ProgressInv, LinkInv, RolesInv, IInv
<1>2. CASE UNCHANGED vars
  <2>1. Deals' = Deals
    BY <1>2 DEF vars, link, history, Deals, Dealing, Announced
  <2>2. QED
    BY <1>2, <2>1, FilesUntouched DEF vars
<1>3. CASE Step /\ Calm
  <2>1. Calm' /\ disk' = disk
    BY <1>1, <1>3, CalmStep
  <2>2. (Calm => Deals = {})'
    BY DealsInCalm, PTL
  <2>3. QED
    BY <2>1, <2>2, FilesUntouched
<1>4. ASSUME Step, NEW a \in Peers, NEW s \in Sources, Session(a, s), Progress(a, s)
      PROVE  [Promise!Next]_<<Deals, Copy>>
  <2>1. Session(a, s)' \/ Calm'
    BY <1>1, <1>4, SessionStep
  <2>2. CASE Network
    BY <1>1, <1>4, <2>1, <2>2, HandOverByNetwork
  <2>3. ASSUME NEW p \in Peers, Worker(p) \/ CancelTransfer(p)
        PROVE  [Promise!Next]_<<Deals, Copy>>
    <3>1. CASE ReceiveMetadata(p)
      BY <1>1, <1>4, <3>1, HandOverReceiveMetadata
    <3>2. CASE HandleBinaryChunk(p)
      BY <1>1, <1>4, <3>2, HandOverHandleBinaryChunk
    <3>3. CASE ReceiveComplete(p)
      BY <1>1, <1>4, <3>3, HandOverReceiveComplete
    <3>4. QED
      BY <1>1, <1>4, <2>1, <2>3, <3>1, <3>2, <3>3, HandOverWithoutFiles DEF Worker
  <2>4. QED
    BY <1>4, <2>2, <2>3
<1>5. ASSUME Quiet, \A q \in Peers : ftm[q].state = "Idle",
             NEW a \in Peers, NEW s \in Outbox[a], SendFile(a, s)
      PROVE  [Promise!Next]_<<Deals, Copy>>
  <2>1. Session(a, s)' /\ s \in Sources
    BY <1>1, <1>5, SessionBegins
  <2>2. Deals = {}
    BY <1>5, NobodyDeals DEF Quiet
  <2>3. DealIsOfSession'
    BY DealsOfSession, PTL
  <2>4. Deals' \in {{<<a, s>>}, {}}
    BY <1>1, <2>1, <2>3 DEF DealIsOfSession
  <2>5. disk' = disk
    BY <1>5 DEF SendFile
  <2>6. Copy' = Copy
    BY <2>5 DEF Copy
  <2>7. CASE Deals' = {<<a, s>>}
    BY <2>1, <2>2, <2>6, <2>7 DEF Promise!Next, Promise!Offer
  <2>8. CASE Deals' = {}
    BY <2>2, <2>6, <2>8
  <2>9. QED
    BY <2>4, <2>7, <2>8
<1>6. CASE Next /\ Patient
  <2>1. \/ Step
        \/ /\ Quiet /\ \A q \in Peers : ftm[q].state = "Idle"
           /\ \E p \in Peers : \E s \in Outbox[p] : SendFile(p, s)
    BY <1>1, <1>6, PatientSteps, Zenon
  <2>2. QED
    BY <1>1, <1>3, <1>4, <1>5, <2>1, Zenon
<1>7. QED
  BY <1>2, <1>6

\* With patient users every step of the two managers is a step of HandOver, or
\* none that its users could see: files are handed over one at a time, block by
\* block, and nothing that has arrived is lost before the whole file is judged
\* (filetransfermanager.cpp:107, :178 and :234); files can be opened and written,
\* and no two of them go by one name.
THEOREM FilesAreHandedOver ==
  ASSUME ~DiskFails, \A t, u \in Sources : NameOf[t] = NameOf[u] => t = u
  PROVE  PatientSpec => HandsOver
<1>1. PatientSpec => []ProgressInv
  BY ProgressAlways
<1>2. Init => Promise!Init
  BY InitHandOver
<1>3. ProgressInv /\ ProgressInv' /\ [Next /\ Patient]_vars
        => [Promise!Next]_<<Deals, Copy>>
  BY HandOverStep
<1>4. QED
  BY <1>1, <1>2, <1>3, PTL DEF PatientSpec, HandsOver, Promise!Spec
=============================================================================
