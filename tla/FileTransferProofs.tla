------------------------- MODULE FileTransferProofs -------------------------
(***************************************************************************)
(* What holds of FileTransfer for all files, water marks and users: proofs *)
(* by induction over its steps, checked by TLAPS.                          *)
(***************************************************************************)
EXTENDS FileTransfer, TLAPS, SequenceTheorems

LEMMA OtherIsPeer == \A p \in Peers : Other(p) \in Peers
  BY PeersAssumption DEF Other

LEMMA PathsAreNotNone ==
  /\ None \notin Paths
  /\ \A s \in Sources : SourcePath(s) \in Paths
  /\ \A n \in Names : DownloadPath(n) \in Paths
  BY FilesAssumption DEF Paths

LEMMA BlocksAreNotNone ==
  <<>> \in Seq(Block) /\ <<>> # None /\ \A content \in Seq(Block) : content # None
<1>1. <<>> \in Seq(Block)
  OBVIOUS
<1>2. \A content \in Seq(Block) : content # None
  BY FilesAssumption
<1>3. QED
  BY <1>1, <1>2, Zenon

\* The queues keep their type, whatever a handler takes, posts or loses.
LEMMA QueueTypes ==
  ASSUME NEW S, NEW queue \in [Peers -> Seq(S)], NEW p \in Peers,
         up \in BOOLEAN
  PROVE  /\ \A message \in S : Posted(queue, p, message) \in [Peers -> Seq(S)]
         /\ queue[p] # <<>> => /\ Head(queue[p]) \in S
                               /\ Taken(queue, p) \in [Peers -> Seq(S)]
                               /\ DropLast(queue, p) \in [Peers -> Seq(S)]
<1>1. \A message \in S : Append(queue[Other(p)], message) \in Seq(S)
  BY OtherIsPeer
<1>2. \A message \in S : Posted(queue, p, message) \in [Peers -> Seq(S)]
  BY <1>1 DEF Posted
<1>3. ASSUME queue[p] # <<>>
      PROVE  Head(queue[p]) \in S /\ Tail(queue[p]) \in Seq(S)
  BY <1>3, HeadTailProperties
<1>4. ASSUME queue[p] # <<>>
      PROVE  Taken(queue, p) \in [Peers -> Seq(S)]
  BY <1>3, <1>4 DEF Taken
<1>5. ASSUME queue[p] # <<>>
      PROVE  DropLast(queue, p) \in [Peers -> Seq(S)]
  <2>1. queue[p] \in Seq(S) /\ Len(queue[p]) - 1 \in Int
    OBVIOUS
  <2>2. \A i \in 1..Len(queue[p]) - 1 : queue[p][i] \in S
    BY <2>1, ElementOfSeq
  <2>3. SubSeq(queue[p], 1, Len(queue[p]) - 1) \in Seq(S)
    BY <2>1, <2>2, SubSeqProperties
  <2>4. QED
    BY <2>3 DEF DropLast
<1>6. QED
  BY <1>2, <1>3, <1>4, <1>5

\* cleanup() leaves a manager that holds neither a file nor a hash state.
LEMMA CleanupProperties ==
  \A m \in Manager :
    /\ Cleanup(m) \in Manager
    /\ Cleanup(m).state = "Idle" /\ Cleanup(m).mode = "closed"
    /\ Cleanup(m).hash = None /\ Cleanup(m).expectedHash = None
  BY DEF Cleanup, Manager, States, Modes

-----------------------------------------------------------------------------
(* The inductive invariant: the typing of a step needs to know that a worker *)
(* in a transfer has its hash state and its file.                            *)

IInv == TypeOK /\ WorkerOwnsResources

LEMMA InitIInv == Init => IInv
<1> SUFFICES ASSUME Init PROVE IInv
  OBVIOUS
<1>1. NewManager \in Manager
  BY DEF NewManager, Manager, States, Modes
<1>2. disk \in [Peers -> [Paths -> Seq(Block) \cup {None}]]
  <2>1. \A s \in Sources : Content(s) \in Seq(Block)
    BY FilesAssumption DEF Content, Block
  <2>2. \A s \in Sources, k \in Nat :
          k \in 0..Size[s] => SubSeq(Content(s), 1, k) \in Seq(Block)
    <3> TAKE s \in Sources, k \in Nat
    <3> HAVE k \in 0..Size[s]
    <3>1. \A i \in 1..k : Content(s)[i] \in Block
      BY FilesAssumption DEF Content, Block
    <3>2. QED
      BY <3>1, SubSeqProperties
  <2>3. \A n \in Names : Remains(n) \subseteq Seq(Block) \cup {None}
    BY <2>2, FilesAssumption DEF Remains
  <2>4. ASSUME NEW left, \A p \in Peers, n \in Names : left[p][n] \in Remains(n),
               NEW p \in Peers
        PROVE  InitialDisk(p, left) \in [Paths -> Seq(Block) \cup {None}]
    <3>1. ASSUME NEW path \in Paths
          PROVE  InitialDisk(p, left)[path] \in Seq(Block) \cup {None}
      <4>1. CASE \E s \in Sources : path = SourcePath(s)
        BY <2>1, <4>1 DEF InitialDisk, SourcePath
      <4>2. CASE \E n \in Names : path = DownloadPath(n)
        BY <2>3, <2>4, <4>2 DEF InitialDisk, DownloadPath
      <4>3. QED
        BY <4>1, <4>2 DEF Paths
    <3>2. QED
      BY <3>1 DEF InitialDisk
  <2>5. PICK left : /\ \A p \in Peers, n \in Names : left[p][n] \in Remains(n)
                    /\ disk = [p \in Peers |-> InitialDisk(p, left)]
    BY DEF Init
  <2>6. QED
    BY <2>4, <2>5
<1>3. <<>> \in Seq(Message) /\ <<>> \in Seq(Block)
  OBVIOUS
<1>4. TypeOK
  BY <1>1, <1>2, <1>3, Zenon DEF Init, TypeOK, Signals
<1>5. WorkerOwnsResources
  BY DEF Init, WorkerOwnsResources, NewManager
<1>6. QED
  BY <1>4, <1>5 DEF IInv

\* WorkerOwnsResources of one peer: manager, files and send loop fit together.
Owns(m, files, loops) ==
  /\ m.state = "Idle" <=> m.hash = None
  /\ m.state = "Sending" <=> m.mode = "read"
  /\ m.state = "Receiving" <=> m.mode = "append"
  /\ loops => m.state = "Sending"
  /\ m.state # "Idle" => m.file # None /\ files[m.file] # None

\* A handler of p touches the manager and the files of p alone, so it is enough
\* to look at those.
LEMMA HandlerOfOnePeer ==
  ASSUME IInv, NEW p \in Peers,
         NEW m \in Manager, NEW files \in [Paths -> Seq(Block) \cup {None}],
         NEW loops \in BOOLEAN,
         ftm' = [ftm EXCEPT ![p] = m], disk' = [disk EXCEPT ![p] = files],
         looping' = [looping EXCEPT ![p] = loops],
         Owns(m, files, loops)
  PROVE  /\ ftm' \in [Peers -> Manager]
         /\ disk' \in [Peers -> [Paths -> Seq(Block) \cup {None}]]
         /\ looping' \in [Peers -> BOOLEAN]
         /\ WorkerOwnsResources'
<1>1. /\ ftm' \in [Peers -> Manager]
      /\ disk' \in [Peers -> [Paths -> Seq(Block) \cup {None}]]
      /\ looping' \in [Peers -> BOOLEAN]
  BY DEF IInv, TypeOK
<1>2. /\ ftm'[p] = m /\ disk'[p] = files /\ looping'[p] = loops
      /\ \A q \in Peers \ {p} :
           ftm'[q] = ftm[q] /\ disk'[q] = disk[q] /\ looping'[q] = looping[q]
  BY DEF IInv, TypeOK
<1>3. QED
  BY <1>1, <1>2 DEF IInv, WorkerOwnsResources, Owns

LEMMA SendFileIInv ==
  ASSUME IInv, NEW p \in Peers, NEW s \in Sources, SendFile(p, s)
  PROVE  IInv'
<1> DEFINE path == SourcePath(s)
           opened == [Cleanup(ftm[p]) EXCEPT
                        !.state = "Sending", !.file = path, !.mode = "read",
                        !.pos = 0, !.hash = <<>>,
                        !.expectedSize = FileSize(disk[p][path])]
           failed == [Cleanup(ftm[p]) EXCEPT !.file = path]
<1>1. path \in Paths /\ path # None
  BY PathsAreNotNone
<1>2. ftm[p] \in Manager /\ disk[p] \in [Paths -> Seq(Block) \cup {None}]
  BY DEF IInv, TypeOK
<1>3. Cleanup(ftm[p]) \in Manager /\ <<>> \in Seq(Block) /\ <<>> # None
  BY <1>2, CleanupProperties, BlocksAreNotNone
<1>4. FileSize(disk[p][path]) \in Nat
  BY <1>1, <1>2 DEF FileSize
<1>5. opened \in Manager /\ failed \in Manager
  BY <1>1, <1>3, <1>4 DEF Manager, States, Modes
<1>6. looping[p] = FALSE /\ looping' = [looping EXCEPT ![p] = FALSE]
  BY DEF SendFile, Free, IInv, TypeOK
<1>7. disk' = [disk EXCEPT ![p] = disk[p]]
  BY DEF SendFile, IInv, TypeOK
<1>8. /\ control' \in [Peers -> Seq(Message)]
      /\ signal' \in [Peers -> Signals]
      /\ sends' \in [Peers -> Nat]
  <2>1. [type |-> "metadata", source |-> s] \in Message
    BY DEF Message
  <2>2. Posted(control, p, [type |-> "metadata", source |-> s])
          \in [Peers -> Seq(Message)]
    BY <2>1, QueueTypes DEF IInv, TypeOK
  <2>3. control' \in [Peers -> Seq(Message)]
    BY <2>2 DEF SendFile, IInv, TypeOK
  <2>4. signal' \in [Peers -> Signals]
    BY DEF SendFile, IInv, TypeOK, Signals
  <2>5. sends' \in [Peers -> Nat]
    BY DEF SendFile, IInv, TypeOK
  <2>6. QED
    BY <2>3, <2>4, <2>5
<1>9. WorkerOwnsResources' /\ ftm' \in [Peers -> Manager]
  <2>1. CASE ftm' = [ftm EXCEPT ![p] = opened] /\ disk[p][path] # None
    <3>1. Owns(opened, disk[p], FALSE)
      BY <1>1, <1>3, <2>1 DEF Owns, Manager
    <3>2. QED
      BY <1>2, <1>5, <1>6, <1>7, <2>1, <3>1, HandlerOfOnePeer
  <2>2. CASE ftm' = [ftm EXCEPT ![p] = failed]
    <3>1. Owns(failed, disk[p], FALSE)
      BY <1>2, <1>3, CleanupProperties DEF Owns, Manager
    <3>2. QED
      BY <1>2, <1>5, <1>6, <1>7, <2>2, <3>1, HandlerOfOnePeer
  <2>3. QED
    BY <2>1, <2>2 DEF SendFile
<1>10. QED
  BY <1>8, <1>9 DEF SendFile, history, IInv, TypeOK

\* A worker inside the send loop reads an open file that has blocks left.
LEMMA LoopReadsBlocks ==
  ASSUME IInv, NEW p \in Peers, looping[p]
  PROVE  /\ ftm[p] \in Manager /\ ftm[p].state = "Sending"
         /\ ftm[p].mode = "read" /\ ftm[p].file \in Paths
         /\ ftm[p].hash \in Seq(Block)
         /\ disk[p][ftm[p].file] \in Seq(Block)
         /\ ~AtEnd(p) => disk[p][ftm[p].file][ftm[p].pos + 1] \in Block
<1>1. ftm[p] \in Manager /\ disk[p] \in [Paths -> Seq(Block) \cup {None}]
  BY DEF IInv, TypeOK
<1>2. /\ ftm[p].state = "Sending" /\ ftm[p].mode = "read"
      /\ ftm[p].file # None /\ disk[p][ftm[p].file] # None
      /\ ftm[p].hash # None
  BY DEF IInv, WorkerOwnsResources
<1>3. /\ ftm[p].file \in Paths /\ ftm[p].hash \in Seq(Block)
      /\ ftm[p].pos \in Nat
  BY <1>1, <1>2 DEF Manager
<1>4. disk[p][ftm[p].file] \in Seq(Block)
  BY <1>1, <1>2, <1>3
<1>5. ASSUME ~AtEnd(p)
      PROVE  disk[p][ftm[p].file][ftm[p].pos + 1] \in Block
  <2>1. ftm[p].pos < Len(disk[p][ftm[p].file])
    BY <1>2, <1>3, <1>4, <1>5 DEF AtEnd, FileSize
  <2>2. ftm[p].pos + 1 \in 1..Len(disk[p][ftm[p].file])
    BY <1>3, <1>4, <2>1
  <2>3. QED
    BY <1>4, <2>2, ElementOfSeq
<1>6. QED
  BY <1>1, <1>2, <1>3, <1>4, <1>5

LEMMA SendChunkIInv ==
  ASSUME IInv, NEW p \in Peers, SendChunk(p)
  PROVE  IInv'
<1> DEFINE chunk == disk[p][ftm[p].file][ftm[p].pos + 1]
           m == [ftm[p] EXCEPT !.pos = @ + 1, !.hash = Append(@, chunk)]
<1>1. looping[p] /\ ~AtEnd(p)
  BY DEF SendChunk
<1>2. /\ ftm[p] \in Manager /\ ftm[p].state = "Sending"
      /\ ftm[p].mode = "read" /\ ftm[p].file # None
      /\ ftm[p].hash \in Seq(Block)
      /\ disk[p] \in [Paths -> Seq(Block) \cup {None}]
      /\ disk[p][ftm[p].file] # None
      /\ chunk \in Block
  BY <1>1, LoopReadsBlocks, BlocksAreNotNone, PathsAreNotNone DEF IInv, TypeOK
<1>3. Append(ftm[p].hash, chunk) \in Seq(Block)
  BY <1>2
<1>4. m \in Manager
  <2>1. \A hash \in Seq(Block), pos \in Nat :
          [ftm[p] EXCEPT !.pos = pos, !.hash = hash] \in Manager
    BY <1>2 DEF Manager
  <2>2. ftm[p].pos + 1 \in Nat
    BY <1>2 DEF Manager
  <2>3. QED
    BY <1>3, <2>1, <2>2
<1>5. Owns(m, disk[p], TRUE)
  BY <1>2, <1>3, BlocksAreNotNone DEF Owns, Manager
<1>6. /\ ftm' = [ftm EXCEPT ![p] = m]
      /\ disk' = [disk EXCEPT ![p] = disk[p]]
      /\ looping' = [looping EXCEPT ![p] = TRUE]
  BY <1>1 DEF SendChunk, IInv, TypeOK
<1>7. WorkerOwnsResources' /\ ftm' \in [Peers -> Manager]
  BY <1>2, <1>4, <1>5, <1>6, HandlerOfOnePeer
<1>8. Posted(binary, p, chunk) \in [Peers -> Seq(Block)]
  BY <1>2, QueueTypes DEF IInv, TypeOK
<1>9. /\ binary' \in [Peers -> Seq(Block)]
      /\ buffered' \in [Peers -> Nat]
  BY <1>8 DEF SendChunk, IInv, TypeOK
<1>10. QED
  BY <1>7, <1>9 DEF SendChunk, history, counters, IInv, TypeOK

LEMMA PauseLoopIInv ==
  ASSUME IInv, NEW p \in Peers, PauseLoop(p)
  PROVE  IInv'
  BY DEF PauseLoop, link, history, counters, IInv, TypeOK, WorkerOwnsResources

\* Every handler that ends with cleanup() leaves its peer in order.
LEMMA CleanupIInv ==
  ASSUME IInv, NEW p \in Peers,
         ftm' = [ftm EXCEPT ![p] = Cleanup(@)], disk' = disk,
         looping' = [looping EXCEPT ![p] = FALSE]
  PROVE  ftm' \in [Peers -> Manager] /\ WorkerOwnsResources'
<1>1. ftm[p] \in Manager /\ disk[p] \in [Paths -> Seq(Block) \cup {None}]
  BY DEF IInv, TypeOK
<1>2. Cleanup(ftm[p]) \in Manager /\ Owns(Cleanup(ftm[p]), disk[p], FALSE)
  BY <1>1, CleanupProperties DEF Owns
<1>3. disk' = [disk EXCEPT ![p] = disk[p]]
  BY DEF IInv, TypeOK
<1>4. QED
  BY <1>1, <1>2, <1>3, HandlerOfOnePeer

LEMMA FinishLoopIInv ==
  ASSUME IInv, NEW p \in Peers, FinishLoop(p)
  PROVE  IInv'
<1>1. ftm' \in [Peers -> Manager] /\ WorkerOwnsResources'
  BY CleanupIInv DEF FinishLoop
<1>2. [type |-> "transfer_complete", hash |-> ftm[p].hash] \in Message
  BY LoopReadsBlocks DEF FinishLoop, Message
<1>3. control' \in [Peers -> Seq(Message)]
  BY <1>2, QueueTypes DEF FinishLoop, IInv, TypeOK
<1>4. looping' \in [Peers -> BOOLEAN] /\ signal' \in [Peers -> Signals]
  BY DEF FinishLoop, IInv, TypeOK, Signals
<1>5. QED
  BY <1>1, <1>3, <1>4 DEF FinishLoop, history, counters, IInv, TypeOK

LEMMA SetBackpressureIInv ==
  ASSUME IInv, NEW p \in Peers, SetBackpressure(p)
  PROVE  IInv'
<1>1. /\ lowEvents' \in [Peers -> Nat]
      /\ looping' \in [Peers -> BOOLEAN]
  BY DEF SetBackpressure, IInv, TypeOK
<1>2. WorkerOwnsResources'
  BY DEF SetBackpressure, IInv, TypeOK, WorkerOwnsResources
<1>3. QED
  BY <1>1, <1>2 DEF SetBackpressure, history, counters, IInv, TypeOK

LEMMA ReceiveAcceptIInv ==
  ASSUME IInv, NEW p \in Peers, ReceiveAccept(p)
  PROVE  IInv'
<1> DEFINE offset == Head(control[p]).offset
           isSending == ftm[p].state = "Sending"
           m == IF isSending THEN SeekTo(ftm[p], offset) ELSE ftm[p]
<1>1. /\ ftm[p] \in Manager
      /\ disk[p] \in [Paths -> Seq(Block) \cup {None}]
      /\ Owns(ftm[p], disk[p], FALSE)
  BY DEF IInv, TypeOK, WorkerOwnsResources, Owns
<1>2. /\ Head(control[p]) \in Message
      /\ control' \in [Peers -> Seq(Message)]
  BY QueueTypes DEF ReceiveAccept, Pending, IInv, TypeOK
<1>3. offset \in Nat
  BY <1>2 DEF ReceiveAccept, Pending, Message
<1>4. SeekTo(ftm[p], offset) \in Manager
  BY <1>1, <1>3 DEF SeekTo, Manager
<1>5. Owns(m, disk[p], isSending)
  BY <1>1 DEF Owns, SeekTo, Manager
<1>6. /\ ftm' = [ftm EXCEPT ![p] = m]
      /\ disk' = [disk EXCEPT ![p] = disk[p]]
      /\ looping' = [looping EXCEPT ![p] = isSending]
  BY DEF ReceiveAccept, IInv, TypeOK
<1>7. /\ ftm' \in [Peers -> Manager] /\ looping' \in [Peers -> BOOLEAN]
      /\ WorkerOwnsResources'
  BY <1>1, <1>4, <1>5, <1>6, HandlerOfOnePeer
<1>8. QED
  BY <1>2, <1>7 DEF ReceiveAccept, history, counters, IInv, TypeOK

LEMMA ReceiveMetadataIInv ==
  ASSUME IInv, NEW p \in Peers, ReceiveMetadata(p)
  PROVE  IInv'
<1> DEFINE s        == Head(control[p]).source
           path     == DownloadPath(NameOf[s])
           tooBig   == FileSize(disk[p][path]) > Size[s]
           kept     == IF tooBig \/ disk[p][path] = None THEN <<>>
                       ELSE disk[p][path]
           prepared == [Cleanup(ftm[p]) EXCEPT !.expectedSize = Size[s],
                                               !.received = 0, !.file = path]
           opened   == [prepared EXCEPT !.state = "Receiving",
                                        !.mode = "append",
                                        !.hash = ReadAll("append", kept),
                                        !.received = ResumeOffset(kept)]
           accept   == [type |-> "accept_transfer",
                        offset |-> ResumeOffset(kept)]
           resumed  == [disk[p] EXCEPT ![path] = kept]
           emptied  == [disk[p] EXCEPT ![path] = IF tooBig THEN None ELSE @]
<1>1. /\ ftm[p] \in Manager
      /\ disk[p] \in [Paths -> Seq(Block) \cup {None}]
  BY DEF IInv, TypeOK
<1>2. /\ Head(control[p]) \in Message
      /\ Taken(control, p) \in [Peers -> Seq(Message)]
  BY QueueTypes DEF ReceiveMetadata, Pending, IInv, TypeOK
<1>3. s \in Sources
  BY <1>2 DEF ReceiveMetadata, Pending, Message
<1>4. path \in Paths /\ path # None /\ Size[s] \in Nat
  BY <1>3, PathsAreNotNone, FilesAssumption
<1>5. kept \in Seq(Block) /\ kept # None /\ ResumeOffset(kept) \in Nat
  <2>1. kept \in Seq(Block)
    BY <1>1, <1>4
  <2>2. QED
    BY <2>1, BlocksAreNotNone DEF ResumeOffset
<1>6. ReadAll("append", kept) = <<>>
  BY DEF ReadAll
<1>7. prepared \in Manager /\ prepared.state = "Idle"
        /\ prepared.mode = "closed" /\ prepared.hash = None
        /\ prepared.file = path
  BY <1>1, <1>4, CleanupProperties DEF Manager
<1>8. /\ opened \in Manager /\ opened.state = "Receiving"
      /\ opened.mode = "append" /\ opened.hash = <<>>
      /\ opened.file = path
  <2>1. <<>> \in Seq(Block)
    OBVIOUS
  <2>2. "Receiving" \in States /\ "append" \in Modes
    BY DEF States, Modes
  <2> HIDE DEF prepared, kept
  <2>3. QED
    BY <1>5, <1>6, <1>7, <2>1, <2>2 DEF Manager
<1>9. /\ resumed \in [Paths -> Seq(Block) \cup {None}]
      /\ emptied \in [Paths -> Seq(Block) \cup {None}]
      /\ resumed[path] = kept
  BY <1>1, <1>4, <1>5
<1>10. looping[p] = FALSE /\ looping' = [looping EXCEPT ![p] = FALSE]
  BY DEF ReceiveMetadata, Pending, Free, IInv, TypeOK
<1>11. accept \in Message
  BY <1>5 DEF Message
<1>12. /\ announced' \in [Peers -> Sources \cup {None}]
       /\ signal' \in [Peers -> Signals]
  BY <1>3 DEF ReceiveMetadata, IInv, TypeOK, Signals
<1>13. CASE /\ ftm' = [ftm EXCEPT ![p] = opened]
            /\ disk' = [disk EXCEPT ![p] = resumed]
            /\ control' = Posted(Taken(control, p), p, accept)
  <2>1. Owns(opened, resumed, FALSE)
    BY <1>4, <1>5, <1>8, <1>9, BlocksAreNotNone DEF Owns
  <2>2. /\ ftm' \in [Peers -> Manager] /\ WorkerOwnsResources'
        /\ disk' \in [Peers -> [Paths -> Seq(Block) \cup {None}]]
    BY <1>8, <1>9, <1>10, <1>13, <2>1, HandlerOfOnePeer
  <2>3. control' \in [Peers -> Seq(Message)]
    BY <1>2, <1>11, <1>13, QueueTypes DEF IInv, TypeOK
  <2>4. QED
    BY <1>12, <2>2, <2>3 DEF ReceiveMetadata, counters, IInv, TypeOK
<1>14. CASE /\ ftm' = [ftm EXCEPT ![p] = prepared]
            /\ disk' = [disk EXCEPT ![p] = emptied]
            /\ control' = Taken(control, p)
  <2>1. Owns(prepared, emptied, FALSE)
    BY <1>7 DEF Owns
  <2>2. /\ ftm' \in [Peers -> Manager] /\ WorkerOwnsResources'
        /\ disk' \in [Peers -> [Paths -> Seq(Block) \cup {None}]]
    BY <1>7, <1>9, <1>10, <1>14, <2>1, HandlerOfOnePeer
  <2>3. QED
    BY <1>2, <1>12, <1>14, <2>2 DEF ReceiveMetadata, counters, IInv, TypeOK
<1>15. QED
  <2>1. \/ /\ ftm' = [ftm EXCEPT ![p] = opened]
           /\ disk' = [disk EXCEPT ![p][path] = kept]
           /\ control' = Posted(Taken(control, p), p, accept)
        \/ /\ ftm' = [ftm EXCEPT ![p] = prepared]
           /\ disk' = [disk EXCEPT ![p][path] = IF tooBig THEN None ELSE @]
           /\ control' = Taken(control, p)
    BY DEF ReceiveMetadata
  <2>2. QED
    BY <1>13, <1>14, <2>1 DEF IInv, TypeOK

\* checkCompletion(), whatever handler calls it.
LEMMA CheckCompletionIInv ==
  ASSUME IInv, NEW p \in Peers, ~looping[p], looping' = looping,
         NEW m \in Manager, NEW files \in [Paths -> Seq(Block) \cup {None}],
         Owns(m, files, FALSE),
         CheckCompletion(p, m, files)
  PROVE  /\ ftm' \in [Peers -> Manager]
         /\ disk' \in [Peers -> [Paths -> Seq(Block) \cup {None}]]
         /\ signal' \in [Peers -> Signals]
         /\ crashed' \in [Peers -> BOOLEAN]
         /\ verdict' \in [Peers -> Verdict \cup {None}]
         /\ WorkerOwnsResources'
<1> DEFINE due    == /\ m.expectedSize > 0 /\ m.received >= m.expectedSize
                     /\ m.expectedHash # None
           closed == Cleanup(m)
           kept   == m.hash = closed.expectedHash
           left   == IF kept THEN files ELSE [files EXCEPT ![m.file] = None]
           judged == [source |-> announced[p], content |-> files[m.file],
                      sent |-> m.expectedHash, got |-> m.hash, kept |-> kept]
<1>1. looping' = [looping EXCEPT ![p] = FALSE]
  BY DEF IInv, TypeOK
<1>2. CASE ~due
  <2>1. /\ ftm' = [ftm EXCEPT ![p] = m]
        /\ disk' = [disk EXCEPT ![p] = files]
        /\ UNCHANGED <<signal, crashed, verdict>>
    BY <1>2 DEF CheckCompletion
  <2>2. QED
    BY <1>1, <2>1, HandlerOfOnePeer DEF IInv, TypeOK
<1>3. CASE due /\ m.hash = None
  <2>1. /\ crashed' = [crashed EXCEPT ![p] = TRUE]
        /\ UNCHANGED <<ftm, disk, signal, verdict>>
    BY <1>3 DEF CheckCompletion
  <2>2. QED
    BY <2>1 DEF IInv, TypeOK, WorkerOwnsResources
<1>4. CASE due /\ m.hash # None
  <2>1. /\ ftm' = [ftm EXCEPT ![p] = closed]
        /\ disk' = [disk EXCEPT ![p] = left]
        /\ signal' = [signal EXCEPT ![p] =
             IF kept THEN "transferFinished" ELSE "transferCanceled"]
        /\ verdict' = [verdict EXCEPT ![p] = judged]
        /\ UNCHANGED crashed
    BY <1>4 DEF CheckCompletion
  <2>2. closed \in Manager /\ Owns(closed, left, FALSE)
    BY CleanupProperties DEF Owns
  <2>3. /\ m.file \in Paths
        /\ m.hash \in Seq(Block) /\ m.expectedHash \in Seq(Block)
    BY <1>4 DEF Owns, Manager
  <2>4. left \in [Paths -> Seq(Block) \cup {None}]
    BY <2>3
  <2>5. judged \in Verdict
    BY <2>3 DEF Verdict, IInv, TypeOK
  <2>6. /\ signal' \in [Peers -> Signals]
        /\ verdict' \in [Peers -> Verdict \cup {None}]
    BY <2>1, <2>5 DEF IInv, TypeOK, Signals
  <2>7. QED
    BY <1>1, <2>1, <2>2, <2>4, <2>6, HandlerOfOnePeer DEF IInv, TypeOK
<1>5. QED
  BY <1>2, <1>3, <1>4

LEMMA ReceiveCompleteIInv ==
  ASSUME IInv, NEW p \in Peers, ReceiveComplete(p)
  PROVE  IInv'
<1> DEFINE hash == Head(control[p]).hash
           m == [ftm[p] EXCEPT !.expectedHash = hash]
<1>1. /\ ftm[p] \in Manager
      /\ disk[p] \in [Paths -> Seq(Block) \cup {None}]
      /\ Owns(ftm[p], disk[p], FALSE)
  BY DEF IInv, TypeOK, WorkerOwnsResources, Owns
<1>2. /\ Head(control[p]) \in Message
      /\ control' \in [Peers -> Seq(Message)]
  BY QueueTypes DEF ReceiveComplete, Pending, IInv, TypeOK
<1>3. hash \in Seq(Block)
  BY <1>2 DEF ReceiveComplete, Pending, Message
<1>4. m \in Manager /\ Owns(m, disk[p], FALSE)
  BY <1>1, <1>3 DEF Manager, Owns
<1>5. ~looping[p] /\ looping' = looping /\ CheckCompletion(p, m, disk[p])
  BY DEF ReceiveComplete, Pending, Free
<1>6. /\ ftm' \in [Peers -> Manager]
      /\ disk' \in [Peers -> [Paths -> Seq(Block) \cup {None}]]
      /\ signal' \in [Peers -> Signals]
      /\ crashed' \in [Peers -> BOOLEAN]
      /\ verdict' \in [Peers -> Verdict \cup {None}]
      /\ WorkerOwnsResources'
  BY <1>1, <1>4, <1>5, CheckCompletionIInv
<1>7. QED
  BY <1>2, <1>6 DEF ReceiveComplete, counters, IInv, TypeOK

LEMMA HandleBinaryChunkIInv ==
  ASSUME IInv, NEW p \in Peers, HandleBinaryChunk(p)
  PROVE  IInv'
<1> DEFINE chunk == Head(binary[p])
           path == ftm[p].file
           m == [ftm[p] EXCEPT !.hash = Append(@, chunk), !.received = @ + 1]
<1>1. /\ ftm[p] \in Manager
      /\ disk[p] \in [Paths -> Seq(Block) \cup {None}]
      /\ Owns(ftm[p], disk[p], FALSE)
  BY DEF IInv, TypeOK, WorkerOwnsResources, Owns
<1>2. binary[p] # <<>>
  BY OtherIsPeer DEF HandleBinaryChunk, Arrived, IInv, TypeOK
<1>3. chunk \in Block /\ binary' \in [Peers -> Seq(Block)]
  BY <1>2, QueueTypes DEF HandleBinaryChunk, IInv, TypeOK
<1>4. ~looping[p] /\ looping' = looping
  BY DEF HandleBinaryChunk, Free
<1>5. CASE ftm[p].state # "Receiving"
  <2>1. UNCHANGED <<ftm, disk, signal, crashed, verdict>>
    BY <1>5 DEF HandleBinaryChunk
  <2>2. QED
    BY <1>3, <2>1 DEF HandleBinaryChunk, counters, IInv, TypeOK,
                      WorkerOwnsResources
<1>6. CASE ftm[p].state = "Receiving"
  <2>1. PICK written \in {Append(disk[p][path], chunk), disk[p][path]} :
          CheckCompletion(p, m, [disk[p] EXCEPT ![path] = written])
    BY <1>6 DEF HandleBinaryChunk
  <2> DEFINE files == [disk[p] EXCEPT ![path] = written]
  <2>2. /\ path \in Paths /\ path # None
        /\ ftm[p].hash \in Seq(Block)
        /\ disk[p][path] \in Seq(Block)
    BY <1>1, <1>6 DEF Owns, Manager
  <2>3. Append(disk[p][path], chunk) \in Seq(Block)
    BY <1>3, <2>2
  <2>4. written \in Seq(Block) /\ written # None
    BY <2>2, <2>3, BlocksAreNotNone
  <2>5. files \in [Paths -> Seq(Block) \cup {None}] /\ files[path] # None
    BY <1>1, <2>2, <2>4
  <2>6. Append(ftm[p].hash, chunk) \in Seq(Block)
    BY <1>3, <2>2
  <2>7. m \in Manager
    <3>1. \A hash \in Seq(Block), received \in Nat :
            [ftm[p] EXCEPT !.hash = hash, !.received = received] \in Manager
      BY <1>1 DEF Manager
    <3>2. ftm[p].received + 1 \in Nat
      BY <1>1 DEF Manager
    <3>3. QED
      BY <2>6, <3>1, <3>2
  <2>8. Owns(m, files, FALSE)
    BY <1>1, <1>6, <2>2, <2>5, <2>6, BlocksAreNotNone DEF Owns, Manager
  <2>9. /\ ftm' \in [Peers -> Manager]
        /\ disk' \in [Peers -> [Paths -> Seq(Block) \cup {None}]]
        /\ signal' \in [Peers -> Signals]
        /\ crashed' \in [Peers -> BOOLEAN]
        /\ verdict' \in [Peers -> Verdict \cup {None}]
        /\ WorkerOwnsResources'
    BY <1>4, <2>1, <2>5, <2>7, <2>8, CheckCompletionIInv
  <2>10. QED
    BY <1>3, <2>9 DEF HandleBinaryChunk, counters, IInv, TypeOK
<1>7. QED
  BY <1>5, <1>6

LEMMA CancelTransferIInv ==
  ASSUME IInv, NEW p \in Peers, CancelTransfer(p)
  PROVE  IInv'
<1> DEFINE message == [type |-> IF ftm[p].state = "Sending"
                                THEN "cancel_transfer"
                                ELSE "receiver_canceled"]
<1>1. ftm' \in [Peers -> Manager] /\ WorkerOwnsResources'
  BY CleanupIInv DEF CancelTransfer, Free, IInv, TypeOK
<1>2. message \in Message
  BY DEF Message
<1>3. control' \in [Peers -> Seq(Message)]
  BY <1>2, QueueTypes DEF CancelTransfer, IInv, TypeOK
<1>4. signal' \in [Peers -> Signals] /\ cancels' \in [Peers -> Nat]
  BY DEF CancelTransfer, IInv, TypeOK, Signals
<1>5. QED
  BY <1>1, <1>3, <1>4 DEF CancelTransfer, history, IInv, TypeOK

LEMMA ReceiveCancelIInv ==
  ASSUME IInv, NEW p \in Peers, ReceiveCancel(p)
  PROVE  IInv'
<1>1. ftm' \in [Peers -> Manager] /\ WorkerOwnsResources'
  BY CleanupIInv DEF ReceiveCancel, Pending, Free, IInv, TypeOK
<1>2. control' \in [Peers -> Seq(Message)]
  BY QueueTypes DEF ReceiveCancel, Pending, IInv, TypeOK
<1>3. signal' \in [Peers -> Signals]
  BY DEF ReceiveCancel, IInv, TypeOK, Signals
<1>4. QED
  BY <1>1, <1>2, <1>3 DEF ReceiveCancel, history, counters, IInv, TypeOK

LEMMA OnPeerDisconnectedIInv ==
  ASSUME IInv, NEW p \in Peers, OnPeerDisconnected(p)
  PROVE  IInv'
<1>1. ftm' \in [Peers -> Manager] /\ WorkerOwnsResources'
  BY CleanupIInv DEF OnPeerDisconnected, Free, IInv, TypeOK
<1>2. signal' \in [Peers -> Signals] /\ closing' \in [Peers -> BOOLEAN]
  BY DEF OnPeerDisconnected, IInv, TypeOK, Signals
<1>3. QED
  BY <1>1, <1>2 DEF OnPeerDisconnected, link, history, counters, IInv, TypeOK

\* The network changes queues, never a manager or a file.
LEMMA NetworkIInv ==
  ASSUME IInv, Network
  PROVE  IInv'
<1>1. ASSUME NEW p \in Peers, Drain(p)
      PROVE  IInv'
  <2>1. buffered' \in [Peers -> Nat] /\ lowEvents' \in [Peers -> Nat]
    BY <1>1 DEF Drain, IInv, TypeOK
  <2>2. WorkerOwnsResources'
    BY <1>1 DEF Drain, IInv, WorkerOwnsResources
  <2>3. QED
    BY <1>1, <2>1, <2>2 DEF Drain, history, counters, IInv, TypeOK
<1>2. ASSUME NEW p \in Peers, LoseInFlight(p)
      PROVE  IInv'
  <2>1. /\ control' \in [Peers -> Seq(Message)]
        /\ binary' \in [Peers -> Seq(Block)]
    <3>1. /\ control[p] # <<>> => DropLast(control, p) \in [Peers -> Seq(Message)]
          /\ binary[p] # <<>> => DropLast(binary, p) \in [Peers -> Seq(Block)]
      BY QueueTypes DEF IInv, TypeOK
    <3>2. QED
      BY <1>2, <3>1 DEF LoseInFlight, IInv, TypeOK
  <2>2. WorkerOwnsResources'
    BY <1>2 DEF LoseInFlight, IInv, WorkerOwnsResources
  <2>3. QED
    BY <1>2, <2>1, <2>2 DEF LoseInFlight, history, counters, IInv, TypeOK
<1>3. ASSUME LinkLost
      PROVE  IInv'
  <2>1. ASSUME NEW p \in Peers
        PROVE  SubSeq(binary[p], 1, Arrived(p)) \in Seq(Block)
    <3>1. /\ binary[p] \in Seq(Block) /\ Arrived(p) \in Int
          /\ Arrived(p) <= Len(binary[p])
      BY OtherIsPeer DEF Arrived, IInv, TypeOK
    <3>2. \A i \in 1..Arrived(p) : binary[p][i] \in Block
      BY <3>1, ElementOfSeq
    <3>3. QED
      BY <3>1, <3>2, SubSeqProperties
  <2>2. binary' \in [Peers -> Seq(Block)]
    BY <1>3, <2>1 DEF LinkLost
  <2>3. buffered' \in [Peers -> Nat] /\ losses' \in Nat
    BY <1>3 DEF LinkLost, IInv, TypeOK
  <2>4. closing' \in [Peers -> BOOLEAN] /\ up' \in BOOLEAN
    BY <1>3 DEF LinkLost
  <2>5. WorkerOwnsResources'
    BY <1>3 DEF LinkLost, IInv, WorkerOwnsResources
  <2>6. QED
    BY <1>3, <2>2, <2>3, <2>4, <2>5 DEF LinkLost, history, IInv, TypeOK
<1>4. ASSUME LinkRestored
      PROVE  IInv'
  BY <1>4 DEF LinkRestored, link, history, counters, IInv, TypeOK,
              WorkerOwnsResources
<1>5. QED
  BY <1>1, <1>2, <1>3, <1>4 DEF Network

LEMMA NextIInv == IInv /\ [Next]_vars => IInv'
<1> SUFFICES ASSUME IInv, [Next]_vars PROVE IInv'
  OBVIOUS
<1>1. CASE Network
  BY <1>1, NetworkIInv
<1>2. ASSUME NEW p \in Peers, Worker(p)
      PROVE  IInv'
  BY <1>2, SendChunkIInv, PauseLoopIInv, FinishLoopIInv, SetBackpressureIInv,
     HandleBinaryChunkIInv, ReceiveMetadataIInv, ReceiveAcceptIInv,
     ReceiveCompleteIInv, ReceiveCancelIInv, OnPeerDisconnectedIInv DEF Worker
<1>3. ASSUME NEW p \in Peers, User(p)
      PROVE  IInv'
  BY <1>3, FilesAssumption, SendFileIInv, CancelTransferIInv DEF User
<1>4. CASE UNCHANGED vars
  BY <1>4 DEF vars, link, history, counters, IInv, TypeOK, WorkerOwnsResources
<1>5. QED
  BY <1>1, <1>2, <1>3, <1>4 DEF Next

\* Every variable keeps its type, for any files, water marks and bounds.
THEOREM TypeCorrect == Spec => []TypeOK
<1>1. IInv => TypeOK
  BY DEF IInv
<1>2. QED
  BY <1>1, InitIInv, NextIInv, PTL DEF Spec

\* No chunk and no turn of the send loop meets a null hash state or a closed
\* file, whatever order clicks, commands, chunks and losses come in
\* (filetransfermanager.cpp:66, :75, :176 and :178).
THEOREM ResourcesOwned == Spec => []WorkerOwnsResources
<1>1. IInv => WorkerOwnsResources
  BY DEF IInv
<1>2. QED
  BY <1>1, InitIInv, NextIInv, PTL DEF Spec

-----------------------------------------------------------------------------
(* The bound on the send buffer needs the typing of the step, no more.      *)

LEMMA NextBuffer ==
  TypeOK /\ SendBufferBounded /\ [Next]_vars => SendBufferBounded'
<1> SUFFICES ASSUME TypeOK, SendBufferBounded, [Next]_vars
             PROVE  SendBufferBounded'
  OBVIOUS
<1> HighWater \in Nat
  BY WaterMarksAssumption
<1>1. CASE buffered' = buffered
  BY <1>1 DEF SendBufferBounded
<1>2. ASSUME NEW p \in Peers, SendChunk(p)
      PROVE  SendBufferBounded'
  BY <1>2 DEF SendChunk, Full, SendBufferBounded, TypeOK
<1>3. ASSUME NEW p \in Peers, Drain(p)
      PROVE  SendBufferBounded'
  BY <1>3 DEF Drain, SendBufferBounded, TypeOK
<1>4. CASE LinkLost
  BY <1>4 DEF LinkLost, SendBufferBounded
<1>5. \/ buffered' = buffered \/ LinkLost
      \/ \E p \in Peers : SendChunk(p) \/ Drain(p)
  <2>1. ASSUME NEW p \in Peers, Worker(p), ~SendChunk(p)
        PROVE  buffered' = buffered
    BY <2>1 DEF Worker, PauseLoop, FinishLoop, SetBackpressure,
                HandleBinaryChunk, ReceiveMetadata, ReceiveAccept,
                ReceiveComplete, ReceiveCancel, OnPeerDisconnected, link
  <2>2. ASSUME NEW p \in Peers, User(p)
        PROVE  buffered' = buffered
    BY <2>2 DEF User, SendFile, CancelTransfer
  <2>3. ASSUME Network, ~LinkLost, \A p \in Peers : ~Drain(p)
        PROVE  buffered' = buffered
    BY <2>3 DEF Network, LoseInFlight, LinkRestored, link
  <2>4. QED
    BY <2>1, <2>2, <2>3 DEF Next, vars, link
<1>6. QED
  BY <1>1, <1>2, <1>3, <1>4, <1>5

\* sendLoop never queues more than one chunk beyond the high-water mark
\* (filetransfermanager.cpp:70), for any marks and any pace of draining.
THEOREM BufferBounded == Spec => []SendBufferBounded
<1>1. Init => SendBufferBounded
  <2>1. Init => \A p \in Peers : buffered[p] = 0
    BY DEF Init
  <2>2. 0 <= HighWater + 1
    BY WaterMarksAssumption
  <2>3. (\A p \in Peers : buffered[p] = 0) => SendBufferBounded
    BY <2>2 DEF SendBufferBounded
  <2>4. QED
    BY <2>1, <2>3
<1>2. QED
  BY <1>1, NextBuffer, TypeCorrect, PTL DEF Spec

-----------------------------------------------------------------------------
(* While opens and writes succeed, a worker's signals tell its state and a   *)
(* receiver's count is the length of the file on its disk. Neither is        *)
(* inductive without IInv.                                                   *)

\* SignalMatchesState and ReceivedIsOnDisk of one peer.
Reports(m, files, sig) ==
  /\ m.state # "Idle" => sig = "transferStarted"
  /\ sig = "transferStarted" => m.state # "Idle" \/ files[m.file] = None

Counts(m, files) ==
  m.state = "Receiving" =>
    m.received = Len(files[m.file]) /\ EndsWith(files[m.file], m.hash)

HonestInv == IInv /\ SignalMatchesState /\ ReceivedIsOnDisk

LEMMA AppendElements ==
  ASSUME NEW S, NEW seq \in Seq(S), NEW e \in S
  PROVE  /\ Append(seq, e) \in Seq(S)
         /\ Len(Append(seq, e)) = Len(seq) + 1
         /\ \A i \in 1..Len(seq) : Append(seq, e)[i] = seq[i]
         /\ Append(seq, e)[Len(seq) + 1] = e
  OBVIOUS

LEMMA EndsWithNothing ==
  ASSUME NEW S, NEW content \in Seq(S)
  PROVE  EndsWith(content, <<>>)
<1>1. Len(content) >= 0 /\ Len(<<>>) = 0
  OBVIOUS
<1>2. QED
  BY <1>1 DEF EndsWith

\* A chunk added to the file and to the hash leaves the one the end of the
\* other.
LEMMA EndsWithAppend ==
  ASSUME NEW S, NEW content \in Seq(S), NEW hash \in Seq(S), NEW e \in S,
         EndsWith(content, hash)
  PROVE  EndsWith(Append(content, e), Append(hash, e))
<1> DEFINE base == Len(content) - Len(hash)
<1>1. /\ Len(content) \in Nat /\ Len(hash) \in Nat
      /\ Len(content) >= Len(hash)
      /\ \A i \in 1..Len(hash) : content[base + i] = hash[i]
  BY DEF EndsWith
<1>2. ASSUME NEW i \in 1..Len(hash) + 1
      PROVE  Append(content, e)[base + i] = Append(hash, e)[i]
  <2>1. CASE i = Len(hash) + 1
    <3>1. base + i = Len(content) + 1
      BY <1>1, <2>1
    <3>2. /\ Append(content, e)[Len(content) + 1] = e
          /\ Append(hash, e)[Len(hash) + 1] = e
      BY AppendElements
    <3>3. QED
      BY <2>1, <3>1, <3>2
  <2>2. CASE i \in 1..Len(hash)
    <3>1. base + i \in 1..Len(content)
      BY <1>1, <2>2
    <3>2. /\ Append(content, e)[base + i] = content[base + i]
          /\ Append(hash, e)[i] = hash[i]
      BY <2>2, <3>1, AppendElements
    <3>3. QED
      BY <1>1, <2>2, <3>2
  <2>3. i \in 1..Len(hash) \/ i = Len(hash) + 1
    BY <1>1
  <2>4. QED
    BY <2>1, <2>2, <2>3
<1>3. /\ Len(Append(content, e)) = Len(content) + 1
      /\ Len(Append(hash, e)) = Len(hash) + 1
  BY AppendElements
<1>4. /\ Len(Append(content, e)) >= Len(Append(hash, e))
      /\ Len(Append(content, e)) - Len(Append(hash, e)) = base
  BY <1>1, <1>3
<1>5. QED
  BY <1>2, <1>3, <1>4 DEF EndsWith

LEMMA HonestOfOnePeer ==
  ASSUME HonestInv, NEW p \in Peers, NEW m, NEW files, NEW sig,
         ftm' = [ftm EXCEPT ![p] = m], disk' = [disk EXCEPT ![p] = files],
         signal' = [signal EXCEPT ![p] = sig],
         Reports(m, files, sig), Counts(m, files)
  PROVE  SignalMatchesState' /\ ReceivedIsOnDisk'
<1>1. /\ ftm'[p] = m /\ disk'[p] = files /\ signal'[p] = sig
      /\ \A q \in Peers \ {p} :
           ftm'[q] = ftm[q] /\ disk'[q] = disk[q] /\ signal'[q] = signal[q]
  BY DEF HonestInv, IInv, TypeOK
<1>2. SignalMatchesState'
  BY <1>1 DEF HonestInv, SignalMatchesState, Reports
<1>3. ReceivedIsOnDisk'
  <2>1. ASSUME NEW q \in Peers
        PROVE  Counts(ftm[q], disk[q])
    BY DEF HonestInv, ReceivedIsOnDisk, Counts
  <2>2. \A q \in Peers : Counts(ftm'[q], disk'[q])
    BY <1>1, <2>1
  <2>3. QED
    BY <2>2 DEF ReceivedIsOnDisk, Counts
<1>4. QED
  BY <1>2, <1>3

\* What one peer's part of the invariant says before the step.
LEMMA HonestPeer ==
  ASSUME HonestInv, NEW p \in Peers
  PROVE  /\ ftm[p] \in Manager
         /\ disk[p] \in [Paths -> Seq(Block) \cup {None}]
         /\ ftm = [ftm EXCEPT ![p] = ftm[p]]
         /\ disk = [disk EXCEPT ![p] = disk[p]]
         /\ signal = [signal EXCEPT ![p] = signal[p]]
         /\ Owns(ftm[p], disk[p], looping[p])
         /\ Reports(ftm[p], disk[p], signal[p]) /\ Counts(ftm[p], disk[p])
  BY DEF HonestInv, IInv, TypeOK, WorkerOwnsResources, SignalMatchesState,
         ReceivedIsOnDisk, Owns, Reports, Counts

LEMMA HonestSendFile ==
  ASSUME HonestInv, ~DiskFails, NEW p \in Peers, NEW s \in Sources,
         SendFile(p, s)
  PROVE  SignalMatchesState' /\ ReceivedIsOnDisk'
<1> DEFINE path == SourcePath(s)
           opened == [Cleanup(ftm[p]) EXCEPT
                        !.state = "Sending", !.file = path, !.mode = "read",
                        !.pos = 0, !.hash = <<>>,
                        !.expectedSize = FileSize(disk[p][path])]
           failed == [Cleanup(ftm[p]) EXCEPT !.file = path]
<1>1. /\ Cleanup(ftm[p]) \in Manager /\ Cleanup(ftm[p]).state = "Idle"
      /\ disk' = [disk EXCEPT ![p] = disk[p]]
  BY HonestPeer, CleanupProperties DEF SendFile
<1>2. opened.state = "Sending" /\ failed.state = "Idle" /\ failed.file = path
  BY <1>1 DEF Manager
<1>3. CASE /\ ftm' = [ftm EXCEPT ![p] = opened]
           /\ signal' = [signal EXCEPT ![p] = "transferStarted"]
  BY <1>1, <1>2, <1>3, HonestOfOnePeer DEF Reports, Counts
<1>4. CASE /\ disk[p][path] = None
           /\ ftm' = [ftm EXCEPT ![p] = failed] /\ signal' = signal
  <2>1. signal' = [signal EXCEPT ![p] = signal[p]]
    BY <1>4, HonestPeer
  <2>2. Reports(failed, disk[p], signal[p]) /\ Counts(failed, disk[p])
    BY <1>2, <1>4 DEF Reports, Counts
  <2>3. QED
    BY <1>1, <1>4, <2>1, <2>2, HonestOfOnePeer
<1>5. QED
  BY <1>3, <1>4 DEF SendFile

LEMMA HonestReceiveMetadata ==
  ASSUME HonestInv, ~DiskFails, NEW p \in Peers, ReceiveMetadata(p)
  PROVE  SignalMatchesState' /\ ReceivedIsOnDisk'
<1> DEFINE s        == Head(control[p]).source
           path     == DownloadPath(NameOf[s])
           tooBig   == FileSize(disk[p][path]) > Size[s]
           kept     == IF tooBig \/ disk[p][path] = None THEN <<>>
                       ELSE disk[p][path]
           prepared == [Cleanup(ftm[p]) EXCEPT !.expectedSize = Size[s],
                                               !.received = 0, !.file = path]
           opened   == [prepared EXCEPT !.state = "Receiving",
                                        !.mode = "append",
                                        !.hash = ReadAll("append", kept),
                                        !.received = ResumeOffset(kept)]
           resumed  == [disk[p] EXCEPT ![path] = kept]
<1>1. Head(control[p]) \in Message
  BY QueueTypes DEF ReceiveMetadata, Pending, HonestInv, IInv, TypeOK
<1>2. s \in Sources
  BY <1>1 DEF ReceiveMetadata, Pending, Message
<1>3. path \in Paths /\ disk[p][path] \in Seq(Block) \cup {None}
  BY <1>2, PathsAreNotNone, FilesAssumption, HonestPeer
<1>4. kept \in Seq(Block)
  BY <1>3
<1>5. resumed[path] = kept
  BY <1>3, HonestPeer
<1>6. Cleanup(ftm[p]) \in Manager
  BY HonestPeer, CleanupProperties
<1>7. /\ opened.state = "Receiving" /\ opened.file = path
      /\ opened.hash = <<>> /\ opened.received = Len(kept)
  BY <1>6 DEF Manager, ReadAll, ResumeOffset
<1>8. Reports(opened, resumed, "transferStarted")
  BY <1>7 DEF Reports
<1>9. Counts(opened, resumed)
  <2>1. EndsWith(kept, <<>>)
    BY <1>4, EndsWithNothing
  <2>2. QED
    BY <1>5, <1>7, <2>1 DEF Counts
<1>10. /\ ftm' = [ftm EXCEPT ![p] = opened]
       /\ disk' = [disk EXCEPT ![p][path] = kept]
       /\ signal' = [signal EXCEPT ![p] = "transferStarted"]
  BY DEF ReceiveMetadata
<1>11. disk' = [disk EXCEPT ![p] = resumed]
  BY <1>10 DEF HonestInv, IInv, TypeOK
<1>12. QED
  BY <1>8, <1>9, <1>10, <1>11, HonestOfOnePeer

\* checkCompletion() announces every end it brings.
LEMMA HonestCheckCompletion ==
  ASSUME HonestInv, NEW p \in Peers,
         NEW m \in Manager, NEW files,
         Reports(m, files, signal[p]), Counts(m, files),
         CheckCompletion(p, m, files)
  PROVE  SignalMatchesState' /\ ReceivedIsOnDisk'
<1> DEFINE kept == m.hash = Cleanup(m).expectedHash
           left == IF kept THEN files ELSE [files EXCEPT ![m.file] = None]
           sig  == IF kept THEN "transferFinished" ELSE "transferCanceled"
<1>1. CASE /\ ftm' = [ftm EXCEPT ![p] = m] /\ disk' = [disk EXCEPT ![p] = files]
           /\ signal' = signal
  BY <1>1, HonestPeer, HonestOfOnePeer
<1>2. CASE UNCHANGED <<ftm, disk, signal>>
  BY <1>2 DEF HonestInv, SignalMatchesState, ReceivedIsOnDisk
<1>3. CASE /\ ftm' = [ftm EXCEPT ![p] = Cleanup(m)]
           /\ disk' = [disk EXCEPT ![p] = left]
           /\ signal' = [signal EXCEPT ![p] = sig]
  <2>1. Reports(Cleanup(m), left, sig) /\ Counts(Cleanup(m), left)
    BY CleanupProperties DEF Reports, Counts
  <2>2. QED
    BY <1>3, <2>1, HonestOfOnePeer
<1>4. QED
  BY <1>1, <1>2, <1>3 DEF CheckCompletion

LEMMA HonestReceiveComplete ==
  ASSUME HonestInv, NEW p \in Peers, ReceiveComplete(p)
  PROVE  SignalMatchesState' /\ ReceivedIsOnDisk'
<1> DEFINE m == [ftm[p] EXCEPT !.expectedHash = Head(control[p]).hash]
<1>1. Head(control[p]) \in Message
  BY QueueTypes DEF ReceiveComplete, Pending, HonestInv, IInv, TypeOK
<1>2. Head(control[p]).hash \in Seq(Block)
  BY <1>1 DEF ReceiveComplete, Pending, Message
<1>3. /\ m \in Manager /\ m.state = ftm[p].state /\ m.file = ftm[p].file
      /\ m.hash = ftm[p].hash /\ m.received = ftm[p].received
  BY <1>2, HonestPeer DEF Manager
<1>4. Reports(m, disk[p], signal[p])
  BY <1>3, HonestPeer DEF Reports
<1>5. Counts(m, disk[p])
  <2>1. Counts(ftm[p], disk[p])
    BY HonestPeer
  <2>2. QED
    BY <1>3, <2>1 DEF Counts
<1>6. QED
  BY <1>3, <1>4, <1>5, HonestCheckCompletion DEF ReceiveComplete

LEMMA HonestHandleBinaryChunk ==
  ASSUME HonestInv, ~DiskFails, NEW p \in Peers, HandleBinaryChunk(p)
  PROVE  SignalMatchesState' /\ ReceivedIsOnDisk'
<1> DEFINE chunk   == Head(binary[p])
           path    == ftm[p].file
           content == disk[p][path]
           hash    == ftm[p].hash
           m == [ftm[p] EXCEPT !.hash = Append(@, chunk), !.received = @ + 1]
           files == [disk[p] EXCEPT ![path] = Append(content, chunk)]
<1>1. CASE ftm[p].state # "Receiving"
  BY <1>1 DEF HandleBinaryChunk, HonestInv, SignalMatchesState, ReceivedIsOnDisk
<1>2. CASE ftm[p].state = "Receiving"
  <2>1. binary[p] # <<>>
    BY OtherIsPeer DEF HandleBinaryChunk, Arrived, HonestInv, IInv, TypeOK
  <2>2. chunk \in Block
    BY <2>1, QueueTypes DEF HonestInv, IInv, TypeOK
  <2>3. /\ path \in Paths /\ hash \in Seq(Block) /\ content \in Seq(Block)
        /\ ftm[p].received \in Nat
    BY <1>2, HonestPeer DEF Owns, Manager
  <2>4. /\ Append(hash, chunk) \in Seq(Block)
        /\ Append(content, chunk) \in Seq(Block)
    BY <2>2, <2>3
  <2>5. m \in Manager
    <3>1. \A h \in Seq(Block), received \in Nat :
            [ftm[p] EXCEPT !.hash = h, !.received = received] \in Manager
      BY HonestPeer DEF Manager
    <3>2. ftm[p].received + 1 \in Nat
      BY <2>3
    <3>3. QED
      BY <2>4, <3>1, <3>2
  <2>6. /\ m.state = "Receiving" /\ m.file = path
        /\ m.hash = Append(hash, chunk) /\ m.received = ftm[p].received + 1
    BY <1>2, HonestPeer DEF Manager
  <2>7. files[path] = Append(content, chunk)
    BY <2>3, HonestPeer
  <2>8. Reports(m, files, signal[p])
    BY <1>2, <2>6, HonestPeer DEF Reports
  <2>9. Counts(m, files)
    <3>1. ftm[p].received = Len(content) /\ EndsWith(content, hash)
      BY <1>2, HonestPeer DEF Counts
    <3>2. EndsWith(Append(content, chunk), Append(hash, chunk))
      BY <2>2, <2>3, <3>1, EndsWithAppend
    <3>3. Len(Append(content, chunk)) = Len(content) + 1
      BY <2>2, <2>3, AppendElements
    <3>4. QED
      BY <2>6, <2>7, <3>1, <3>2, <3>3 DEF Counts
  <2>10. CheckCompletion(p, m, files)
    BY <1>2 DEF HandleBinaryChunk
  <2>11. QED
    BY <2>5, <2>8, <2>9, <2>10, HonestCheckCompletion
<1>3. QED
  BY <1>1, <1>2

\* The handlers that end with cleanup() announce the end.
LEMMA HonestCleanup ==
  ASSUME HonestInv, NEW p \in Peers,
         NEW sig \in {"transferFinished", "transferCanceled"},
         ftm' = [ftm EXCEPT ![p] = Cleanup(@)], disk' = disk,
         signal' = [signal EXCEPT ![p] = sig]
  PROVE  SignalMatchesState' /\ ReceivedIsOnDisk'
<1>1. Reports(Cleanup(ftm[p]), disk[p], sig) /\ Counts(Cleanup(ftm[p]), disk[p])
  BY HonestPeer, CleanupProperties DEF Reports, Counts
<1>2. disk' = [disk EXCEPT ![p] = disk[p]]
  BY HonestPeer
<1>3. QED
  BY <1>1, <1>2, HonestOfOnePeer

\* The send loop changes its own position and hash, nothing a receiver counts.
LEMMA HonestSending ==
  ASSUME HonestInv, NEW p \in Peers, SendChunk(p) \/ ReceiveAccept(p)
  PROVE  SignalMatchesState' /\ ReceivedIsOnDisk'
<1>1. PICK m : /\ ftm' = [ftm EXCEPT ![p] = m]
               /\ m.state = ftm[p].state /\ m.file = ftm[p].file
               /\ m.state = "Receiving" => m = ftm[p]
  <2>1. CASE SendChunk(p)
    <3> DEFINE chunk == disk[p][ftm[p].file][ftm[p].pos + 1]
               m == [ftm[p] EXCEPT !.pos = @ + 1, !.hash = Append(@, chunk)]
    <3>1. ftm' = [ftm EXCEPT ![p] = m]
      BY <2>1 DEF SendChunk, HonestInv, IInv, TypeOK
    <3>2. m.state = ftm[p].state /\ m.file = ftm[p].file
            /\ m.state = "Sending"
      BY <2>1, HonestPeer DEF SendChunk, Owns, Manager
    <3>3. QED
      BY <3>1, <3>2
  <2>2. CASE ReceiveAccept(p)
    <3> DEFINE m == IF ftm[p].state = "Sending"
                    THEN SeekTo(ftm[p], Head(control[p]).offset) ELSE ftm[p]
    <3>1. ftm' = [ftm EXCEPT ![p] = m]
      BY <2>2 DEF ReceiveAccept
    <3>2. /\ m.state = ftm[p].state /\ m.file = ftm[p].file
          /\ m.state = "Receiving" => m = ftm[p]
      BY HonestPeer DEF SeekTo, Manager
    <3>3. QED
      BY <3>1, <3>2
  <2>3. QED
    BY <2>1, <2>2
<1>2. Reports(m, disk[p], signal[p])
  BY <1>1, HonestPeer DEF Reports
<1>3. Counts(m, disk[p])
  <2>1. CASE m.state = "Receiving"
    BY <1>1, <2>1, HonestPeer
  <2>2. CASE m.state # "Receiving"
    BY <2>2 DEF Counts
  <2>3. QED
    BY <2>1, <2>2
<1>4. /\ disk' = [disk EXCEPT ![p] = disk[p]]
      /\ signal' = [signal EXCEPT ![p] = signal[p]]
  BY HonestPeer DEF SendChunk, ReceiveAccept
<1>5. QED
  BY <1>1, <1>2, <1>3, <1>4, HonestOfOnePeer

LEMMA NextHonestInv == ~DiskFails /\ HonestInv /\ [Next]_vars => HonestInv'
<1> SUFFICES ASSUME ~DiskFails, HonestInv, [Next]_vars PROVE HonestInv'
  OBVIOUS
<1>1. IInv'
  BY NextIInv DEF HonestInv
<1>2. CASE UNCHANGED <<ftm, disk, signal>>
  BY <1>1, <1>2 DEF HonestInv, SignalMatchesState, ReceivedIsOnDisk
<1>3. ASSUME NEW p \in Peers,
             FinishLoop(p) \/ CancelTransfer(p) \/ ReceiveCancel(p)
               \/ OnPeerDisconnected(p)
      PROVE  HonestInv'
  BY <1>1, <1>3, HonestCleanup
     DEF FinishLoop, CancelTransfer, ReceiveCancel, OnPeerDisconnected, HonestInv
<1>4. ASSUME NEW p \in Peers, Worker(p)
      PROVE  HonestInv'
  <2>1. CASE PauseLoop(p) \/ SetBackpressure(p)
    BY <1>2, <2>1 DEF PauseLoop, SetBackpressure
  <2>2. QED
    BY <1>1, <1>3, <1>4, <2>1, HonestSending, HonestReceiveMetadata,
       HonestReceiveComplete, HonestHandleBinaryChunk DEF Worker, HonestInv
<1>5. ASSUME NEW p \in Peers, User(p)
      PROVE  HonestInv'
  BY <1>1, <1>3, <1>5, FilesAssumption, HonestSendFile DEF User, HonestInv
<1>6. CASE Network
  BY <1>2, <1>6 DEF Network, Drain, LoseInFlight, LinkLost, LinkRestored
<1>7. QED
  BY <1>2, <1>4, <1>5, <1>6 DEF Next, vars

LEMMA InitHonestInv == Init => HonestInv
<1> SUFFICES ASSUME Init PROVE HonestInv
  OBVIOUS
<1>1. \A p \in Peers : ftm[p].state = "Idle" /\ signal[p] = "none"
  BY DEF Init, NewManager
<1>2. QED
  BY <1>1, InitIInv DEF HonestInv, SignalMatchesState, ReceivedIsOnDisk

LEMMA HonestAlways == ASSUME ~DiskFails PROVE Spec => []HonestInv
<1>1. Init => HonestInv
  BY InitHonestInv
<1>2. HonestInv /\ [Next]_vars => HonestInv'
  BY NextHonestInv
<1>3. QED
  BY <1>1, <1>2, PTL DEF Spec

\* While files can be opened, the window that goes by the last signal alone
\* (mainwindow.cpp:83) is never wrong about a worker in a transfer.
THEOREM SignalsTellState == ASSUME ~DiskFails PROVE Spec => []SignalMatchesState
<1>1. HonestInv => SignalMatchesState
  BY DEF HonestInv
<1>2. QED
  BY <1>1, HonestAlways, PTL

\* While writes succeed, m_receivedBytes is the length of the download and the
\* running hash is that of its last blocks, through every resume, cancel and
\* stray chunk (filetransfermanager.cpp:129 and :178).
THEOREM CountIsOnDisk == ASSUME ~DiskFails PROVE Spec => []ReceivedIsOnDisk
<1>1. HonestInv => ReceivedIsOnDisk
  BY DEF HonestInv
<1>2. QED
  BY <1>1, HonestAlways, PTL

=============================================================================
