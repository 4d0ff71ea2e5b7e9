---------------------------- MODULE FileTransfer ----------------------------
(***************************************************************************)
(* Two FileTransferManager objects (filetransfermanager.cpp), one per      *)
(* peer, talking over the two data channels P2PClient wires up: "control"  *)
(* for JSON commands and "binary" for chunks of the file.                  *)
(*                                                                         *)
(* Each manager lives on a worker thread with its own event loop: handlers *)
(* run one at a time, except that the rtc threads drain the send buffer    *)
(* while sendLoop is running, so the loop is one action per iteration.     *)
(* The two channels are ordered, but nothing orders one against the other: *)
(* JSON commands hop through the UI thread (p2pclient.cpp:230), chunks do  *)
(* not (p2pclient.cpp:224).                                                *)
(*                                                                         *)
(* Data is abstracted to blocks of CHUNK_SIZE bytes: block i of source s   *)
(* is <<s, i>>, a file is a sequence of blocks, and the XXH3 hash of some  *)
(* blocks is the sequence of those blocks (no two inputs collide).         *)
(*                                                                         *)
(* An operator Name_Change is Name with a change that a slip in the code   *)
(* could make; nothing uses it (the README names the property it breaks).  *)
(***************************************************************************)
EXTENDS Integers, Sequences

CONSTANTS
  Peers,        \* the two connected applications
  Sources,      \* the files a user may send
  Names,        \* the file names that appear on the wire
  Size,         \* Size[s]: length of source s, in blocks
  NameOf,       \* NameOf[s]: the name announced for s
  Outbox,       \* Outbox[p]: the sources on p's machine
  HighWater,    \* HIGH_WATER_MARK, in blocks
  LowWater,     \* BINARY_LOW_WATER_MARK, in blocks
  Leftovers,    \* whether download folders may hold an earlier partial file
  DiskFails,    \* whether QFile::open and QFile::write may fail
  MaxSends,     \* bound: sendFile calls of each peer
  MaxCancels,   \* bound: clicks on Cancel of each peer
  MaxLosses,    \* bound: times the connection breaks
  None          \* no file, no hash

Block == Sources \X Nat

Content(s) == [i \in 1..Size[s] |-> <<s, i>>]

SourcePath(s) == <<"source", s>>

DownloadPath(n) == <<"download", n>>

Paths == {SourcePath(s) : s \in Sources} \cup {DownloadPath(n) : n \in Names}

ASSUME PeersAssumption == \E a, b \in Peers : a # b /\ Peers = {a, b}

ASSUME FilesAssumption ==
  /\ Size \in [Sources -> Nat]
  /\ NameOf \in [Sources -> Names]
  /\ Outbox \in [Peers -> SUBSET Sources]
  /\ None \notin Paths
  /\ None \notin Seq(Block)

ASSUME WaterMarksAssumption ==
  HighWater \in Nat /\ LowWater \in Nat /\ LowWater < HighWater

ASSUME BoundsAssumption ==
  /\ MaxSends \in [Peers -> Nat] /\ MaxCancels \in [Peers -> Nat]
  /\ MaxLosses \in Nat
  /\ Leftovers \in BOOLEAN /\ DiskFails \in BOOLEAN

Other(p) == CHOOSE q \in Peers : q # p

VARIABLES
  ftm,        \* the FileTransferManager of each peer
  disk,       \* disk[p][path]: the blocks of a file, or None
  looping,    \* the worker is inside the while of sendLoop
  crashed,    \* the process died in XXH3_64bits_digest(nullptr)
  signal,     \* the last of transferStarted/Finished/Canceled emitted
  control,    \* JSON commands on their way to each peer, or in its queues
  binary,     \* chunks on their way to each peer, or in its worker's queue
  buffered,   \* bufferedAmount(): the chunks p has queued but not sent
  lowEvents,  \* bufferedAmountLow callbacks the worker has yet to handle
  up,         \* both data channels are open
  closing,    \* an onPeerDisconnected call is queued for the worker
  announced,  \* history: the source whose metadata each peer last handled
  verdict,    \* history: what each peer's checkCompletion compared, since the
              \* other one last called sendFile
  sends, cancels, losses    \* counters for the bounds

link == <<control, binary, buffered, lowEvents>>
history == <<announced, verdict>>
counters == <<sends, cancels, losses>>
vars == <<ftm, disk, looping, crashed, signal, link, up, closing, history,
          counters>>

-----------------------------------------------------------------------------
(* The members of FileTransferManager and of its QFile that outlive a call. *)

States == {"Idle", "Sending", "Receiving"}

Modes == {"closed", "read", "append"}

Manager ==
  [state : States,
   file : Paths \cup {None},     \* m_file.fileName()
   mode : Modes,                 \* m_file.openMode()
   pos : Nat,                    \* m_file.pos(), when reading
   hash : Seq(Block) \cup {None},          \* m_hashState, None for nullptr
   expectedHash : Seq(Block) \cup {None},  \* m_expectedHash
   expectedSize : Nat,
   received : Nat]

NewManager ==
  [state |-> "Idle", file |-> None, mode |-> "closed", pos |-> 0,
   hash |-> None, expectedHash |-> None, expectedSize |-> 0, received |-> 0]

Message ==
  [type : {"metadata"}, source : Sources]
    \cup [type : {"accept_transfer"}, offset : Nat]
    \cup [type : {"cancel_transfer", "receiver_canceled"}]
    \cup [type : {"transfer_complete"}, hash : Seq(Block)]

Verdict ==
  [source : Sources \cup {None}, content : Seq(Block) \cup {None},
   sent : Seq(Block), got : Seq(Block), kept : BOOLEAN]

Signals == {"none", "transferStarted", "transferFinished", "transferCanceled"}

FileSize(content) == IF content = None THEN 0 ELSE Len(content)

\* QFile::open(Append) opens for writing only: a read returns nothing.
ReadAll(mode, content) == IF mode = "read" THEN content ELSE <<>>

Cleanup_KeepsHash(m) ==
  [m EXCEPT !.state = "Idle", !.mode = "closed", !.expectedHash = None]

Cleanup_KeepsState(m) ==
  [m EXCEPT !.mode = "closed", !.hash = None, !.expectedHash = None]

Cleanup(m) ==
  [m EXCEPT !.state = "Idle", !.mode = "closed", !.hash = None,
            !.expectedHash = None]

\* sendJson, sendBinary: dropped with a warning when the channel is not open.
Posted(queue, p, message) ==
  IF up THEN [queue EXCEPT ![Other(p)] = Append(@, message)] ELSE queue

Taken(queue, p) == [queue EXCEPT ![p] = Tail(@)]

\* The event loop of p's worker can start another handler.
Free(p) == ~crashed[p] /\ ~looping[p]

Pending(p, types) ==
  Free(p) /\ control[p] # <<>> /\ Head(control[p]).type \in types

-----------------------------------------------------------------------------
(* Sending. *)

SendFile(p, s) ==
  /\ Free(p)
  /\ sends[p] < MaxSends[p]
  /\ sends' = [sends EXCEPT ![p] = @ + 1]
  /\ LET path == SourcePath(s) IN
     \/ /\ disk[p][path] # None
        /\ ftm' = [ftm EXCEPT ![p] =
             [Cleanup(@) EXCEPT !.state = "Sending", !.file = path,
                                !.mode = "read", !.pos = 0, !.hash = <<>>,
                                !.expectedSize = FileSize(disk[p][path])]]
        /\ control' = Posted(control, p, [type |-> "metadata", source |-> s])
        /\ signal' = [signal EXCEPT ![p] = "transferStarted"]
     \/ /\ DiskFails \/ disk[p][path] = None
        /\ ftm' = [ftm EXCEPT ![p] = [Cleanup(@) EXCEPT !.file = path]]
        /\ UNCHANGED <<control, signal>>
  /\ verdict' = [verdict EXCEPT ![Other(p)] = None]
  /\ UNCHANGED <<disk, looping, crashed, binary, buffered, lowEvents, up,
                 closing, announced, cancels, losses>>

AtEnd(p) == ftm[p].pos >= FileSize(disk[p][ftm[p].file])

Full_OneMore(p) == buffered[p] > HighWater + 1

Full(p) == buffered[p] > HighWater

SendChunk(p) ==
  /\ looping[p] /\ ~AtEnd(p) /\ ~Full(p)
  /\ LET chunk == disk[p][ftm[p].file][ftm[p].pos + 1] IN
     /\ ftm' = [ftm EXCEPT ![p].pos = @ + 1, ![p].hash = Append(@, chunk)]
     /\ binary' = Posted(binary, p, chunk)
  /\ buffered' = IF up THEN [buffered EXCEPT ![p] = @ + 1] ELSE buffered
  /\ UNCHANGED <<disk, looping, crashed, signal, control, lowEvents, up,
                 closing, history, counters>>

PauseLoop(p) ==
  /\ looping[p] /\ ~AtEnd(p) /\ Full(p)
  /\ looping' = [looping EXCEPT ![p] = FALSE]
  /\ UNCHANGED <<ftm, disk, crashed, signal, link, up, closing, history,
                 counters>>

FinishLoop(p) ==
  /\ looping[p] /\ AtEnd(p)
  /\ control' = Posted(control, p,
                       [type |-> "transfer_complete", hash |-> ftm[p].hash])
  /\ ftm' = [ftm EXCEPT ![p] = Cleanup(@)]
  /\ looping' = [looping EXCEPT ![p] = FALSE]
  /\ signal' = [signal EXCEPT ![p] = "transferFinished"]
  /\ UNCHANGED <<disk, crashed, binary, buffered, lowEvents, up, closing,
                 history, counters>>

SetBackpressure_Inverted(p) ==
  /\ Free(p) /\ lowEvents[p] > 0
  /\ lowEvents' = [lowEvents EXCEPT ![p] = @ - 1]
  /\ UNCHANGED <<ftm, disk, looping, crashed, signal, control, binary, buffered,
                 up, closing, history, counters>>

\* setBackpressure(false), the slot behind a bufferedAmountLow callback.
SetBackpressure(p) ==
  /\ Free(p) /\ lowEvents[p] > 0
  /\ lowEvents' = [lowEvents EXCEPT ![p] = @ - 1]
  /\ looping' = [looping EXCEPT ![p] = ftm[p].state = "Sending"]
  /\ UNCHANGED <<ftm, disk, crashed, signal, control, binary, buffered, up,
                 closing, history, counters>>

SeekTo_Ignored(m, offset) == m

\* The offset is the peer's word; a position past the end is refused.
SeekTo(m, offset) ==
  [m EXCEPT !.pos = IF offset <= m.expectedSize THEN offset ELSE @]

ReceiveAccept(p) ==
  /\ Pending(p, {"accept_transfer"})
  /\ control' = Taken(control, p)
  /\ LET isSending == ftm[p].state = "Sending" IN
     /\ ftm' = [ftm EXCEPT ![p] =
          IF isSending THEN SeekTo(@, Head(control[p]).offset) ELSE @]
     /\ looping' = [looping EXCEPT ![p] = isSending]
  /\ UNCHANGED <<disk, crashed, signal, binary, buffered, lowEvents, up,
                 closing, history, counters>>

-----------------------------------------------------------------------------
(* Receiving. *)

ResumeOffset_Overlap(content) == Len(content) - 1

ResumeOffset_Restart(content) == 0

\* existingSize, once a file longer than the announced one is gone.
ResumeOffset(content) == Len(content)

ReceiveMetadata(p) ==
  /\ Pending(p, {"metadata"})
  /\ LET s        == Head(control[p]).source
         path     == DownloadPath(NameOf[s])
         tooBig   == FileSize(disk[p][path]) > Size[s]
         kept     == IF tooBig \/ disk[p][path] = None THEN <<>>
                     ELSE disk[p][path]
         prepared == [Cleanup(ftm[p]) EXCEPT !.expectedSize = Size[s],
                                             !.received = 0, !.file = path]
     IN
     /\ announced' = [announced EXCEPT ![p] = s]
     /\ \/ /\ disk' = [disk EXCEPT ![p][path] = kept]
           /\ ftm' = [ftm EXCEPT ![p] =
                [prepared EXCEPT !.state = "Receiving", !.mode = "append",
                                 !.hash = ReadAll("append", kept),
                                 !.received = ResumeOffset(kept)]]
           /\ signal' = [signal EXCEPT ![p] = "transferStarted"]
           /\ control' = Posted(Taken(control, p), p,
                                [type |-> "accept_transfer",
                                 offset |-> ResumeOffset(kept)])
        \/ /\ DiskFails
           /\ disk' = [disk EXCEPT ![p][path] = IF tooBig THEN None ELSE @]
           /\ ftm' = [ftm EXCEPT ![p] = prepared]
           /\ control' = Taken(control, p)
           /\ UNCHANGED signal
  /\ UNCHANGED <<looping, crashed, binary, buffered, lowEvents, up, closing,
                 verdict, counters>>

\* What checkCompletion does with manager m, the files of p being "files". It
\* compares the hash with m_expectedHash only after cleanup() (lines 227, 229).
CheckCompletion(p, m, files) ==
  LET due    == /\ m.expectedSize > 0 /\ m.received >= m.expectedSize
                /\ m.expectedHash # None
      closed == Cleanup(m)
      kept   == m.hash = closed.expectedHash
  IN
  \/ /\ ~due
     /\ ftm' = [ftm EXCEPT ![p] = m]
     /\ disk' = [disk EXCEPT ![p] = files]
     /\ UNCHANGED <<signal, crashed, verdict>>
  \/ /\ due /\ m.hash = None
     /\ crashed' = [crashed EXCEPT ![p] = TRUE]
     /\ UNCHANGED <<ftm, disk, signal, verdict>>
  \/ /\ due /\ m.hash # None
     /\ ftm' = [ftm EXCEPT ![p] = closed]
     /\ disk' = [disk EXCEPT ![p] =
          IF kept THEN files ELSE [files EXCEPT ![m.file] = None]]
     /\ signal' = [signal EXCEPT ![p] =
          IF kept THEN "transferFinished" ELSE "transferCanceled"]
     /\ verdict' = [verdict EXCEPT ![p] =
          [source |-> announced[p], content |-> files[m.file],
           sent |-> m.expectedHash, got |-> m.hash, kept |-> kept]]
     /\ UNCHANGED crashed

ReceiveComplete_StoresOnly(p) ==
  /\ Pending(p, {"transfer_complete"})
  /\ control' = Taken(control, p)
  /\ ftm' = [ftm EXCEPT ![p].expectedHash = Head(control[p]).hash]
  /\ UNCHANGED <<disk, looping, crashed, signal, binary, buffered, lowEvents,
                 up, closing, history, counters>>

ReceiveComplete(p) ==
  /\ Pending(p, {"transfer_complete"})
  /\ control' = Taken(control, p)
  /\ CheckCompletion(p, [ftm[p] EXCEPT !.expectedHash = Head(control[p]).hash],
                     disk[p])
  /\ UNCHANGED <<looping, binary, buffered, lowEvents, up, closing, announced,
                 counters>>

\* The chunks of binary[p] that have left the send buffer of the other peer.
Arrived(p) == Len(binary[p]) - buffered[Other(p)]

HandleBinaryChunk(p) ==
  /\ Free(p) /\ Arrived(p) > 0
  /\ binary' = Taken(binary, p)
  /\ LET chunk == Head(binary[p])
         path  == ftm[p].file
     IN
     \/ /\ ftm[p].state # "Receiving"
        /\ UNCHANGED <<ftm, disk, signal, crashed, verdict>>
     \/ /\ ftm[p].state = "Receiving"
        /\ \E written \in {Append(disk[p][path], chunk)} \cup
                          (IF DiskFails THEN {disk[p][path]} ELSE {}) :
             CheckCompletion(p,
               [ftm[p] EXCEPT !.hash = Append(@, chunk), !.received = @ + 1],
               [disk[p] EXCEPT ![path] = written])
  /\ UNCHANGED <<looping, control, buffered, lowEvents, up, closing,
                 announced, counters>>

-----------------------------------------------------------------------------
(* Ending a transfer early. *)

CancelTransfer(p) ==
  /\ Free(p)
  /\ cancels[p] < MaxCancels[p]
  /\ cancels' = [cancels EXCEPT ![p] = @ + 1]
  /\ control' = Posted(control, p,
       [type |-> IF ftm[p].state = "Sending" THEN "cancel_transfer"
                 ELSE "receiver_canceled"])
  /\ ftm' = [ftm EXCEPT ![p] = Cleanup(@)]
  /\ signal' = [signal EXCEPT ![p] = "transferCanceled"]
  /\ UNCHANGED <<disk, looping, crashed, binary, buffered, lowEvents, up,
                 closing, history, sends, losses>>

ReceiveCancel_RemovesFile(p) ==
  /\ Pending(p, {"cancel_transfer", "receiver_canceled"})
  /\ control' = Taken(control, p)
  /\ disk' = [disk EXCEPT ![p] =
       [path \in Paths |-> IF path = ftm[p].file THEN None ELSE @[path]]]
  /\ ftm' = [ftm EXCEPT ![p] = Cleanup(@)]
  /\ signal' = [signal EXCEPT ![p] = "transferCanceled"]
  /\ UNCHANGED <<looping, crashed, binary, buffered, lowEvents, up, closing,
                 history, counters>>

ReceiveCancel(p) ==
  /\ Pending(p, {"cancel_transfer", "receiver_canceled"})
  /\ control' = Taken(control, p)
  /\ ftm' = [ftm EXCEPT ![p] = Cleanup(@)]
  /\ signal' = [signal EXCEPT ![p] = "transferCanceled"]
  /\ UNCHANGED <<disk, looping, crashed, binary, buffered, lowEvents, up,
                 closing, history, counters>>

OnPeerDisconnected_SignalsOnly(p) ==
  /\ Free(p) /\ closing[p] /\ control[p] = <<>> /\ binary[p] = <<>>
  /\ closing' = [closing EXCEPT ![p] = FALSE]
  /\ signal' = [signal EXCEPT ![p] = "transferCanceled"]
  /\ UNCHANGED <<ftm, disk, looping, crashed, link, up, history, counters>>

OnPeerDisconnected_RemovesPart(p) ==
  /\ Free(p) /\ closing[p] /\ control[p] = <<>> /\ binary[p] = <<>>
  /\ closing' = [closing EXCEPT ![p] = FALSE]
  /\ disk' = IF ftm[p].state = "Receiving"
             THEN [disk EXCEPT ![p][ftm[p].file] = None] ELSE disk
  /\ ftm' = [ftm EXCEPT ![p] = Cleanup(@)]
  /\ signal' = [signal EXCEPT ![p] = "transferCanceled"]
  /\ UNCHANGED <<looping, crashed, link, up, history, counters>>

\* What the lost connection had already delivered is queued ahead of this call.
OnPeerDisconnected(p) ==
  /\ Free(p) /\ closing[p] /\ control[p] = <<>> /\ binary[p] = <<>>
  /\ closing' = [closing EXCEPT ![p] = FALSE]
  /\ ftm' = [ftm EXCEPT ![p] = Cleanup(@)]
  /\ signal' = [signal EXCEPT ![p] = "transferCanceled"]
  /\ UNCHANGED <<disk, looping, crashed, link, up, history, counters>>

-----------------------------------------------------------------------------
(* The data channels: libdatachannel, as the code uses it. *)

\* A chunk leaves the send buffer; crossing the threshold raises the callback.
Drain(p) ==
  /\ buffered[p] > 0
  /\ buffered' = [buffered EXCEPT ![p] = @ - 1]
  /\ lowEvents' = IF buffered[p] = LowWater + 1
                  THEN [lowEvents EXCEPT ![p] = @ + 1] ELSE lowEvents
  /\ UNCHANGED <<ftm, disk, looping, crashed, signal, control, binary, up,
                 closing, history, counters>>

\* The connection breaks, or a peer has died; the send buffers are lost.
LinkLost ==
  /\ up
  /\ losses < MaxLosses \/ \E p \in Peers : crashed[p]
  /\ up' = FALSE
  /\ losses' = losses + 1
  /\ binary' = [p \in Peers |-> SubSeq(binary[p], 1, Arrived(p))]
  /\ buffered' = [p \in Peers |-> 0]
  /\ closing' = [p \in Peers |-> TRUE]
  /\ UNCHANGED <<ftm, disk, looping, crashed, signal, control, lowEvents,
                 history, sends, cancels>>

DropLast(queue, p) == [queue EXCEPT ![p] = SubSeq(@, 1, Len(@) - 1)]

\* Of what was in flight, the last part never arrives.
LoseInFlight(p) ==
  /\ ~up
  /\ \/ /\ control[p] # <<>>
        /\ control' = DropLast(control, p) /\ UNCHANGED binary
     \/ /\ binary[p] # <<>>
        /\ binary' = DropLast(binary, p) /\ UNCHANGED control
  /\ UNCHANGED <<ftm, disk, looping, crashed, signal, buffered, lowEvents, up,
                 closing, history, counters>>

\* The users connect again, both having been told that the peer was gone.
LinkRestored ==
  /\ ~up /\ \A p \in Peers : ~crashed[p] /\ ~closing[p]
  /\ up' = TRUE
  /\ UNCHANGED <<ftm, disk, looping, crashed, signal, link, closing,
                 history, counters>>

-----------------------------------------------------------------------------

\* What an earlier session may have left of the file n in a download folder.
Remains(n) ==
  {None} \cup IF Leftovers
              THEN UNION {{SubSeq(Content(s), 1, k) : k \in 0..Size[s]} :
                            s \in {t \in Sources : NameOf[t] = n}}
              ELSE {}

InitialDisk(p, left) ==
  [path \in Paths |->
     LET x == path[2] IN
     IF path[1] = "download" THEN left[p][x]
     ELSE IF x \in Outbox[p] THEN Content(x) ELSE None]

Init ==
  /\ ftm = [p \in Peers |-> NewManager]
  /\ \E left \in [Peers -> [Names -> UNION {Remains(n) : n \in Names}]] :
       /\ \A p \in Peers, n \in Names : left[p][n] \in Remains(n)
       /\ disk = [p \in Peers |-> InitialDisk(p, left)]
  /\ looping = [p \in Peers |-> FALSE]
  /\ crashed = [p \in Peers |-> FALSE]
  /\ signal = [p \in Peers |-> "none"]
  /\ control = [p \in Peers |-> <<>>]
  /\ binary = [p \in Peers |-> <<>>]
  /\ buffered = [p \in Peers |-> 0]
  /\ lowEvents = [p \in Peers |-> 0]
  /\ up = TRUE
  /\ closing = [p \in Peers |-> FALSE]
  /\ announced = [p \in Peers |-> None]
  /\ verdict = [p \in Peers |-> None]
  /\ sends = [p \in Peers |-> 0]
  /\ cancels = [p \in Peers |-> 0]
  /\ losses = 0

\* Everything the worker thread of p does on its own account.
Worker(p) ==
  \/ SendChunk(p) \/ PauseLoop(p) \/ FinishLoop(p)
  \/ SetBackpressure(p) \/ HandleBinaryChunk(p)
  \/ ReceiveMetadata(p) \/ ReceiveAccept(p)
  \/ ReceiveComplete(p) \/ ReceiveCancel(p)
  \/ OnPeerDisconnected(p)

User(p) == (\E s \in Outbox[p] : SendFile(p, s)) \/ CancelTransfer(p)

Network == (\E p \in Peers : Drain(p) \/ LoseInFlight(p))
             \/ LinkLost \/ LinkRestored

Next == Network \/ \E p \in Peers : Worker(p) \/ User(p)

Spec == Init /\ [][Next]_vars

-----------------------------------------------------------------------------
(* Users who wait: they start a transfer only over an open connection with  *)
(* nothing of an earlier one left anywhere, and cancel only a running one.  *)
(* The window enforces neither (see the README), so Spec does not either.   *)

Quiet ==
  /\ up
  /\ \A p \in Peers :
       /\ control[p] = <<>> /\ binary[p] = <<>>
       /\ lowEvents[p] = 0 /\ ~looping[p] /\ ~closing[p]

Patient ==
  \A p \in Peers :
    /\ sends'[p] # sends[p] =>
         Quiet /\ \A q \in Peers : ftm[q].state = "Idle"
    /\ cancels'[p] # cancels[p] => ftm[p].state # "Idle"

PatientSpec == Init /\ [][Next /\ Patient]_vars

\* Threads keep running and open channels deliver; no fairness for the users,
\* nor for the loss and return of the connection, unless a peer has died.
Fairness ==
  /\ \A p \in Peers : WF_vars(Worker(p)) /\ WF_vars(Drain(p))
  /\ WF_vars(LinkLost /\ \E p \in Peers : crashed[p])

FairSpec == Spec /\ Fairness

PatientFairSpec == PatientSpec /\ Fairness

-----------------------------------------------------------------------------
(* Properties. *)

TypeOK ==
  /\ ftm \in [Peers -> Manager]
  /\ disk \in [Peers -> [Paths -> Seq(Block) \cup {None}]]
  /\ looping \in [Peers -> BOOLEAN]
  /\ crashed \in [Peers -> BOOLEAN]
  /\ signal \in [Peers -> Signals]
  /\ control \in [Peers -> Seq(Message)]
  /\ binary \in [Peers -> Seq(Block)]
  /\ buffered \in [Peers -> Nat]
  /\ lowEvents \in [Peers -> Nat]
  /\ up \in BOOLEAN
  /\ closing \in [Peers -> BOOLEAN]
  /\ announced \in [Peers -> Sources \cup {None}]
  /\ verdict \in [Peers -> Verdict \cup {None}]
  /\ sends \in [Peers -> Nat] /\ cancels \in [Peers -> Nat] /\ losses \in Nat

\* The hash state and the open file exist exactly while a transfer runs, in the
\* mode its role needs, so neither a chunk nor the send loop can meet a null
\* hash state or a closed file (filetransfermanager.cpp:75 and :178).
WorkerOwnsResources ==
  \A p \in Peers :
    /\ ftm[p].state = "Idle" <=> ftm[p].hash = None
    /\ ftm[p].state = "Sending" <=> ftm[p].mode = "read"
    /\ ftm[p].state = "Receiving" <=> ftm[p].mode = "append"
    /\ looping[p] => ftm[p].state = "Sending"
    /\ ftm[p].state # "Idle" =>
         ftm[p].file # None /\ disk[p][ftm[p].file] # None

\* However the pauses of sendLoop, its restarts and the draining interleave, the
\* send buffer exceeds the high-water mark by one chunk at most
\* (filetransfermanager.cpp:69).
SendBufferBounded == \A p \in Peers : buffered[p] <= HighWater + 1

EndsWith(content, end) ==
  /\ Len(content) >= Len(end)
  /\ \A i \in 1..Len(end) : content[Len(content) - Len(end) + i] = end[i]

\* The offset a receiver counts from is the length of the file on its disk, and
\* the hash it will check covers exactly the last blocks of that file
\* (filetransfermanager.cpp:129 and :178).
ReceivedIsOnDisk ==
  \A p \in Peers :
    ftm[p].state = "Receiving" =>
      LET content == disk[p][ftm[p].file]
      IN  ftm[p].received = Len(content) /\ EndsWith(content, ftm[p].hash)

\* The window derives m_transferActive from the last signal alone
\* (mainwindow.cpp:83): a worker in a transfer has said so, and one without has
\* announced the end, unless sendFile failed on a file that is gone (line 44).
SignalMatchesState ==
  \A p \in Peers :
    /\ ftm[p].state # "Idle" => signal[p] = "transferStarted"
    /\ signal[p] = "transferStarted" =>
         \/ ftm[p].state # "Idle"
         \/ disk[p][ftm[p].file] = None

\* Every file a receiver has judged was the announced file, whole, resumed or
\* not, and both sides had hashed the same blocks: whatever was cancelled, lost
\* or sent before, an honest transfer brings a verdict on the right data
\* (filetransfermanager.cpp:129, :154 and :221).
JudgedFileIsExact ==
  \A p \in Peers : verdict[p] # None =>
    /\ verdict[p].content = Content(verdict[p].source)
    /\ verdict[p].got = verdict[p].sent

\* A file that arrived whole is kept: "The receiver gets it in their save
\* location" (README.md:69).
CompleteFileIsKept ==
  \A p \in Peers :
    verdict[p] # None /\ verdict[p].content = Content(verdict[p].source)
      => verdict[p].kept

\* The hash the receiver judges by is the hash of the file on its disk: "which
\* the receiver checks against the file it wrote", "by hashing what's already
\* on disk" (README.md:19).
HashCoversFile ==
  \A p \in Peers : verdict[p] # None => verdict[p].got = verdict[p].content

\* A digest is asked of a hash state, never of a null pointer: "statePtr must
\* not be NULL" (xxhash.h:1348, of XXH3_64bits_digest).
DigestHasState == \A p \in Peers : ~crashed[p]

\* No transfer ever removes or changes a file on the sending side: the removal
\* after a hash mismatch only meets downloads (filetransfermanager.cpp:234).
SourcesIntact ==
  \A p \in Peers : \A s \in Outbox[p] : disk[p][SourcePath(s)] = Content(s)

\* Once nothing is in flight nobody is left waiting for the other side: no
\* order of cancels, losses and late messages leaves a peer in a transfer that
\* nothing will ever end (filetransfermanager.cpp:151 and :165).
NobodyLeftWaiting == Quiet => \A p \in Peers : ftm[p].state = "Idle"

\* Every transfer ends, on both sides.
TransferEnds ==
  \A p \in Peers : ftm[p].state # "Idle" ~> ftm[p].state = "Idle"

\* What a user sends gets its verdict on the other side, unless somebody cancels
\* or the connection breaks: the send loop, stopped at the high-water mark, is
\* restarted until the last chunk and the hash are out
\* (filetransfermanager.cpp:70, p2pclient.cpp:196).
SentIsJudged ==
  \A p \in Peers :
    ftm[p].state = "Sending" ~>
      \/ verdict[Other(p)] # None
      \/ losses > 0 \/ \E q \in Peers : cancels[q] > 0

-----------------------------------------------------------------------------
(* What a transfer is to its users: see HandOver. An offer stands while one *)
(* side is in the transfer or the announcement of it is still under way.    *)

Announced(p, s) ==
  \E i \in DOMAIN control[Other(p)] :
    LET message == control[Other(p)][i] IN
    message.type = "metadata" /\ message.source = s

Dealing(p, s) ==
  \/ ftm[p].state = "Sending" /\ ftm[p].file = SourcePath(s)
  \/ ftm[Other(p)].state = "Receiving" /\ announced[Other(p)] = s
  \/ Announced(p, s)

Deals == {deal \in Peers \X Sources : Dealing(deal[1], deal[2])}

Copy == [p \in Peers |-> [n \in Names |-> disk[p][DownloadPath(n)]]]

Promise == INSTANCE HandOver WITH deals <- Deals, copy <- Copy

\* One file is handed over at a time. Only the receiver of it writes, only under
\* the name announced, only the block that comes next; it removes the file only
\* when that is whole, so that no cancel, loss or late chunk costs a block a
\* resume could go on from (filetransfermanager.cpp:107, :178 and :234).
HandsOver == Promise!Spec

=============================================================================
