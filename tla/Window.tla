------------------------------- MODULE Window -------------------------------
(***************************************************************************)
(* MainWindow (mainwindow.cpp) on the UI thread, the worker it posts calls *)
(* to and takes signals from, and config.json, through starts and stops of *)
(* the program.                                                            *)
(*                                                                         *)
(* The window and the worker know of each other by two queues only, so     *)
(* each is always a little behind. What makes this hard is that a modal    *)
(* box or a file dialog runs an event loop of its own: the handler that    *)
(* opened it waits in the middle while other signals are handled, and goes *)
(* on after them. "boxes" is the stack of those handlers.                  *)
(*                                                                         *)
(* The worker is the part of FileTransfer the window can see: which        *)
(* transfer runs, and what it emits. What the other peer does to it is     *)
(* open (PeerSends, PeerCancels, EndTransfer).                             *)
(***************************************************************************)
EXTENDS AppConfig, Sequences

CONSTANTS
  Sendable,       \* names of the files users send
  Unopenable,     \* those of them that can be opened on neither machine
  NoFile,         \* an empty label, a worker that never opened a file
  MaxEvents       \* bound: clicks, drags, and what peers and others do

ASSUME WindowAssumption ==
  /\ Unopenable \subseteq Sendable /\ NoFile \notin Sendable
  /\ MaxEvents \in Nat

VARIABLES
  running,    \* the program
  config,     \* m_appConfig
  window,     \* the flags and widgets of MainWindow
  boxes,      \* what is modal, the innermost first
  dragged,    \* the file being dragged over the window, and whether taken
  worker,     \* the FileTransferManager, as far as the window can tell
  toWorker,   \* calls posted to the worker
  toWindow,   \* signals queued for the window
  overtaken,  \* history: the last start was handled amid a success box
  events

vars == <<configVars, running, config, window, boxes, dragged, worker,
          toWorker, toWindow, overtaken, events>>

Boxes == {"success", "disconnected", "notConnected", "noTarget",
          "sendDialog", "folderDialog"}

Call ==
  [type : {"sendFile"}, file : Sendable]
    \cup [type : {"cancelTransfer", "onPeerDisconnected"}]
    \cup [type : {"setDownloadPath"}, folder : Folders]

Signal ==
  [type : {"transferStarted"}, file : Sendable]
    \cup [type : {"transferFinished", "transferCanceled"}]

\* The call and send buttons are enabled as connected says (lines 66, 67, 74,
\* 75), so they have no field.
Widgets ==
  [connected : BOOLEAN,              \* m_connected
   active : BOOLEAN,                 \* m_transferActive
   fileName : Sendable \cup {NoFile},
   cancelEnabled : BOOLEAN,
   folderEnabled : BOOLEAN,
   folder : Folders]                 \* the text of downloadPath

Manager ==
  [state : {"Idle", "Sending", "Receiving"}, file : Sendable \cup {NoFile},
   folder : Folders]

Event == events < MaxEvents /\ events' = events + 1

Post(call) == toWorker' = Append(toWorker, call)

\* Clicks and drops reach the window only while no box is open.
Clickable == running /\ boxes = <<>> /\ dragged.file = NoFile

SuccessShown == \E i \in DOMAIN boxes : boxes[i] = "success"

Waiting(type) == \E i \in DOMAIN toWorker : toWorker[i].type = type

Opens(box) == boxes' = <<box>> \o boxes

NothingDragged == [file |-> NoFile, accepted |-> FALSE]

-----------------------------------------------------------------------------
(* Starting and stopping. *)

Widgets0(folder) ==
  [connected |-> FALSE, active |-> FALSE, fileName |-> NoFile,
   cancelEnabled |-> FALSE, folderEnabled |-> TRUE, folder |-> folder]

Worker0(folder) == [state |-> "Idle", file |-> NoFile, folder |-> folder]

\* The constructor: load, and the folder handed to the worker and the label.
Start ==
  /\ ~running
  /\ running' = TRUE
  /\ \E c \in Loaded(configFile) :
       /\ config' = c
       /\ window' = Widgets0(c.downloadPath)
       /\ worker' = Worker0(c.downloadPath)
  /\ UNCHANGED <<configVars, boxes, dragged, toWorker, toWindow, overtaken,
                 events>>

\* The program is gone, and with it what was queued or open.
Gone ==
  /\ running' = FALSE
  /\ boxes' = <<>> /\ dragged' = NothingDragged
  /\ toWorker' = <<>> /\ toWindow' = <<>> /\ overtaken' = FALSE
  /\ window' = Widgets0(config.downloadPath)
  /\ worker' = Worker0(config.downloadPath)
  /\ UNCHANGED config

\* Closed by the user, or killed.
Stop == running /\ Event /\ Gone /\ UNCHANGED configVars

-----------------------------------------------------------------------------
(* Clicks, dialogs and drops. *)

CallWithoutTarget ==
  /\ Clickable /\ ~window.connected
  /\ Event /\ Opens("noTarget")
  /\ UNCHANGED <<configVars, running, config, window, dragged, worker,
                 toWorker, toWindow, overtaken>>

SendClicked ==
  /\ Clickable /\ window.connected
  /\ Event /\ Opens("sendDialog")
  /\ UNCHANGED <<configVars, running, config, window, dragged, worker,
                 toWorker, toWindow, overtaken>>

FolderClicked ==
  /\ Clickable /\ window.folderEnabled
  /\ Event /\ Opens("folderDialog")
  /\ UNCHANGED <<configVars, running, config, window, dragged, worker,
                 toWorker, toWindow, overtaken>>

CancelClicked ==
  /\ Clickable /\ window.cancelEnabled
  /\ Event /\ Post([type |-> "cancelTransfer"])
  /\ UNCHANGED <<configVars, running, config, window, boxes, dragged, worker,
                 toWindow, overtaken>>

Innermost(box) == running /\ boxes # <<>> /\ Head(boxes) = box

\* The rest of on_sendFileButton_clicked; nothing is tested again.
FileChosen(file) ==
  /\ Innermost("sendDialog")
  /\ boxes' = Tail(boxes)
  /\ window' = [window EXCEPT !.cancelEnabled = TRUE]
  /\ Post([type |-> "sendFile", file |-> file])
  /\ UNCHANGED <<configVars, running, config, dragged, worker, toWindow,
                 overtaken, events>>

\* The rest of on_selectDownloadPathButton_clicked.
FolderChosen(folder) ==
  /\ Innermost("folderDialog")
  /\ \/ /\ boxes' = Tail(boxes)
        /\ window' = [window EXCEPT !.folder = folder]
        /\ Post([type |-> "setDownloadPath", folder |-> folder])
        /\ config' = [config EXCEPT !.downloadPath = folder]
        /\ Save(folder)
        /\ UNCHANGED <<running, dragged, worker, toWindow, overtaken>>
     \/ SaveCutShort /\ Gone      \* killed between the truncation and the write
  /\ UNCHANGED events

ClearFileInfo_ButtonsOnly(w) ==
  [w EXCEPT !.fileName = NoFile, !.cancelEnabled = FALSE,
            !.folderEnabled = TRUE]

\* clearFileInfo()
ClearFileInfo(w) ==
  [w EXCEPT !.active = FALSE, !.fileName = NoFile, !.cancelEnabled = FALSE,
            !.folderEnabled = TRUE]

\* A box is dismissed: only the success box has something to do after it.
BoxClosed ==
  /\ running /\ boxes # <<>>
  /\ boxes' = Tail(boxes)
  /\ window' = IF Head(boxes) = "success" THEN ClearFileInfo(window) ELSE window
  /\ UNCHANGED <<configVars, running, config, dragged, worker, toWorker,
                 toWindow, overtaken, events>>

IsReadyToSend == window.connected /\ ~window.active

\* dragEnterEvent, which a window that is blocked by a box does not get.
DragEnters(file) ==
  /\ Clickable /\ Event
  /\ dragged' = [file |-> file, accepted |-> IsReadyToSend]
  /\ UNCHANGED <<configVars, running, config, window, boxes, worker, toWorker,
                 toWindow, overtaken>>

\* dragMoveEvent
DragMoves ==
  /\ running /\ boxes = <<>> /\ dragged.file # NoFile
  /\ dragged' = [dragged EXCEPT !.accepted = IsReadyToSend]
  /\ UNCHANGED <<configVars, running, config, window, boxes, worker, toWorker,
                 toWindow, overtaken, events>>

\* dragLeaveEvent, or a release where the last move was not accepted.
DragLeaves ==
  /\ running /\ dragged.file # NoFile
  /\ dragged' = NothingDragged
  /\ UNCHANGED <<configVars, running, config, window, boxes, worker, toWorker,
                 toWindow, overtaken, events>>

\* dropEvent: the state may have changed since the last move.
Drop ==
  /\ running /\ boxes = <<>> /\ dragged.accepted
  /\ dragged' = NothingDragged
  /\ \/ /\ IsReadyToSend
        /\ window' = [window EXCEPT !.cancelEnabled = TRUE]
        /\ Post([type |-> "sendFile", file |-> dragged.file])
        /\ UNCHANGED boxes
     \/ /\ ~IsReadyToSend
        /\ IF window.connected THEN UNCHANGED boxes ELSE Opens("notConnected")
        /\ UNCHANGED <<window, toWorker>>
  /\ UNCHANGED <<configVars, running, config, worker, toWindow, overtaken,
                 events>>

-----------------------------------------------------------------------------
(* Slots: they run in whatever event loop is innermost. *)

ConnectionEstablished ==
  /\ running /\ Event
  /\ window' = [window EXCEPT !.connected = TRUE]
  /\ UNCHANGED <<configVars, running, config, boxes, dragged, worker, toWorker,
                 toWindow, overtaken>>

\* The worker is told before the box opens.
ConnectionClosed ==
  /\ running /\ Event
  /\ window' = [window EXCEPT !.connected = FALSE]
  /\ Post([type |-> "onPeerDisconnected"])
  /\ Opens("disconnected")
  /\ UNCHANGED <<configVars, running, config, dragged, worker, toWindow,
                 overtaken>>

Arrives(type) == toWindow # <<>> /\ Head(toWindow).type = type

TransferStarted_FolderStays ==
  /\ Arrives("transferStarted")
  /\ toWindow' = Tail(toWindow)
  /\ window' = [window EXCEPT !.active = TRUE, !.cancelEnabled = TRUE,
                              !.fileName = Head(toWindow).file]
  /\ overtaken' = SuccessShown
  /\ UNCHANGED <<configVars, running, config, boxes, dragged, worker, toWorker,
                 events>>

TransferStarted ==
  /\ Arrives("transferStarted")
  /\ toWindow' = Tail(toWindow)
  /\ window' = [window EXCEPT !.active = TRUE, !.cancelEnabled = TRUE,
                              !.fileName = Head(toWindow).file,
                              !.folderEnabled = FALSE]
  /\ overtaken' = SuccessShown
  /\ UNCHANGED <<configVars, running, config, boxes, dragged, worker, toWorker,
                 events>>

\* The rest of this slot is in BoxClosed.
TransferFinished ==
  /\ Arrives("transferFinished")
  /\ toWindow' = Tail(toWindow)
  /\ Opens("success")
  /\ UNCHANGED <<configVars, running, config, window, dragged, worker, toWorker,
                 overtaken, events>>

TransferCanceled ==
  /\ Arrives("transferCanceled")
  /\ toWindow' = Tail(toWindow)
  /\ window' = ClearFileInfo(window)
  /\ UNCHANGED <<configVars, running, config, boxes, dragged, worker, toWorker,
                 overtaken, events>>

-----------------------------------------------------------------------------
(* The worker (filetransfermanager.cpp), as FileTransfer has it in full. *)

Idle(file) == [worker EXCEPT !.state = "Idle", !.file = file]

Emit(type) == toWindow' = Append(toWindow, [type |-> type])

\* A transfer in that role replaces whatever runs; a file that cannot be opened
\* ends it all the same, and nothing is emitted.
Begin(state, file) ==
  IF file \in Unopenable
  THEN worker' = Idle(file) /\ UNCHANGED toWindow
  ELSE /\ worker' = [worker EXCEPT !.state = state, !.file = file]
       /\ toWindow' = Append(toWindow,
                             [type |-> "transferStarted", file |-> file])

Posted(type) == toWorker # <<>> /\ Head(toWorker).type = type

SendFile ==
  /\ Posted("sendFile")
  /\ toWorker' = Tail(toWorker)
  /\ Begin("Sending", Head(toWorker).file)
  /\ UNCHANGED <<configVars, running, config, window, boxes, dragged, overtaken,
                 events>>

EndCall_IfRunning ==
  /\ Posted("cancelTransfer") \/ Posted("onPeerDisconnected")
  /\ toWorker' = Tail(toWorker)
  /\ worker' = Idle(worker.file)
  /\ IF worker.state = "Idle" THEN UNCHANGED toWindow
                             ELSE Emit("transferCanceled")
  /\ UNCHANGED <<configVars, running, config, window, boxes, dragged, overtaken,
                 events>>

\* cancelTransfer, onPeerDisconnected
EndCall ==
  /\ Posted("cancelTransfer") \/ Posted("onPeerDisconnected")
  /\ toWorker' = Tail(toWorker)
  /\ worker' = Idle(worker.file)
  /\ Emit("transferCanceled")
  /\ UNCHANGED <<configVars, running, config, window, boxes, dragged, overtaken,
                 events>>

SetDownloadPath_WhenIdle ==
  /\ Posted("setDownloadPath")
  /\ toWorker' = Tail(toWorker)
  /\ worker' = IF worker.state = "Idle"
               THEN [worker EXCEPT !.folder = Head(toWorker).folder] ELSE worker
  /\ UNCHANGED <<configVars, running, config, window, boxes, dragged, toWindow,
                 overtaken, events>>

\* setDownloadPath, in the middle of a transfer too.
SetDownloadPath ==
  /\ Posted("setDownloadPath")
  /\ toWorker' = Tail(toWorker)
  /\ worker' = [worker EXCEPT !.folder = Head(toWorker).folder]
  /\ UNCHANGED <<configVars, running, config, window, boxes, dragged, toWindow,
                 overtaken, events>>

\* Metadata, in any state.
PeerSends(file) ==
  /\ running /\ Event
  /\ Begin("Receiving", file)
  /\ UNCHANGED <<configVars, running, config, window, boxes, dragged, toWorker,
                 overtaken>>

\* cancel_transfer and receiver_canceled, in any state.
PeerCancels ==
  /\ running /\ Event
  /\ worker' = Idle(worker.file)
  /\ Emit("transferCanceled")
  /\ UNCHANGED <<configVars, running, config, window, boxes, dragged, toWorker,
                 overtaken>>

\* The end of sendLoop, or the verdict of checkCompletion, which is against the
\* file each time (see FileTransfer!CheckCompletion).
EndTransfer ==
  /\ worker.state # "Idle"
  /\ worker' = Idle(worker.file)
  /\ Emit(IF worker.state = "Sending" THEN "transferFinished"
          ELSE "transferCanceled")
  /\ UNCHANGED <<configVars, running, config, window, boxes, dragged, toWorker,
                 overtaken, events>>

Edit ==
  /\ Event /\ EditByHand
  /\ UNCHANGED <<running, config, window, boxes, dragged, worker, toWorker,
                 toWindow, overtaken>>

-----------------------------------------------------------------------------

Init ==
  /\ ConfigInit
  /\ running = TRUE
  /\ config \in Loaded(configFile)
  /\ window = Widgets0(config.downloadPath)
  /\ worker = Worker0(config.downloadPath)
  /\ boxes = <<>> /\ dragged = NothingDragged
  /\ toWorker = <<>> /\ toWindow = <<>> /\ overtaken = FALSE
  /\ events = 0

WindowLoop == TransferStarted \/ TransferFinished \/ TransferCanceled

WorkerLoop == SendFile \/ EndCall \/ SetDownloadPath

User ==
  \/ CallWithoutTarget \/ SendClicked \/ FolderClicked \/ CancelClicked
  \/ BoxClosed \/ DragMoves \/ DragLeaves \/ Drop
  \/ \E file \in Sendable : FileChosen(file) \/ DragEnters(file)
  \/ \E folder \in Folders : FolderChosen(folder)
  \/ Stop \/ Start \/ Edit

Peer ==
  \/ ConnectionEstablished \/ ConnectionClosed
  \/ PeerCancels \/ EndTransfer
  \/ \E file \in Sendable : PeerSends(file)

Next == WindowLoop \/ WorkerLoop \/ User \/ Peer

Spec == Init /\ [][Next]_vars

\* Both threads run their event loops; nothing is asked of users and peers.
FairSpec == Spec /\ WF_vars(WindowLoop) /\ WF_vars(WorkerLoop)

-----------------------------------------------------------------------------
(* Properties. *)

TypeOK ==
  /\ ConfigTypeOK
  /\ running \in BOOLEAN
  /\ config \in Config
  /\ window \in Widgets
  /\ boxes \in Seq(Boxes)
  /\ dragged \in [file : Sendable \cup {NoFile}, accepted : BOOLEAN]
  /\ worker \in Manager
  /\ toWorker \in Seq(Call)
  /\ toWindow \in Seq(Signal)
  /\ overtaken \in BOOLEAN
  /\ events \in 0..MaxEvents

\* A worker in a transfer is shown so once its signals are handled: its own
\* file, Cancel enabled, the folder locked. However clicks, drops, the peer's
\* transfers and the boxes interleave, one thing alone can undo that: a success
\* box dismissed after the next transfer has begun (mainwindow.cpp:83-104).
RunningIsShown ==
  worker.state # "Idle" /\ toWindow = <<>> /\ ~overtaken =>
    /\ window.active /\ window.fileName = worker.file
    /\ window.cancelEnabled /\ ~window.folderEnabled

\* The window shows no transfer that is over, once the signals are handled and
\* the success box is dismissed, unless the worker could not open the next file
\* and kept that to itself (mainwindow.cpp:101-110,
\* filetransfermanager.cpp:44 and :143).
NoGhostTransfer ==
  window.active /\ toWindow = <<>> /\ ~SuccessShown =>
    worker.state # "Idle" \/ worker.file \in Unopenable

\* The folder on display is the one the worker saves to and the one in
\* m_appConfig, as soon as the calls posted are done, through dialogs that stay
\* open across transfers and saves that fail (mainwindow.cpp:147-158).
FolderAgrees ==
  /\ window.folder = config.downloadPath
  /\ ~Waiting("setDownloadPath") => worker.folder = window.folder

\* A start that can open config.json finds the folder the last complete save
\* wrote, the default after one that was cut short, and the broker of the file.
\* One that cannot takes the default folder, and nothing a run does from there
\* on, a save included, costs the next start what the file held
\* (appconfig.cpp:9-50, :56-65).
StartFindsSaved ==
  [][~running /\ running' =>
       IF config'.opened
       THEN /\ config'.downloadPath = saved
            /\ ~damaged /\ written.mqtt # None /\ written.mqtt < PortRange =>
                 config'.port = written.mqtt
       ELSE config'.downloadPath = DefaultFolder]_vars

\* A click on Cancel clears the window whatever the worker was doing, a transfer
\* it had ended without a word included (filetransfermanager.cpp:186-195).
CancelClears == Waiting("cancelTransfer") ~> ~window.active

=============================================================================
