---------------------------- MODULE WindowProofs ----------------------------
(***************************************************************************)
(* Theorems about Window and the AppConfig it extends, for all folders,    *)
(* ports, servers and files, any number of events, and disks that fail or  *)
(* do not. Three invariants, one for each thing the window must get right: *)
(* ConfigInv about the file, FolderInv about the folder and the calls that *)
(* carry it to the worker, ShowInv about the transfer on display and the   *)
(* signals that announce it.                                               *)
(***************************************************************************)
EXTENDS Window, TLAPS

-----------------------------------------------------------------------------
(* Types. *)

\* A window just made is typed.
LEMMA FreshTyped ==
  ASSUME NEW folder \in Folders
  PROVE  Widgets0(folder) \in Widgets /\ Worker0(folder) \in Manager
BY DEF Widgets0, Worker0, Widgets, Manager

\* A port that was narrowed is one (appconfig.cpp:25).
LEMMA PortWidth == \A n \in Nat : n % PortRange \in 0..(PortRange - 1)
<1>1. PortRange \in Nat \ {0}
  BY DEF PortRange
<1>2. QED
  BY <1>1

\* What load makes of a document is a configuration.
LEMMA ConfigsTyped ==
  ASSUME NEW root \in Document, NEW opened \in BOOLEAN,
         NEW c \in ConfigsRead(root, opened)
  PROVE  /\ c \in Config /\ c.opened = opened
         /\ c.port \in PortsRead(root) /\ c.downloadPath = FolderOf(root)
<1>1. ASSUME NEW port \in PortsRead(root)
      PROVE  port \in 0..(PortRange - 1)
  <2>1. CASE root.mqtt = None
    BY <2>1, ConfigAssumption DEF PortsRead
  <2>2. CASE root.mqtt # None
    <3>1. root.mqtt \in Nat
      BY <2>2, ConfigAssumption DEF Document
    <3>2. port = root.mqtt % PortRange
      BY <2>2 DEF PortsRead
    <3> QED BY <3>1, <3>2, PortWidth
  <2> QED BY <2>1, <2>2
<1>2. FolderOf(root) \in Folders
  BY ConfigAssumption DEF FolderOf, Document
<1>3. root.webrtc \in Servers \cup {None}
  BY DEF Document
<1>4. PICK port \in PortsRead(root) :
        c = [port |-> port, iceServers |-> root.webrtc,
             downloadPath |-> FolderOf(root), opened |-> opened]
  BY DEF ConfigsRead
<1> QED BY <1>1, <1>2, <1>3, <1>4 DEF Config

LEMMA RootTyped == \A f : Root(f) \in Document
BY DEF Root, EmptyRoot, Document

\* What load returns is a configuration, of the file if it could open that.
LEMMA LoadedTyped ==
  ASSUME NEW f \in Files, NEW c \in Loaded(f)
  PROVE  /\ c \in Config
         /\ c.opened => /\ c.downloadPath = FolderOf(Root(f))
                        /\ c.port \in PortsRead(Root(f))
         /\ ~c.opened => c.downloadPath = DefaultFolder
<1>1. PICK opened \in Openings(f) :
        c \in ConfigsRead(RootRead(f, opened), opened)
  BY DEF Loaded
<1>2. opened \in BOOLEAN
  BY DEF Openings
<1>3. CASE opened
  <2>1. RootRead(f, opened) = Root(f)
    BY <1>3 DEF RootRead
  <2> QED BY <1>1, <1>2, <1>3, <2>1, RootTyped, ConfigsTyped
<1>4. CASE ~opened
  <2>1. RootRead(f, opened) = EmptyRoot
    BY <1>4 DEF RootRead
  <2>2. EmptyRoot \in Document /\ FolderOf(EmptyRoot) = DefaultFolder
    BY DEF EmptyRoot, Document, FolderOf
  <2> QED BY <1>1, <1>2, <1>4, <2>1, <2>2, ConfigsTyped
<1> QED BY <1>2, <1>3, <1>4

\* A save leaves a file, in each of its outcomes.
LEMMA SaveTyped ==
  ASSUME ConfigTypeOK, NEW folder \in Folders, Save(folder)
  PROVE  ConfigTypeOK'
<1>1. Root(configFile) \in Document /\ EmptyRoot \in Document
  BY DEF Root, EmptyRoot, Document
<1>2. /\ WithFolder(Root(configFile), folder) \in Document
      /\ WithFolder(EmptyRoot, folder) \in Document
  BY <1>1 DEF WithFolder, Document
<1> QED BY <1>2, ConfigAssumption
        DEF Save, SaveCutShort, ConfigTypeOK, Files, configVars

LEMMA CutShortTyped ==
  ASSUME ConfigTypeOK, SaveCutShort
  PROVE  ConfigTypeOK'
BY ConfigAssumption DEF SaveCutShort, ConfigTypeOK, Files

LEMMA EditTyped ==
  ASSUME ConfigTypeOK, EditByHand
  PROVE  ConfigTypeOK'
<1>1. PICK port \in Ports :
        /\ configFile' = [configFile EXCEPT !.mqtt = port]
        /\ written' = [written EXCEPT !.mqtt = port]
  BY DEF EditByHand
<1>2. configFile' \in Document /\ written' \in Document
  BY <1>1 DEF EditByHand, ConfigTypeOK, Document
<1> QED BY <1>2 DEF EditByHand, ConfigTypeOK, Files

\* A program that is gone leaves nothing ill-typed.
LEMMA GoneTyped ==
  ASSUME TypeOK, Gone
  PROVE  /\ running' \in BOOLEAN /\ config' \in Config /\ window' \in Widgets
         /\ boxes' \in Seq(Boxes) /\ worker' \in Manager
         /\ dragged' \in [file : Sendable \cup {NoFile}, accepted : BOOLEAN]
         /\ toWorker' \in Seq(Call) /\ toWindow' \in Seq(Signal)
         /\ overtaken' \in BOOLEAN
<1>1. config.downloadPath \in Folders
  BY DEF TypeOK, Config
<1>2. window' \in Widgets /\ worker' \in Manager /\ config' \in Config
  BY <1>1, FreshTyped DEF Gone, TypeOK
<1>3. dragged' \in [file : Sendable \cup {NoFile}, accepted : BOOLEAN]
  BY DEF Gone, NothingDragged
<1>4. /\ boxes' \in Seq(Boxes) /\ toWorker' \in Seq(Call)
      /\ toWindow' \in Seq(Signal)
  BY DEF Gone
<1> QED BY <1>2, <1>3, <1>4 DEF Gone

\* Opening a box, posting a call and counting an event keep their types.
LEMMA OpensTyped ==
  ASSUME TypeOK, NEW box \in Boxes, Opens(box)
  PROVE  boxes' \in Seq(Boxes)
BY DEF TypeOK, Opens

LEMMA PostTyped ==
  ASSUME TypeOK, NEW call \in Call, Post(call)
  PROVE  toWorker' \in Seq(Call)
BY DEF TypeOK, Post

LEMMA EventTyped ==
  ASSUME TypeOK, Event
  PROVE  events' \in 0..MaxEvents
BY WindowAssumption DEF TypeOK, Event

\* A transfer that begins.
LEMMA BeginTyped ==
  ASSUME TypeOK, NEW state \in {"Sending", "Receiving"}, NEW file \in Sendable,
         Begin(state, file)
  PROVE  worker' \in Manager /\ toWindow' \in Seq(Signal)
<1>1. [type |-> "transferStarted", file |-> file] \in Signal
  BY DEF Signal
<1>2. worker' \in Manager
  <2>1. CASE file \in Unopenable
    <3>1. worker' = [worker EXCEPT !.state = "Idle", !.file = file]
      BY <2>1 DEF Begin, Idle
    <3> QED BY <3>1 DEF TypeOK, Manager
  <2>2. CASE file \notin Unopenable
    <3>1. worker' = [worker EXCEPT !.state = state, !.file = file]
      BY <2>2 DEF Begin
    <3> QED BY <3>1 DEF TypeOK, Manager
  <2> QED BY <2>1, <2>2
<1>3. toWindow' \in Seq(Signal)
  <2>1. CASE file \in Unopenable
    BY <2>1 DEF Begin, TypeOK
  <2>2. CASE file \notin Unopenable
    <3>1. toWindow' =
            Append(toWindow, [type |-> "transferStarted", file |-> file])
      BY <2>2 DEF Begin
    <3> QED BY <3>1, <1>1 DEF TypeOK
  <2> QED BY <2>1, <2>2
<1> QED BY <1>2, <1>3

\* One that ends.
LEMMA EmitTyped ==
  ASSUME TypeOK, NEW type \in {"transferFinished", "transferCanceled"},
         Emit(type)
  PROVE  toWindow' \in Seq(Signal)
<1>1. [type |-> type] \in Signal
  BY DEF Signal
<1> QED BY <1>1 DEF Emit, TypeOK

LEMMA IdleTyped ==
  ASSUME TypeOK
  PROVE  Idle(worker.file) \in Manager
BY DEF TypeOK, Idle, Manager

\* The call and the signal handled first are a call and a signal.
LEMMA HeadTyped ==
  ASSUME TypeOK
  PROVE  /\ toWorker # <<>> => /\ Head(toWorker) \in Call
                               /\ Tail(toWorker) \in Seq(Call)
         /\ toWindow # <<>> => /\ Head(toWindow) \in Signal
                               /\ Tail(toWindow) \in Seq(Signal)
         /\ boxes # <<>> => Tail(boxes) \in Seq(Boxes)
BY DEF TypeOK

LEMMA ClearTyped ==
  ASSUME NEW w \in Widgets
  PROVE  ClearFileInfo(w) \in Widgets
BY DEF ClearFileInfo, Widgets

LEMMA InitTyped ==
  ASSUME Init
  PROVE  TypeOK
<1>1. configFile \in Files /\ Root(configFile) \in Document
  BY DEF Init, ConfigInit, Root, EmptyRoot, Document
<1>2. FolderOf(Root(configFile)) \in Folders
  BY <1>1, ConfigAssumption DEF FolderOf, Document
<1>3. ConfigTypeOK
  BY <1>1, <1>2 DEF Init, ConfigInit, ConfigTypeOK
<1>4. config \in Config /\ config.downloadPath \in Folders
  BY <1>1, LoadedTyped DEF Init, Config
<1>5. window \in Widgets /\ worker \in Manager
  BY <1>4, FreshTyped DEF Init
<1>6. /\ boxes \in Seq(Boxes) /\ toWorker \in Seq(Call)
      /\ toWindow \in Seq(Signal)
  BY DEF Init
<1>7. dragged \in [file : Sendable \cup {NoFile}, accepted : BOOLEAN]
  BY DEF Init, NothingDragged
<1>8. events \in 0..MaxEvents
  BY WindowAssumption DEF Init
<1>9. running \in BOOLEAN /\ overtaken \in BOOLEAN
  BY DEF Init
<1> QED BY <1>3, <1>4, <1>5, <1>6, <1>7, <1>8, <1>9 DEF TypeOK

\* What is accepted is a file: typing needs it, for a drop to post a file.
DragInv == dragged.accepted => dragged.file # NoFile

LEMMA DragNext ==
  ASSUME DragInv, [Next]_vars
  PROVE  DragInv'
<1>1. CASE UNCHANGED dragged
  BY <1>1 DEF DragInv
<1>2. CASE dragged' = NothingDragged
  BY <1>2 DEF DragInv, NothingDragged
<1>3. ASSUME NEW file \in Sendable, DragEnters(file)
      PROVE  DragInv'
  BY <1>3, WindowAssumption DEF DragEnters, DragInv
<1>4. CASE DragMoves
  <2>1. dragged'.file = dragged.file
    BY <1>4 DEF DragMoves
  <2> QED BY <1>4, <2>1 DEF DragMoves, DragInv
<1> QED
  BY <1>1, <1>2, <1>3, <1>4
  DEF Next, WindowLoop, WorkerLoop, User, Peer, vars, TransferStarted,
      TransferFinished, TransferCanceled, SendFile, EndCall, SetDownloadPath,
      CallWithoutTarget, SendClicked, FolderClicked, CancelClicked, BoxClosed,
      DragLeaves, Drop, FileChosen, FolderChosen, Stop, Gone, Start, Edit,
      ConnectionEstablished, ConnectionClosed, PeerCancels, EndTransfer,
      PeerSends

\* Typing is kept by every step, action by action.
LEMMA NextTyped ==
  ASSUME TypeOK, DragInv, [Next]_vars
  PROVE  TypeOK'
<1> USE DEF configVars
<1>1. CASE TransferStarted
  <2>1. Head(toWindow) \in Signal /\ Tail(toWindow) \in Seq(Signal)
    BY <1>1, HeadTyped DEF TransferStarted, Arrives
  <2>2. Head(toWindow).file \in Sendable
    BY <1>1, <2>1 DEF TransferStarted, Arrives, Signal
  <2>3. window' \in Widgets
    BY <1>1, <2>2 DEF TransferStarted, TypeOK, Widgets
  <2> QED BY <1>1, <2>1, <2>3 DEF TransferStarted, TypeOK, ConfigTypeOK,
            SuccessShown
<1>2. CASE TransferFinished
  <2>1. Tail(toWindow) \in Seq(Signal)
    BY <1>2, HeadTyped DEF TransferFinished, Arrives
  <2>2. boxes' \in Seq(Boxes)
    BY <1>2, OpensTyped DEF TransferFinished, Boxes
  <2> QED BY <1>2, <2>1, <2>2 DEF TransferFinished, TypeOK, ConfigTypeOK
<1>3. CASE TransferCanceled
  <2>1. Tail(toWindow) \in Seq(Signal)
    BY <1>3, HeadTyped DEF TransferCanceled, Arrives
  <2>2. window' \in Widgets
    BY <1>3, ClearTyped DEF TransferCanceled, TypeOK
  <2> QED BY <1>3, <2>1, <2>2 DEF TransferCanceled, TypeOK, ConfigTypeOK
<1>4. CASE SendFile
  <2>1. Head(toWorker) \in Call /\ Tail(toWorker) \in Seq(Call)
    BY <1>4, HeadTyped DEF SendFile, Posted
  <2>2. Head(toWorker).file \in Sendable
    BY <1>4, <2>1 DEF SendFile, Posted, Call
  <2>3. worker' \in Manager /\ toWindow' \in Seq(Signal)
    BY <1>4, <2>2, BeginTyped DEF SendFile
  <2> QED BY <1>4, <2>1, <2>3 DEF SendFile, TypeOK, ConfigTypeOK
<1>5. CASE EndCall
  <2>1. Tail(toWorker) \in Seq(Call)
    BY <1>5, HeadTyped DEF EndCall, Posted
  <2>2. worker' \in Manager /\ toWindow' \in Seq(Signal)
    BY <1>5, IdleTyped, EmitTyped DEF EndCall
  <2> QED BY <1>5, <2>1, <2>2 DEF EndCall, TypeOK, ConfigTypeOK
<1>6. CASE SetDownloadPath
  <2>1. Head(toWorker) \in Call /\ Tail(toWorker) \in Seq(Call)
    BY <1>6, HeadTyped DEF SetDownloadPath, Posted
  <2>2. Head(toWorker).folder \in Folders
    BY <1>6, <2>1 DEF SetDownloadPath, Posted, Call
  <2>3. worker' \in Manager
    BY <1>6, <2>2 DEF SetDownloadPath, TypeOK, Manager
  <2> QED BY <1>6, <2>1, <2>3 DEF SetDownloadPath, TypeOK, ConfigTypeOK
<1>7. CASE CallWithoutTarget
  <2>1. boxes' \in Seq(Boxes) /\ events' \in 0..MaxEvents
    BY <1>7, OpensTyped, EventTyped DEF CallWithoutTarget, Boxes
  <2> QED BY <1>7, <2>1 DEF CallWithoutTarget, TypeOK, ConfigTypeOK
<1>8. CASE SendClicked
  <2>1. boxes' \in Seq(Boxes) /\ events' \in 0..MaxEvents
    BY <1>8, OpensTyped, EventTyped DEF SendClicked, Boxes
  <2> QED BY <1>8, <2>1 DEF SendClicked, TypeOK, ConfigTypeOK
<1>9. CASE FolderClicked
  <2>1. boxes' \in Seq(Boxes) /\ events' \in 0..MaxEvents
    BY <1>9, OpensTyped, EventTyped DEF FolderClicked, Boxes
  <2> QED BY <1>9, <2>1 DEF FolderClicked, TypeOK, ConfigTypeOK
<1>10. CASE CancelClicked
  <2>1. toWorker' \in Seq(Call) /\ events' \in 0..MaxEvents
    BY <1>10, PostTyped, EventTyped DEF CancelClicked, Call
  <2> QED BY <1>10, <2>1 DEF CancelClicked, TypeOK, ConfigTypeOK
<1>11. CASE BoxClosed
  <2>1. boxes' \in Seq(Boxes)
    BY <1>11, HeadTyped DEF BoxClosed
  <2>2. window' \in Widgets
    BY <1>11, ClearTyped DEF BoxClosed, TypeOK
  <2> QED BY <1>11, <2>1, <2>2 DEF BoxClosed, TypeOK, ConfigTypeOK
<1>12. CASE DragMoves
  <2>1. dragged' \in [file : Sendable \cup {NoFile}, accepted : BOOLEAN]
    BY <1>12 DEF DragMoves, IsReadyToSend, TypeOK, Widgets
  <2> QED BY <1>12, <2>1 DEF DragMoves, TypeOK, ConfigTypeOK
<1>13. CASE DragLeaves
  BY <1>13 DEF DragLeaves, NothingDragged, TypeOK, ConfigTypeOK
<1>14. CASE Drop
  <2>1. dragged' \in [file : Sendable \cup {NoFile}, accepted : BOOLEAN]
    BY <1>14 DEF Drop, NothingDragged
  <2>2. window' \in Widgets
    BY <1>14 DEF Drop, TypeOK, Widgets
  <2>3. boxes' \in Seq(Boxes)
    BY <1>14, OpensTyped DEF Drop, Boxes, TypeOK
  <2>4. toWorker' \in Seq(Call)
    <3>1. CASE UNCHANGED toWorker
      BY <3>1 DEF TypeOK
    <3>2. CASE Post([type |-> "sendFile", file |-> dragged.file])
      <4>1. dragged.file \in Sendable
        BY <1>14 DEF Drop, TypeOK, DragInv
      <4> QED BY <3>2, <4>1, PostTyped DEF Call
    <3> QED BY <1>14, <3>1, <3>2 DEF Drop
  <2> QED BY <1>14, <2>1, <2>2, <2>3, <2>4 DEF Drop, TypeOK, ConfigTypeOK
<1>15. ASSUME NEW file \in Sendable, FileChosen(file)
       PROVE  TypeOK'
  <2>1. boxes' \in Seq(Boxes)
    BY <1>15, HeadTyped DEF FileChosen, Innermost
  <2>2. toWorker' \in Seq(Call)
    BY <1>15, PostTyped DEF FileChosen, Call
  <2>3. window' \in Widgets
    BY <1>15 DEF FileChosen, TypeOK, Widgets
  <2> QED BY <1>15, <2>1, <2>2, <2>3 DEF FileChosen, TypeOK, ConfigTypeOK
<1>16. ASSUME NEW file \in Sendable, DragEnters(file)
       PROVE  TypeOK'
  <2>1. dragged' \in [file : Sendable \cup {NoFile}, accepted : BOOLEAN]
    BY <1>16 DEF DragEnters, IsReadyToSend, TypeOK, Widgets
  <2>2. events' \in 0..MaxEvents
    BY <1>16, EventTyped DEF DragEnters
  <2> QED BY <1>16, <2>1, <2>2 DEF DragEnters, TypeOK, ConfigTypeOK
<1>17. ASSUME NEW folder \in Folders, FolderChosen(folder)
       PROVE  TypeOK'
  <2>1. CASE SaveCutShort /\ Gone
    <3>1. ConfigTypeOK'
      BY <2>1, CutShortTyped DEF TypeOK
    <3> QED BY <1>17, <2>1, <3>1, GoneTyped DEF FolderChosen, TypeOK
  <2>2. CASE ~(SaveCutShort /\ Gone)
    <3>1. ConfigTypeOK'
      BY <1>17, <2>2, SaveTyped DEF FolderChosen, TypeOK
    <3>2. boxes' \in Seq(Boxes)
      BY <1>17, <2>2, HeadTyped DEF FolderChosen, Innermost
    <3>3. toWorker' \in Seq(Call)
      BY <1>17, <2>2, PostTyped DEF FolderChosen, Call
    <3>4. window' \in Widgets /\ config' \in Config
      BY <1>17, <2>2 DEF FolderChosen, TypeOK, Widgets, Config
    <3> QED BY <1>17, <2>2, <3>1, <3>2, <3>3, <3>4 DEF FolderChosen, TypeOK
  <2> QED BY <2>1, <2>2
<1>18. CASE Stop
  <2>1. events' \in 0..MaxEvents
    BY <1>18, EventTyped DEF Stop
  <2>2. ConfigTypeOK'
    BY <1>18 DEF Stop, TypeOK, ConfigTypeOK
  <2> QED BY <1>18, <2>1, <2>2, GoneTyped DEF Stop, TypeOK
<1>19. CASE Start
  <2>1. PICK c \in Loaded(configFile) :
          /\ config' = c
          /\ window' = Widgets0(c.downloadPath)
          /\ worker' = Worker0(c.downloadPath)
    BY <1>19 DEF Start
  <2>2. c \in Config /\ c.downloadPath \in Folders
    BY LoadedTyped DEF TypeOK, ConfigTypeOK, Config
  <2>3. window' \in Widgets /\ worker' \in Manager
    BY <2>1, <2>2, FreshTyped
  <2> QED BY <1>19, <2>1, <2>2, <2>3 DEF Start, TypeOK, ConfigTypeOK
<1>20. CASE Edit
  <2>1. ConfigTypeOK'
    BY <1>20, EditTyped DEF Edit, TypeOK
  <2>2. events' \in 0..MaxEvents
    BY <1>20, EventTyped DEF Edit
  <2> QED BY <1>20, <2>1, <2>2 DEF Edit, TypeOK
<1>21. CASE ConnectionEstablished
  <2>1. window' \in Widgets
    BY <1>21 DEF ConnectionEstablished, TypeOK, Widgets
  <2>2. events' \in 0..MaxEvents
    BY <1>21, EventTyped DEF ConnectionEstablished
  <2> QED BY <1>21, <2>1, <2>2 DEF ConnectionEstablished, TypeOK, ConfigTypeOK
<1>22. CASE ConnectionClosed
  <2>1. window' \in Widgets
    BY <1>22 DEF ConnectionClosed, TypeOK, Widgets
  <2>2. /\ events' \in 0..MaxEvents /\ boxes' \in Seq(Boxes)
        /\ toWorker' \in Seq(Call)
    BY <1>22, EventTyped, OpensTyped, PostTyped
       DEF ConnectionClosed, Boxes, Call
  <2> QED BY <1>22, <2>1, <2>2 DEF ConnectionClosed, TypeOK, ConfigTypeOK
<1>23. CASE PeerCancels
  <2>1. worker' \in Manager /\ toWindow' \in Seq(Signal)
    BY <1>23, IdleTyped, EmitTyped DEF PeerCancels
  <2>2. events' \in 0..MaxEvents
    BY <1>23, EventTyped DEF PeerCancels
  <2> QED BY <1>23, <2>1, <2>2 DEF PeerCancels, TypeOK, ConfigTypeOK
<1>24. CASE EndTransfer
  <2>1. worker' \in Manager
    BY <1>24, IdleTyped DEF EndTransfer
  <2>2. toWindow' \in Seq(Signal)
    <3>1. CASE worker.state = "Sending"
      BY <1>24, <3>1, EmitTyped DEF EndTransfer
    <3>2. CASE worker.state # "Sending"
      BY <1>24, <3>2, EmitTyped DEF EndTransfer
    <3> QED BY <3>1, <3>2
  <2> QED BY <1>24, <2>1, <2>2 DEF EndTransfer, TypeOK, ConfigTypeOK
<1>25. ASSUME NEW file \in Sendable, PeerSends(file)
       PROVE  TypeOK'
  <2>1. worker' \in Manager /\ toWindow' \in Seq(Signal)
    BY <1>25, BeginTyped DEF PeerSends
  <2>2. events' \in 0..MaxEvents
    BY <1>25, EventTyped DEF PeerSends
  <2> QED BY <1>25, <2>1, <2>2 DEF PeerSends, TypeOK, ConfigTypeOK
<1>26. CASE UNCHANGED vars
  BY <1>26 DEF vars, TypeOK, ConfigTypeOK
<1> QED
  BY <1>1, <1>2, <1>3, <1>4, <1>5, <1>6, <1>7, <1>8, <1>9, <1>10, <1>11,
     <1>12, <1>13, <1>14, <1>15, <1>16, <1>17, <1>18, <1>19, <1>20, <1>21,
     <1>22, <1>23, <1>24, <1>25, <1>26
  DEF Next, WindowLoop, WorkerLoop, User, Peer

LEMMA TypedAndDragged == Spec => [](TypeOK /\ DragInv)
<1>1. Init => TypeOK /\ DragInv
  <2>1. ASSUME Init PROVE DragInv
    <3>1. dragged.accepted = FALSE
      BY <2>1 DEF Init, NothingDragged
    <3> QED BY <3>1 DEF DragInv
  <2> QED BY <2>1, InitTyped
<1>2. (TypeOK /\ DragInv) /\ [Next]_vars => (TypeOK /\ DragInv)'
  BY NextTyped, DragNext
<1> QED BY <1>1, <1>2, PTL DEF Spec

\* Every variable keeps its type, at every start and through every box.
THEOREM WindowTypeOK == Spec => []TypeOK
BY TypedAndDragged, PTL

LEMMA WindowDragInv == Spec => []DragInv
BY TypedAndDragged, PTL

-----------------------------------------------------------------------------
(* The configuration. *)

\* A start reads what was saved, and no save has dropped a section.
ConfigInv == saved = FolderOf(Root(configFile)) /\ SectionsSurvive

\* A document is read back as it is, anything else as an empty one.
LEMMA RootOfDocument == \A d \in Document : Root(d) = d
BY DEF Root

LEMMA RootOfGarbled == FolderOf(Root(Garbled)) = DefaultFolder
BY FilesAssumption DEF Root, EmptyRoot, FolderOf

\* What save writes has its folder, and the other sections of what it read.
LEMMA WithFolderReads ==
  ASSUME NEW root \in Document, NEW folder \in Folders
  PROVE  LET d == WithFolder(root, folder)
         IN /\ FolderOf(Root(d)) = folder
            /\ Root(d).mqtt = root.mqtt /\ Root(d).webrtc = root.webrtc
<1> DEFINE d == WithFolder(root, folder)
<1>1. d \in Document
  BY DEF WithFolder, Document
<1>2. /\ d.folder = folder /\ d.mqtt = root.mqtt /\ d.webrtc = root.webrtc
  BY DEF WithFolder, Document
<1>3. Root(d) = d
  BY <1>1, RootOfDocument
<1>4. folder # None
  BY ConfigAssumption
<1> HIDE DEF d
<1>5. FolderOf(d) = folder
  BY <1>2, <1>4 DEF FolderOf
<1>6. FolderOf(Root(d)) = folder
  BY <1>3, <1>5
<1>7. Root(d).mqtt = root.mqtt /\ Root(d).webrtc = root.webrtc
  BY <1>2, <1>3
<1> QED BY <1>6, <1>7 DEF d

\* Every outcome of a save keeps ConfigInv.
LEMMA SaveKeeps ==
  ASSUME ConfigTypeOK, ConfigInv, NEW folder \in Folders, Save(folder)
  PROVE  ConfigInv'
<1>0. Root(configFile) \in Document /\ EmptyRoot \in Document
  BY DEF Root, EmptyRoot, Document
<1>1. CASE /\ configFile' = WithFolder(Root(configFile), folder)
           /\ saved' = folder
           /\ UNCHANGED <<written, damaged>>
  <2>1. /\ FolderOf(Root(configFile')) = folder
        /\ Root(configFile').mqtt = Root(configFile).mqtt
        /\ Root(configFile').webrtc = Root(configFile).webrtc
    BY <1>0, <1>1, WithFolderReads
  <2> QED BY <1>1, <2>1 DEF ConfigInv, SectionsSurvive
<1>2. CASE /\ configFile' = WithFolder(EmptyRoot, folder)
           /\ saved' = folder
           /\ damaged' = TRUE
  <2>1. FolderOf(Root(configFile')) = folder
    BY <1>0, <1>2, WithFolderReads
  <2> QED BY <1>2, <2>1 DEF ConfigInv, SectionsSurvive
<1>3. CASE UNCHANGED configVars
  BY <1>3 DEF configVars, ConfigInv, SectionsSurvive
<1>4. CASE SaveCutShort
  BY <1>4, RootOfGarbled DEF SaveCutShort, ConfigInv, SectionsSurvive
<1> QED BY <1>1, <1>2, <1>3, <1>4 DEF Save

\* So does an edit by hand, which both the file and the history see.
LEMMA EditKeeps ==
  ASSUME ConfigTypeOK, ConfigInv, EditByHand
  PROVE  ConfigInv'
<1>1. PICK port \in Ports :
        /\ configFile' = [configFile EXCEPT !.mqtt = port]
        /\ written' = [written EXCEPT !.mqtt = port]
  BY DEF EditByHand
<1>2. configFile \in Document /\ written \in Document
  BY DEF EditByHand, ConfigTypeOK
<1>3. /\ configFile' \in Document
      /\ configFile'.mqtt = port /\ configFile'.webrtc = configFile.webrtc
      /\ configFile'.folder = configFile.folder
      /\ written'.mqtt = port /\ written'.webrtc = written.webrtc
  BY <1>1, <1>2 DEF Document
<1>4. Root(configFile) = configFile /\ Root(configFile') = configFile'
  BY <1>2, <1>3, RootOfDocument
<1>5. FolderOf(configFile') = FolderOf(configFile)
  BY <1>3 DEF FolderOf
<1>6. saved' = saved /\ damaged' = damaged
  BY DEF EditByHand
<1> QED BY <1>3, <1>4, <1>5, <1>6 DEF ConfigInv, SectionsSurvive

LEMMA ConfigNext ==
  ASSUME TypeOK, ConfigInv, [Next]_vars
  PROVE  ConfigInv'
<1>0. ConfigTypeOK
  BY DEF TypeOK
<1>1. CASE UNCHANGED configVars
  BY <1>1 DEF configVars, ConfigInv, SectionsSurvive
<1>2. ASSUME NEW folder \in Folders, FolderChosen(folder)
      PROVE  ConfigInv'
  <2>1. CASE Save(folder)
    BY <1>0, <2>1, SaveKeeps
  <2>2. CASE SaveCutShort
    BY <2>2, RootOfGarbled DEF SaveCutShort, ConfigInv, SectionsSurvive
  <2> QED BY <1>2, <2>1, <2>2 DEF FolderChosen
<1>3. CASE Edit
  BY <1>0, <1>3, EditKeeps DEF Edit
<1> QED
  BY <1>1, <1>2, <1>3
  DEF Next, WindowLoop, WorkerLoop, User, Peer, vars, TransferStarted,
      TransferFinished, TransferCanceled, SendFile, EndCall, SetDownloadPath,
      CallWithoutTarget, SendClicked, FolderClicked, CancelClicked, BoxClosed,
      DragEnters, DragMoves, DragLeaves, Drop, FileChosen, Stop, Start,
      ConnectionEstablished, ConnectionClosed, PeerCancels, EndTransfer,
      PeerSends

LEMMA ConfigFromInit == Init => ConfigInv
BY DEF Init, ConfigInit, ConfigInv, SectionsSurvive

\* The broker and the servers of config.json are what somebody wrote there, for
\* as long as no save was cut short or unable to read (appconfig.cpp:56-65).
THEOREM WindowSectionsSurvive == Spec => []SectionsSurvive
<1>1. ConfigInv => SectionsSurvive
  BY DEF ConfigInv
<1> QED BY <1>1, WindowTypeOK, ConfigFromInit, ConfigNext, PTL DEF Spec

\* A step that starts the program is Start.
LEMMA OnlyStartStarts ==
  ASSUME TypeOK, [Next]_vars, ~running, running'
  PROVE  config' \in Loaded(configFile)
<1>1. running' # running
  BY DEF TypeOK
<1>2. CASE Start
  BY <1>2 DEF Start
<1> QED
  BY <1>1, <1>2
  DEF Next, WindowLoop, WorkerLoop, User, Peer, vars, TransferStarted,
      TransferFinished, TransferCanceled, SendFile, EndCall, SetDownloadPath,
      CallWithoutTarget, SendClicked, FolderClicked, CancelClicked, BoxClosed,
      DragEnters, DragMoves, DragLeaves, Drop, FileChosen, FolderChosen, Gone,
      Stop, Edit, ConnectionEstablished, ConnectionClosed, PeerCancels,
      EndTransfer, PeerSends

\* A start that can open config.json finds the folder saved last, and the
\* broker; one that cannot takes the default folder, and what it saves later
\* costs the next start nothing (appconfig.cpp:9-50, :56-65).
THEOREM WindowStartFindsSaved == Spec => StartFindsSaved
<1> DEFINE Broker == ~damaged /\ written.mqtt # None /\ written.mqtt < PortRange
<1> DEFINE Found ==
      IF config'.opened
      THEN /\ config'.downloadPath = saved
           /\ Broker => config'.port = written.mqtt
      ELSE config'.downloadPath = DefaultFolder
<1>1. ASSUME TypeOK, ConfigInv, [Next]_vars, ~running, running'
      PROVE  Found
  <2>1. config' \in Loaded(configFile) /\ configFile \in Files
    BY <1>1, OnlyStartStarts DEF TypeOK, ConfigTypeOK
  <2>2. /\ config'.opened => /\ config'.downloadPath = saved
                             /\ config'.port \in PortsRead(Root(configFile))
        /\ ~config'.opened => config'.downloadPath = DefaultFolder
    BY <1>1, <2>1, LoadedTyped DEF ConfigInv
  <2>3. ASSUME Broker
        PROVE  PortsRead(Root(configFile)) = {written.mqtt}
    <3>1. Root(configFile).mqtt = written.mqtt
      BY <1>1, <2>3 DEF ConfigInv, SectionsSurvive
    <3>2. written.mqtt \in Nat
      BY <1>1, <2>3, ConfigAssumption DEF TypeOK, ConfigTypeOK, Document
    <3>3. written.mqtt % PortRange = written.mqtt
      BY <2>3, <3>2 DEF PortRange
    <3> QED BY <2>3, <3>1, <3>3 DEF PortsRead
  <2> QED BY <2>2, <2>3
<1>2. TypeOK /\ ConfigInv /\ [Next]_vars => [~running /\ running' => Found]_vars
  BY <1>1
<1> QED
  BY <1>2, WindowTypeOK, ConfigFromInit, ConfigNext, PTL
  DEF Spec, StartFindsSaved

-----------------------------------------------------------------------------
(* A program that is not running has nothing open, queued or begun. *)

StoppedInv ==
  ~running => /\ boxes = <<>> /\ toWorker = <<>> /\ toWindow = <<>>
              /\ worker.state = "Idle"

LEMMA StoppedNext ==
  ASSUME TypeOK, StoppedInv, [Next]_vars
  PROVE  StoppedInv'
<1>1. CASE Gone
  BY <1>1 DEF Gone, Worker0, StoppedInv
<1>2. CASE running'
  BY <1>2 DEF StoppedInv
<1>3. CASE UNCHANGED <<running, boxes, toWorker, toWindow, worker>>
  BY <1>3 DEF StoppedInv
<1>4. ~running => ~TransferStarted /\ ~TransferFinished /\ ~TransferCanceled
  BY DEF StoppedInv, TransferStarted, TransferFinished, TransferCanceled, Arrives
<1>5. ~running => ~SendFile /\ ~EndCall /\ ~SetDownloadPath
  BY DEF StoppedInv, SendFile, EndCall, SetDownloadPath, Posted
<1>6. ~running => ~EndTransfer
  BY DEF StoppedInv, EndTransfer
<1>7. CASE running
  <2>1. CASE Stop
    BY <1>1, <2>1 DEF Stop
  <2>2. ASSUME NEW folder \in Folders, FolderChosen(folder)
        PROVE  StoppedInv'
    BY <1>1, <1>2, <1>7, <2>2 DEF FolderChosen
  <2> QED
    BY <1>2, <1>7, <2>1, <2>2
    DEF Next, WindowLoop, WorkerLoop, User, Peer, vars, TransferStarted,
        TransferFinished, TransferCanceled, SendFile, EndCall,
        SetDownloadPath, CallWithoutTarget, SendClicked, FolderClicked,
        CancelClicked, BoxClosed, DragEnters, DragMoves, DragLeaves, Drop,
        FileChosen, Start, Edit, ConnectionEstablished, ConnectionClosed,
        PeerCancels, EndTransfer, PeerSends
<1>8. CASE ~running
  BY <1>2, <1>3, <1>4, <1>5, <1>6, <1>8
  DEF Next, WindowLoop, WorkerLoop, User, Peer, vars, CallWithoutTarget,
      SendClicked, FolderClicked, CancelClicked, BoxClosed, DragEnters,
      DragMoves, DragLeaves, Drop, FileChosen, FolderChosen, Stop, Start, Edit,
      ConnectionEstablished, ConnectionClosed, PeerCancels, PeerSends,
      Clickable, Innermost
<1> QED BY <1>7, <1>8

-----------------------------------------------------------------------------
(* The folder. *)

Sets(i) == toWorker[i].type = "setDownloadPath"

\* The last folder posted is the one on display; with none posted the worker
\* has it.
LastSet(i) == Sets(i) /\ \A j \in DOMAIN toWorker : j > i => ~Sets(j)

FolderInv ==
  /\ window.folder = config.downloadPath
  /\ ~Waiting("setDownloadPath") => worker.folder = window.folder
  /\ \A i \in DOMAIN toWorker : LastSet(i) => toWorker[i].folder = window.folder

\* A call of another kind leaves it all as it was,
LEMMA PostOther ==
  ASSUME TypeOK, FolderInv, NEW call \in Call, call.type # "setDownloadPath",
         Post(call), UNCHANGED <<config, worker>>,
         window'.folder = window.folder
  PROVE  FolderInv'
<1> DEFINE n == Len(toWorker)
<1>1. /\ toWorker \in Seq(Call) /\ n \in Nat
      /\ toWorker' = Append(toWorker, call)
      /\ DOMAIN toWorker' = 1..(n + 1) /\ DOMAIN toWorker = 1..n
      /\ toWorker'[n + 1] = call
      /\ \A i \in 1..n : toWorker'[i] = toWorker[i]
  BY DEF TypeOK, Post
<1>2. Waiting("setDownloadPath") => Waiting("setDownloadPath")'
  BY <1>1 DEF Waiting
<1>3. ASSUME NEW i \in DOMAIN toWorker', LastSet(i)'
      PROVE  toWorker'[i].folder = window'.folder
  <2>1. i \in 1..n
    BY <1>1, <1>3 DEF LastSet, Sets
  <2>2. LastSet(i)
    BY <1>1, <1>3, <2>1 DEF LastSet, Sets
  <2> QED BY <1>1, <2>1, <2>2 DEF FolderInv
<1> QED BY <1>2, <1>3 DEF FolderInv

\* a folder chosen is shown and kept as it is posted,
LEMMA PostFolder ==
  ASSUME TypeOK, FolderInv, NEW folder \in Folders,
         Post([type |-> "setDownloadPath", folder |-> folder]),
         window' = [window EXCEPT !.folder = folder],
         config' = [config EXCEPT !.downloadPath = folder]
  PROVE  FolderInv'
<1> DEFINE call == [type |-> "setDownloadPath", folder |-> folder]
<1>0. PICK n \in Nat : n = Len(toWorker)
  BY DEF TypeOK
<1>1. /\ toWorker \in Seq(Call) /\ n \in Nat /\ call \in Call
      /\ toWorker' = Append(toWorker, call)
      /\ DOMAIN toWorker' = 1..(n + 1) /\ DOMAIN toWorker = 1..n
      /\ toWorker'[n + 1] = call
  BY <1>0 DEF TypeOK, Post, Call
<1>2. window'.folder = folder /\ config'.downloadPath = folder
  BY DEF TypeOK, Widgets, Config
<1>3. Sets(n + 1)' /\ Waiting("setDownloadPath")'
  BY <1>1 DEF Sets, Waiting
<1>4. ASSUME NEW i \in DOMAIN toWorker', LastSet(i)'
      PROVE  toWorker'[i].folder = window'.folder
  <2>1. i \in 1..(n + 1) /\ ~(n + 1 > i)
    BY <1>1, <1>3, <1>4 DEF LastSet
  <2>2. i = n + 1
    BY <2>1
  <2> QED BY <1>1, <1>2, <2>2
<1> QED BY <1>2, <1>3, <1>4 DEF FolderInv

\* and a call that is handled takes what it says to the worker.
LEMMA HandleCall ==
  ASSUME TypeOK, FolderInv, toWorker # <<>>, toWorker' = Tail(toWorker),
         window'.folder = window.folder, UNCHANGED config,
         worker'.folder = IF Head(toWorker).type = "setDownloadPath"
                          THEN Head(toWorker).folder ELSE worker.folder
  PROVE  FolderInv'
<1> DEFINE n == Len(toWorker)
<1>1. /\ toWorker \in Seq(Call) /\ n \in Nat \ {0}
      /\ DOMAIN toWorker = 1..n /\ DOMAIN toWorker' = 1..(n - 1)
      /\ Head(toWorker) = toWorker[1]
      /\ \A i \in 1..(n - 1) : toWorker'[i] = toWorker[i + 1]
  BY DEF TypeOK
<1>2. ASSUME ~Waiting("setDownloadPath")'
      PROVE  worker'.folder = window'.folder
  <2>1. \A i \in 2..n : ~Sets(i)
    <3>1. SUFFICES ASSUME NEW i \in 2..n, Sets(i) PROVE FALSE
      OBVIOUS
    <3>2. i - 1 \in 1..(n - 1) /\ toWorker'[i - 1] = toWorker[(i - 1) + 1]
      BY <1>1
    <3>3. toWorker'[i - 1] = toWorker[i]
      BY <3>2
    <3> QED BY <1>1, <1>2, <3>1, <3>2, <3>3 DEF Waiting, Sets
  <2>2. CASE Sets(1)
    <3>1. LastSet(1)
      BY <1>1, <2>1, <2>2 DEF LastSet
    <3> QED BY <1>1, <2>2, <3>1 DEF FolderInv, Sets
  <2>3. CASE ~Sets(1)
    <3>1. ~Waiting("setDownloadPath")
      BY <1>1, <2>1, <2>3 DEF Waiting, Sets
    <3> QED BY <1>1, <2>3, <3>1 DEF FolderInv, Sets
  <2> QED BY <2>2, <2>3
<1>3. ASSUME NEW i \in DOMAIN toWorker', LastSet(i)'
      PROVE  toWorker'[i].folder = window'.folder
  <2>1. i \in 1..(n - 1) /\ i + 1 \in 1..n /\ toWorker'[i] = toWorker[i + 1]
    BY <1>1
  <2>2. ASSUME NEW j \in 1..n, j > i + 1
        PROVE  ~Sets(j)
    <3>1. j - 1 \in 1..(n - 1) /\ j - 1 > i /\ toWorker'[j - 1] = toWorker[(j - 1) + 1]
      BY <1>1, <2>1, <2>2
    <3>2. toWorker'[j - 1] = toWorker[j]
      BY <3>1
    <3> QED BY <1>1, <1>3, <3>1, <3>2 DEF LastSet, Sets
  <2>3. LastSet(i + 1)
    BY <1>1, <1>3, <2>1, <2>2 DEF LastSet, Sets
  <2> QED BY <1>1, <2>1, <2>3 DEF FolderInv
<1> QED BY <1>2, <1>3 DEF FolderInv

\* A program that begins or is gone has nothing posted.
LEMMA FolderFresh ==
  ASSUME NEW c, config' = c, window' = Widgets0(c.downloadPath),
         worker' = Worker0(c.downloadPath), toWorker' = <<>>
  PROVE  FolderInv'
BY DEF FolderInv, Widgets0, Worker0, Waiting

LEMMA FolderSame ==
  ASSUME FolderInv, window'.folder = window.folder,
         worker'.folder = worker.folder, UNCHANGED <<config, toWorker>>
  PROVE  FolderInv'
BY DEF FolderInv, Waiting, LastSet, Sets

\* A transfer that begins or ends keeps the worker's folder.
LEMMA BeginKeepsFolder ==
  ASSUME TypeOK, NEW state, NEW file, Begin(state, file)
  PROVE  worker'.folder = worker.folder
<1>1. CASE file \in Unopenable
  BY <1>1 DEF Begin, Idle, TypeOK, Manager
<1>2. CASE file \notin Unopenable
  BY <1>2 DEF Begin, TypeOK, Manager
<1> QED BY <1>1, <1>2

LEMMA IdleKeepsFolder ==
  ASSUME TypeOK, NEW file
  PROVE  Idle(file).folder = worker.folder
BY DEF Idle, TypeOK, Manager

LEMMA ClearKeepsFolder ==
  ASSUME NEW w \in Widgets
  PROVE  ClearFileInfo(w).folder = w.folder
BY DEF ClearFileInfo, Widgets

LEMMA FolderNext ==
  ASSUME TypeOK, DragInv, StoppedInv, FolderInv, [Next]_vars
  PROVE  FolderInv'
<1>1. CASE TransferStarted
  <2>1. window'.folder = window.folder
    BY <1>1 DEF TransferStarted, TypeOK, Widgets
  <2> QED BY <1>1, <2>1, FolderSame DEF TransferStarted
<1>2. CASE TransferCanceled
  <2>1. window'.folder = window.folder
    BY <1>2, ClearKeepsFolder DEF TransferCanceled, TypeOK
  <2> QED BY <1>2, <2>1, FolderSame DEF TransferCanceled
<1>3. CASE BoxClosed
  <2>1. window'.folder = window.folder
    BY <1>3, ClearKeepsFolder DEF BoxClosed, TypeOK
  <2> QED BY <1>3, <2>1, FolderSame DEF BoxClosed
<1>4. CASE ConnectionEstablished
  <2>1. window'.folder = window.folder
    BY <1>4 DEF ConnectionEstablished, TypeOK, Widgets
  <2> QED BY <1>4, <2>1, FolderSame DEF ConnectionEstablished
<1>5. CASE SendFile
  <2>1. worker'.folder = worker.folder
    BY <1>5, BeginKeepsFolder DEF SendFile
  <2> QED BY <1>5, <2>1, HandleCall DEF SendFile, Posted
<1>6. CASE EndCall
  <2>1. worker'.folder = worker.folder
    BY <1>6, IdleKeepsFolder DEF EndCall
  <2> QED BY <1>6, <2>1, HandleCall DEF EndCall, Posted
<1>7. CASE SetDownloadPath
  <2>1. worker'.folder = Head(toWorker).folder
    BY <1>7 DEF SetDownloadPath, TypeOK, Manager
  <2> QED BY <1>7, <2>1, HandleCall DEF SetDownloadPath, Posted
<1>8. CASE CancelClicked
  BY <1>8, PostOther DEF CancelClicked, Call
<1>9. CASE ConnectionClosed
  <2>1. window'.folder = window.folder
    BY <1>9 DEF ConnectionClosed, TypeOK, Widgets
  <2> QED BY <1>9, <2>1, PostOther DEF ConnectionClosed, Call
<1>10. ASSUME NEW file \in Sendable, FileChosen(file)
       PROVE  FolderInv'
  <2>1. window'.folder = window.folder
    BY <1>10 DEF FileChosen, TypeOK, Widgets
  <2>2. [type |-> "sendFile", file |-> file] \in Call
    BY DEF Call
  <2> QED BY <1>10, <2>1, <2>2, PostOther DEF FileChosen
<1>11. CASE Drop
  <2>1. window'.folder = window.folder
    BY <1>11 DEF Drop, TypeOK, Widgets
  <2>2. CASE Post([type |-> "sendFile", file |-> dragged.file])
    <3>1. dragged.file \in Sendable
      BY <1>11 DEF Drop, TypeOK, DragInv
    <3>2. [type |-> "sendFile", file |-> dragged.file] \in Call
      BY <3>1 DEF Call
    <3> QED BY <1>11, <2>1, <2>2, <3>2, PostOther DEF Drop
  <2>3. CASE UNCHANGED toWorker
    BY <1>11, <2>1, <2>3, FolderSame DEF Drop
  <2> QED BY <1>11, <2>2, <2>3 DEF Drop
<1>12. ASSUME NEW folder \in Folders, FolderChosen(folder)
       PROVE  FolderInv'
  <2>1. CASE Gone
    BY <2>1, FolderFresh DEF Gone
  <2>2. CASE ~Gone
    BY <1>12, <2>2, PostFolder DEF FolderChosen
  <2> QED BY <2>1, <2>2
<1>13. CASE Stop
  BY <1>13, FolderFresh DEF Stop, Gone
<1>14. CASE Start
  <2>1. toWorker' = <<>>
    BY <1>14 DEF Start, StoppedInv
  <2>2. PICK c \in Loaded(configFile) :
          /\ config' = c
          /\ window' = Widgets0(c.downloadPath)
          /\ worker' = Worker0(c.downloadPath)
    BY <1>14 DEF Start
  <2> QED BY <2>1, <2>2, FolderFresh
<1>15. CASE EndTransfer
  BY <1>15, IdleKeepsFolder, FolderSame DEF EndTransfer
<1>16. CASE PeerCancels
  BY <1>16, IdleKeepsFolder, FolderSame DEF PeerCancels
<1>17. ASSUME NEW file \in Sendable, PeerSends(file)
       PROVE  FolderInv'
  BY <1>17, BeginKeepsFolder, FolderSame DEF PeerSends
<1>18. CASE UNCHANGED <<window, worker, config, toWorker>>
  BY <1>18, FolderSame
<1> QED
  BY <1>1, <1>2, <1>3, <1>4, <1>5, <1>6, <1>7, <1>8, <1>9, <1>10, <1>11,
     <1>12, <1>13, <1>14, <1>15, <1>16, <1>17, <1>18
  DEF Next, WindowLoop, WorkerLoop, User, Peer, vars, TransferFinished,
      CallWithoutTarget, SendClicked, FolderClicked, DragEnters, DragMoves,
      DragLeaves, Edit

LEMMA FolderFromInit == Init => FolderInv
BY DEF Init, FolderInv, Widgets0, Worker0, Waiting

LEMMA StoppedFromInit == Init => StoppedInv
BY DEF Init, StoppedInv

\* The folder on display, in m_appConfig and in the worker is one folder once
\* the calls posted are done (mainwindow.cpp:147-158).
THEOREM WindowFolderAgrees == Spec => []FolderAgrees
<1>1. FolderInv => FolderAgrees
  BY DEF FolderInv, FolderAgrees
<1> QED
  BY <1>1, WindowTypeOK, WindowDragInv, StoppedFromInit, StoppedNext,
     FolderFromInit, FolderNext, PTL DEF Spec

-----------------------------------------------------------------------------
(* The transfer on display. *)

LastSignal == toWindow[Len(toWindow)]

\* The last signal queued says what the worker does, unless it could not open a
\* file and said nothing.
QueueTells ==
  toWindow # <<>> =>
    /\ worker.state # "Idle" =>
         LastSignal.type = "transferStarted" /\ LastSignal.file = worker.file
    /\ worker.state = "Idle" /\ worker.file \notin Unopenable =>
         LastSignal.type # "transferStarted"

\* A success box amid a transfer is one whose start was handled under it.
BoxTells ==
  SuccessShown /\ worker.state # "Idle" /\ toWindow = <<>> => overtaken

ShowInv == QueueTells /\ BoxTells /\ RunningIsShown /\ NoGhostTransfer

\* A box opened is shown on top of the others,
LEMMA OpensShown ==
  ASSUME TypeOK, NEW box \in Boxes, Opens(box)
  PROVE  SuccessShown' <=> box = "success" \/ SuccessShown
<1>1. /\ Len(boxes) \in Nat /\ DOMAIN boxes = 1..Len(boxes)
      /\ DOMAIN boxes' = 1..(Len(boxes) + 1) /\ boxes'[1] = box
      /\ \A i \in 1..Len(boxes) : boxes'[i + 1] = boxes[i]
      /\ \A i \in 2..(Len(boxes) + 1) : boxes'[i] = boxes[i - 1]
  BY DEF TypeOK, Opens
<1>2. ASSUME SuccessShown'
      PROVE  box = "success" \/ SuccessShown
  <2>1. PICK i \in DOMAIN boxes' : boxes'[i] = "success"
    BY <1>2 DEF SuccessShown
  <2>2. CASE i = 1
    BY <1>1, <2>1, <2>2
  <2>3. CASE i # 1
    <3>1. i \in 2..(Len(boxes) + 1) /\ i - 1 \in DOMAIN boxes
      BY <1>1, <2>1, <2>3
    <3> QED BY <1>1, <2>1, <3>1 DEF SuccessShown
  <2> QED BY <2>2, <2>3
<1>3. ASSUME box = "success" PROVE SuccessShown'
  <2>1. 1 \in DOMAIN boxes'
    BY <1>1
  <2> QED BY <1>1, <1>3, <2>1 DEF SuccessShown
<1>4. ASSUME SuccessShown PROVE SuccessShown'
  <2>1. PICK i \in DOMAIN boxes : boxes[i] = "success"
    BY <1>4 DEF SuccessShown
  <2>2. i + 1 \in DOMAIN boxes' /\ boxes'[i + 1] = "success"
    BY <1>1, <2>1
  <2> QED BY <2>2 DEF SuccessShown
<1> QED BY <1>2, <1>3, <1>4

\* and one that is closed leaves them.
LEMMA ClosedShown ==
  ASSUME TypeOK, boxes # <<>>, boxes' = Tail(boxes)
  PROVE  /\ SuccessShown' => SuccessShown
         /\ Head(boxes) # "success" => (SuccessShown' <=> SuccessShown)
<1>1. /\ Len(boxes) \in Nat \ {0} /\ DOMAIN boxes = 1..Len(boxes)
      /\ DOMAIN boxes' = 1..(Len(boxes) - 1) /\ Head(boxes) = boxes[1]
      /\ \A i \in 1..(Len(boxes) - 1) : boxes'[i] = boxes[i + 1]
      /\ \A i \in 2..Len(boxes) : boxes'[i - 1] = boxes[i]
  BY DEF TypeOK
<1>2. ASSUME SuccessShown' PROVE SuccessShown
  <2>1. PICK i \in DOMAIN boxes' : boxes'[i] = "success"
    BY <1>2 DEF SuccessShown
  <2>2. i + 1 \in DOMAIN boxes /\ boxes[i + 1] = "success"
    BY <1>1, <2>1
  <2> QED BY <2>2 DEF SuccessShown
<1>3. ASSUME Head(boxes) # "success", SuccessShown PROVE SuccessShown'
  <2>1. PICK i \in DOMAIN boxes : boxes[i] = "success"
    BY <1>3 DEF SuccessShown
  <2>2. i \in 2..Len(boxes) /\ i - 1 \in DOMAIN boxes'
    BY <1>1, <1>3, <2>1
  <2> QED BY <1>1, <2>1, <2>2 DEF SuccessShown
<1> QED BY <1>2, <1>3

\* A step the display has nothing to do with.
LEMMA ShowSame ==
  ASSUME ShowInv, UNCHANGED <<toWindow, overtaken>>,
         SuccessShown' <=> SuccessShown,
         worker'.state = worker.state, worker'.file = worker.file,
         window'.active = window.active, window'.fileName = window.fileName,
         window.cancelEnabled => window'.cancelEnabled,
         window'.folderEnabled = window.folderEnabled
  PROVE  ShowInv'
BY DEF ShowInv, QueueTells, LastSignal, BoxTells, RunningIsShown,
       NoGhostTransfer

\* One after which there is no transfer and none on display.
LEMMA ShowFresh ==
  ASSUME toWindow' = <<>>, worker'.state = "Idle", window'.active = FALSE
  PROVE  ShowInv'
BY DEF ShowInv, QueueTells, BoxTells, RunningIsShown, NoGhostTransfer

\* While a signal waits, only it matters.
LEMMA ShowEmitted ==
  ASSUME TypeOK, NEW signal \in Signal, toWindow' = Append(toWindow, signal),
         worker'.state # "Idle" =>
           signal.type = "transferStarted" /\ signal.file = worker'.file,
         worker'.state = "Idle" => signal.type # "transferStarted"
  PROVE  ShowInv'
<1>1. toWindow' # <<>> /\ LastSignal' = signal
  BY DEF TypeOK, LastSignal
<1> QED
  BY <1>1 DEF ShowInv, QueueTells, BoxTells, RunningIsShown, NoGhostTransfer

\* A transfer that begins, or could not.
LEMMA ShowBegun ==
  ASSUME TypeOK, ShowInv, NEW state \in {"Sending", "Receiving"},
         NEW file \in Sendable, Begin(state, file), UNCHANGED window,
         UNCHANGED <<boxes, overtaken>>
  PROVE  ShowInv'
<1>1. CASE file \in Unopenable
  <2>1. worker'.state = "Idle" /\ worker'.file \in Unopenable
    BY <1>1 DEF Begin, Idle, TypeOK, Manager
  <2> QED
    BY <2>1 DEF ShowInv, QueueTells, BoxTells, RunningIsShown, NoGhostTransfer
<1>2. CASE file \notin Unopenable
  <2>1. worker'.state # "Idle" /\ worker'.file = file
    BY <1>2 DEF Begin, TypeOK, Manager
  <2>2. toWindow' =
          Append(toWindow, [type |-> "transferStarted", file |-> file])
    BY <1>2 DEF Begin
  <2>3. [type |-> "transferStarted", file |-> file] \in Signal
    BY DEF Signal
  <2> QED BY <2>1, <2>2, <2>3, ShowEmitted
<1> QED BY <1>1, <1>2

\* One that ends, with a word.
LEMMA ShowEnded ==
  ASSUME TypeOK, NEW type \in {"transferFinished", "transferCanceled"},
         Emit(type), worker' = Idle(worker.file)
  PROVE  ShowInv'
<1>1. worker'.state = "Idle"
  BY DEF Idle, TypeOK, Manager
<1>2. [type |-> type] \in Signal /\ toWindow' = Append(toWindow, [type |-> type])
  BY DEF Signal, Emit
<1> QED BY <1>1, <1>2, ShowEmitted

\* The signals left after the first end as all of them do.
LEMMA TailTells ==
  ASSUME TypeOK, toWindow # <<>>, toWindow' = Tail(toWindow)
  PROVE  IF toWindow' = <<>> THEN LastSignal = Head(toWindow)
                             ELSE LastSignal' = LastSignal
<1>1. CASE Len(toWindow) = 1
  BY <1>1 DEF TypeOK, LastSignal
<1>2. CASE Len(toWindow) # 1
  <2>0. toWindow \in Seq(Signal) /\ toWindow # <<>> /\ toWindow' \in Seq(Signal)
    BY HeadTyped DEF TypeOK
  <2>1. /\ Len(toWindow) \in Nat /\ Len(toWindow) > 1
        /\ Len(toWindow') = Len(toWindow) - 1
        /\ \A i \in 1..(Len(toWindow) - 1) : toWindow'[i] = toWindow[i + 1]
    BY <1>2, <2>0
  <2>2. toWindow' # <<>>
    <3>1. Len(toWindow') # 0
      BY <2>1
    <3> QED BY <3>1
  <2>3. Len(toWindow') \in 1..(Len(toWindow) - 1)
    BY <2>1
  <2>4. toWindow'[Len(toWindow')] = toWindow[Len(toWindow') + 1]
    BY <2>1, <2>3
  <2>5. Len(toWindow') + 1 = Len(toWindow)
    BY <2>1
  <2> QED BY <2>2, <2>4, <2>5 DEF LastSignal
<1> QED BY <1>1, <1>2

LEMMA ShowStarted ==
  ASSUME TypeOK, ShowInv, TransferStarted
  PROVE  ShowInv'
<1>1. /\ toWindow # <<>> /\ toWindow' = Tail(toWindow)
      /\ Head(toWindow).type = "transferStarted" /\ worker' = worker
      /\ overtaken' = SuccessShown /\ boxes' = boxes
  BY DEF TransferStarted, Arrives
<1>2. /\ window'.active /\ window'.cancelEnabled /\ ~window'.folderEnabled
      /\ window'.fileName = Head(toWindow).file
  BY DEF TransferStarted, TypeOK, Widgets
<1>3. CASE toWindow' = <<>>
  <2>1. LastSignal = Head(toWindow)
    BY <1>1, <1>3, TailTells
  <2>2. /\ worker.state # "Idle" => Head(toWindow).file = worker.file
        /\ worker.state = "Idle" => worker.file \in Unopenable
    BY <1>1, <2>1 DEF ShowInv, QueueTells
  <2>3. SuccessShown' <=> SuccessShown
    BY <1>1 DEF SuccessShown
  <2> QED
    BY <1>1, <1>2, <1>3, <2>2, <2>3
    DEF ShowInv, QueueTells, BoxTells, RunningIsShown, NoGhostTransfer
<1>4. CASE toWindow' # <<>>
  <2>1. LastSignal' = LastSignal
    BY <1>1, <1>4, TailTells
  <2> QED
    BY <1>1, <1>4, <2>1
    DEF ShowInv, QueueTells, BoxTells, RunningIsShown, NoGhostTransfer
<1> QED BY <1>3, <1>4

LEMMA ShowFinished ==
  ASSUME TypeOK, ShowInv, TransferFinished
  PROVE  ShowInv'
<1>1. /\ toWindow # <<>> /\ toWindow' = Tail(toWindow) /\ worker' = worker
      /\ Head(toWindow).type = "transferFinished" /\ Opens("success")
  BY DEF TransferFinished, Arrives
<1>2. SuccessShown'
  BY <1>1, OpensShown DEF Boxes
<1>3. CASE toWindow' = <<>>
  <2>1. worker.state = "Idle"
    BY <1>1, <1>3, TailTells DEF ShowInv, QueueTells
  <2> QED
    BY <1>1, <1>2, <1>3, <2>1
    DEF ShowInv, QueueTells, BoxTells, RunningIsShown, NoGhostTransfer
<1>4. CASE toWindow' # <<>>
  <2>1. LastSignal' = LastSignal
    BY <1>1, <1>4, TailTells
  <2> QED
    BY <1>1, <1>4, <2>1
    DEF ShowInv, QueueTells, BoxTells, RunningIsShown, NoGhostTransfer
<1> QED BY <1>3, <1>4

LEMMA ShowCanceled ==
  ASSUME TypeOK, ShowInv, TransferCanceled
  PROVE  ShowInv'
<1>1. /\ toWindow # <<>> /\ toWindow' = Tail(toWindow) /\ worker' = worker
      /\ Head(toWindow).type = "transferCanceled"
      /\ window' = ClearFileInfo(window)
  BY DEF TransferCanceled, Arrives
<1>2. CASE toWindow' = <<>>
  <2>1. worker.state = "Idle"
    BY <1>1, <1>2, TailTells DEF ShowInv, QueueTells
  <2>2. window'.active = FALSE
    BY <1>1 DEF ClearFileInfo, TypeOK, Widgets
  <2> QED BY <1>1, <1>2, <2>1, <2>2, ShowFresh
<1>3. CASE toWindow' # <<>>
  <2>1. LastSignal' = LastSignal
    BY <1>1, <1>3, TailTells
  <2> QED
    BY <1>1, <1>3, <2>1
    DEF ShowInv, QueueTells, BoxTells, RunningIsShown, NoGhostTransfer
<1> QED BY <1>2, <1>3

LEMMA ShowClosed ==
  ASSUME TypeOK, ShowInv, BoxClosed
  PROVE  ShowInv'
<1>1. /\ boxes # <<>> /\ boxes' = Tail(boxes)
      /\ UNCHANGED <<toWindow, overtaken>> /\ worker' = worker
  BY DEF BoxClosed
<1>2. CASE Head(boxes) = "success"
  <2>1. window'.active = FALSE
    BY <1>2 DEF BoxClosed, ClearFileInfo, TypeOK, Widgets
  <2>2. 1 \in DOMAIN boxes /\ boxes[1] = "success"
    BY <1>1, <1>2 DEF TypeOK
  <2>3. SuccessShown
    BY <2>2 DEF SuccessShown
  <2> QED
    BY <1>1, <2>1, <2>3
    DEF ShowInv, QueueTells, LastSignal, BoxTells, RunningIsShown,
        NoGhostTransfer
<1>3. CASE Head(boxes) # "success"
  <2>1. window' = window
    BY <1>3 DEF BoxClosed
  <2>2. SuccessShown' <=> SuccessShown
    BY <1>1, <1>3, ClosedShown
  <2> QED BY <1>1, <2>1, <2>2, ShowSame
<1> QED BY <1>2, <1>3

LEMMA ShowNext ==
  ASSUME TypeOK, StoppedInv, ShowInv, [Next]_vars
  PROVE  ShowInv'
<1>1. CASE WindowLoop
  BY <1>1, ShowStarted, ShowFinished, ShowCanceled DEF WindowLoop
<1>2. CASE SendFile
  <2>1. toWorker # <<>> /\ Head(toWorker).type = "sendFile"
    BY <1>2 DEF SendFile, Posted
  <2>2. Head(toWorker) \in Call
    BY <2>1, HeadTyped
  <2>3. Head(toWorker).file \in Sendable
    BY <2>1, <2>2 DEF Call
  <2> QED BY <1>2, <2>3, ShowBegun DEF SendFile
<1>3. CASE EndCall
  BY <1>3, ShowEnded DEF EndCall
<1>4. CASE SetDownloadPath
  <2>1. worker'.state = worker.state /\ worker'.file = worker.file
    BY <1>4 DEF SetDownloadPath, TypeOK, Manager
  <2>2. SuccessShown' <=> SuccessShown
    BY <1>4 DEF SetDownloadPath, SuccessShown
  <2> QED BY <1>4, <2>1, <2>2, ShowSame DEF SetDownloadPath
<1>5. CASE CallWithoutTarget \/ SendClicked \/ FolderClicked
  <2>1. SuccessShown' <=> SuccessShown
    BY <1>5, OpensShown DEF CallWithoutTarget, SendClicked, FolderClicked, Boxes
  <2> QED
    BY <1>5, <2>1, ShowSame DEF CallWithoutTarget, SendClicked, FolderClicked
<1>6. CASE UNCHANGED <<boxes, overtaken, toWindow, worker, window>>
  <2>1. SuccessShown' <=> SuccessShown
    BY <1>6 DEF SuccessShown
  <2> QED BY <1>6, <2>1, ShowSame
<1>7. CASE BoxClosed
  BY <1>7, ShowClosed
<1>8. ASSUME NEW file \in Sendable, FileChosen(file)
      PROVE  ShowInv'
  <2>1. boxes # <<>> /\ boxes' = Tail(boxes) /\ Head(boxes) = "sendDialog"
    BY <1>8 DEF FileChosen, Innermost
  <2>2. SuccessShown' <=> SuccessShown
    BY <2>1, ClosedShown
  <2>3. /\ window'.active = window.active /\ window'.fileName = window.fileName
        /\ window'.cancelEnabled
        /\ window'.folderEnabled = window.folderEnabled
    BY <1>8 DEF FileChosen, TypeOK, Widgets
  <2> QED BY <1>8, <2>2, <2>3, ShowSame DEF FileChosen
<1>9. ASSUME NEW folder \in Folders, FolderChosen(folder)
      PROVE  ShowInv'
  <2>1. CASE Gone
    BY <2>1, ShowFresh DEF Gone, Widgets0, Worker0
  <2>2. CASE ~Gone
    <3>1. boxes # <<>> /\ boxes' = Tail(boxes) /\ Head(boxes) = "folderDialog"
      BY <1>9, <2>2 DEF FolderChosen, Innermost
    <3>2. SuccessShown' <=> SuccessShown
      BY <3>1, ClosedShown
    <3>3. /\ window'.active = window.active
          /\ window'.fileName = window.fileName
          /\ window'.cancelEnabled = window.cancelEnabled
          /\ window'.folderEnabled = window.folderEnabled
      BY <1>9, <2>2 DEF FolderChosen, TypeOK, Widgets
    <3> QED BY <1>9, <2>2, <3>2, <3>3, ShowSame DEF FolderChosen
  <2> QED BY <2>1, <2>2
<1>10. CASE Drop
  <2>1. SuccessShown' <=> SuccessShown
    <3>1. CASE UNCHANGED boxes
      BY <3>1 DEF SuccessShown
    <3>2. CASE Opens("notConnected")
      BY <3>2, OpensShown DEF Boxes
    <3> QED BY <1>10, <3>1, <3>2 DEF Drop
  <2>2. /\ window'.active = window.active /\ window'.fileName = window.fileName
        /\ window.cancelEnabled => window'.cancelEnabled
        /\ window'.folderEnabled = window.folderEnabled
    BY <1>10 DEF Drop, TypeOK, Widgets
  <2> QED BY <1>10, <2>1, <2>2, ShowSame DEF Drop
<1>11. CASE Stop
  BY <1>11, ShowFresh DEF Stop, Gone, Widgets0, Worker0
<1>12. CASE Start
  <2>1. toWindow' = <<>>
    BY <1>12 DEF Start, StoppedInv
  <2>2. worker'.state = "Idle" /\ window'.active = FALSE
    BY <1>12 DEF Start, Widgets0, Worker0
  <2> QED BY <2>1, <2>2, ShowFresh
<1>13. CASE ConnectionEstablished
  <2>1. /\ window'.active = window.active /\ window'.fileName = window.fileName
        /\ window'.cancelEnabled = window.cancelEnabled
        /\ window'.folderEnabled = window.folderEnabled
    BY <1>13 DEF ConnectionEstablished, TypeOK, Widgets
  <2>2. SuccessShown' <=> SuccessShown
    BY <1>13 DEF ConnectionEstablished, SuccessShown
  <2> QED BY <1>13, <2>1, <2>2, ShowSame DEF ConnectionEstablished
<1>14. CASE ConnectionClosed
  <2>1. /\ window'.active = window.active /\ window'.fileName = window.fileName
        /\ window'.cancelEnabled = window.cancelEnabled
        /\ window'.folderEnabled = window.folderEnabled
    BY <1>14 DEF ConnectionClosed, TypeOK, Widgets
  <2>2. SuccessShown' <=> SuccessShown
    BY <1>14, OpensShown DEF ConnectionClosed, Boxes
  <2> QED BY <1>14, <2>1, <2>2, ShowSame DEF ConnectionClosed
<1>15. CASE PeerCancels
  BY <1>15, ShowEnded DEF PeerCancels
<1>16. CASE EndTransfer
  <2>1. CASE worker.state = "Sending"
    BY <1>16, <2>1, ShowEnded DEF EndTransfer
  <2>2. CASE worker.state # "Sending"
    BY <1>16, <2>2, ShowEnded DEF EndTransfer
  <2> QED BY <2>1, <2>2
<1>17. ASSUME NEW file \in Sendable, PeerSends(file)
       PROVE  ShowInv'
  BY <1>17, ShowBegun DEF PeerSends
<1> QED
  BY <1>1, <1>2, <1>3, <1>4, <1>5, <1>6, <1>7, <1>8, <1>9, <1>10, <1>11,
     <1>12, <1>13, <1>14, <1>15, <1>16, <1>17
  DEF Next, WorkerLoop, User, Peer, vars, CancelClicked, DragEnters, DragMoves,
      DragLeaves, Edit

LEMMA ShowFromInit == Init => ShowInv
<1> SUFFICES ASSUME Init PROVE ShowInv
  OBVIOUS
<1>1. toWindow = <<>> /\ worker.state = "Idle" /\ window.active = FALSE
  BY DEF Init, Widgets0, Worker0
<1> QED
  BY <1>1 DEF ShowInv, QueueTells, BoxTells, RunningIsShown, NoGhostTransfer

LEMMA WindowShowInv == Spec => []ShowInv
BY WindowTypeOK, StoppedFromInit, StoppedNext, ShowFromInit, ShowNext, PTL
   DEF Spec

\* A transfer that runs is on display once its signals are handled, but for a
\* success box dismissed late (mainwindow.cpp:83-104).
THEOREM WindowRunningIsShown == Spec => []RunningIsShown
<1>1. ShowInv => RunningIsShown
  BY DEF ShowInv
<1> QED BY <1>1, WindowShowInv, PTL

\* No transfer that is over stays on display, but for a file that could not be
\* opened (mainwindow.cpp:101-110).
THEOREM WindowNoGhostTransfer == Spec => []NoGhostTransfer
<1>1. ShowInv => NoGhostTransfer
  BY DEF ShowInv
<1> QED BY <1>1, WindowShowInv, PTL

=============================================================================
