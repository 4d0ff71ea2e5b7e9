------------------------------ MODULE AppConfig ------------------------------
(***************************************************************************)
(* config.json and the two functions of appconfig.cpp that read and write  *)
(* it. What AppConfig::load returns and what AppConfig::save leaves on the *)
(* disk are operators and one action; who calls them, and when, is Window. *)
(*                                                                         *)
(* A section of the file is what it says, or None when it is missing:      *)
(* "mqtt" is its port (the host goes with it), "webrtc" its list of        *)
(* servers, "folder" the download_path of the settings.                    *)
(***************************************************************************)
EXTENDS Integers

CONSTANTS
  Folders,        \* download folders
  DefaultFolder,  \* QStandardPaths::DownloadLocation
  Ports,          \* port numbers a file may name
  Garbage,        \* what a port that nothing assigned may read as
  Servers,        \* lists of ICE servers a file may name
  DiskFails,      \* whether an open or a write of config.json may fail
  Absent,         \* no config.json
  Garbled,        \* a config.json that is no JSON document
  None            \* a section that is missing

PortRange == 65536     \* quint16

ASSUME ConfigAssumption ==
  /\ DefaultFolder \in Folders
  /\ Ports \subseteq Nat
  /\ Garbage \subseteq 0..(PortRange - 1) /\ Garbage # {}
  /\ None \notin Ports \cup Servers \cup Folders
  /\ DiskFails \in BOOLEAN

Document ==
  [mqtt : Ports \cup {None}, webrtc : Servers \cup {None},
   folder : Folders \cup {None}]

ASSUME FilesAssumption ==
  Absent # Garbled /\ Absent \notin Document /\ Garbled \notin Document

Files == Document \cup {Absent, Garbled}

\* AppConfig, its port already a quint16.
Config ==
  [port : 0..(PortRange - 1), iceServers : Servers \cup {None},
   downloadPath : Folders,
   opened : BOOLEAN]      \* history: load could open the file

VARIABLES
  configFile,   \* config.json
  written,      \* history: the sections somebody wrote into it by hand
  saved,        \* history: the folder a start should find
  damaged       \* history: a save was cut short or could not read the file

configVars == <<configFile, written, saved, damaged>>

EmptyRoot == [mqtt |-> None, webrtc |-> None, folder |-> None]

\* QJsonDocument::fromJson(...).object(): an empty object if it does not parse.
Root(f) == IF f \in Document THEN f ELSE EmptyRoot

FolderOf_Default(root) == DefaultFolder

FolderOf(root) == IF root.folder = None THEN DefaultFolder ELSE root.folder

PortsRead_Wide(root) == IF root.mqtt = None THEN Garbage ELSE {root.mqtt}

\* toInt() narrowed to quint16; without the section nothing is assigned.
PortsRead(root) ==
  IF root.mqtt = None THEN Garbage ELSE {root.mqtt % PortRange}

\* Whether the open in load may succeed: never without a file.
Openings(f) == {f # Absent} \cup IF DiskFails THEN {FALSE} ELSE {}

\* What load goes by. A file it cannot open leaves the defaults, as an empty
\* document does.
RootRead(f, opened) == IF opened THEN Root(f) ELSE EmptyRoot

ConfigsRead(root, opened) ==
  {[port |-> port, iceServers |-> root.webrtc, downloadPath |-> FolderOf(root),
    opened |-> opened] : port \in PortsRead(root)}

\* The configurations load may return.
Loaded(f) ==
  UNION {ConfigsRead(RootRead(f, opened), opened) : opened \in Openings(f)}

WithFolder_Alone(root, folder) == [EmptyRoot EXCEPT !.folder = folder]

\* The document save writes: what it read, with its own folder.
WithFolder(root, folder) == [root EXCEPT !.folder = folder]

\* Truncated, and nothing or a part written: a crash, or a disk that is full.
SaveCutShort ==
  /\ configFile' = Garbled
  /\ damaged' = TRUE
  /\ saved' = DefaultFolder
  /\ UNCHANGED written

\* save(), which tells its caller only whether the file could be opened.
Save(folder) ==
  \/ /\ configFile' = WithFolder(Root(configFile), folder)
     /\ saved' = folder
     /\ UNCHANGED <<written, damaged>>
  \/ /\ DiskFails      \* it cannot be opened for reading
     /\ configFile' = WithFolder(EmptyRoot, folder)
     /\ saved' = folder
     /\ damaged' = TRUE
     /\ UNCHANGED written
  \/ DiskFails /\ UNCHANGED configVars      \* nor for writing
  \/ DiskFails /\ SaveCutShort

\* Somebody changes the broker in config.json while the program runs, or not.
EditByHand ==
  /\ configFile \in Document
  /\ \E port \in Ports :
       /\ configFile' = [configFile EXCEPT !.mqtt = port]
       /\ written' = [written EXCEPT !.mqtt = port]
  /\ UNCHANGED <<saved, damaged>>

ConfigInit ==
  /\ configFile \in Files
  /\ written = Root(configFile)
  /\ saved = FolderOf(Root(configFile))
  /\ damaged = FALSE

-----------------------------------------------------------------------------
(* Properties. *)

ConfigTypeOK ==
  /\ configFile \in Files
  /\ written \in Document
  /\ saved \in Folders
  /\ damaged \in BOOLEAN

\* A save keeps what it does not own: through any number of folders chosen,
\* edits by hand and restarts, the broker and the servers in the file are those
\* somebody wrote there, unless a save was cut short or could not read the file
\* first (appconfig.cpp:56-65).
SectionsSurvive ==
  ~damaged => /\ Root(configFile).mqtt = written.mqtt
              /\ Root(configFile).webrtc = written.webrtc

=============================================================================
