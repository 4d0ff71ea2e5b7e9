# P2P File Transfer in TLA+

A model of the application in this repository: what it does, what TLC has
checked of it on small instances, what TLAPS has proved of it for all values of
the parameters. Paths and line numbers are those of the repository's root.

## 1. The system

Two copies of a desktop program talk over WebRTC. Each has three threads that
matter: the UI thread (`MainWindow`, `P2PClient`), one worker
(`FileTransferManager`), and the threads of libdatachannel, which call back.

| Component | State it keeps | Operations | Talks to |
|---|---|---|---|
| `FileTransferManager` (worker) | `m_state`, `m_file` (name, mode, position), `m_hashState`, `m_expectedHash`, `m_expectedFileSize`, `m_receivedBytes`, timers | `sendFile`, `sendLoop`, `handleJsonCommand` (metadata, `accept_transfer`, `cancel_transfer`, `receiver_canceled`, `transfer_complete`), `handleBinaryChunk`, `checkCompletion`, `cancelTransfer`, `onPeerDisconnected`, `setBackpressure` | the window by queued signals; `P2PClient::sendJson`, `sendBinary`, `getBufferedAmount` by direct calls from the worker thread; the disk |
| `P2PClient`, data channels | the two `DataChannel` pointers and their open flags | `sendJson`, `sendBinary`, `getBufferedAmount`, `assignChannel`, `wireDataChannel` | libdatachannel; the worker (chunks straight, JSON and low-water events through the UI thread) |
| `P2PClient`, signaling | `m_targetId`, `m_peerConnection` | `call`, `handleSignalingMessage` (offer, answer, candidate), `setupWebRTC`, `closeConnection`, `onStateChange` | the MQTT broker, libdatachannel, the window |
| `MainWindow` | `m_connected`, `m_transferActive`, the buttons | clicks, drop, the slots of `wireSignals`, modal boxes with an event loop of their own | both of the above |
| `AppConfig` | `config.json` | `load`, `save` | the disk |
| `main`, log handler | the log file | start-up | - |
| `xxhash.*` (vendored) | `XXH3_state_t`: accumulators, buffer, counts | `XXH3_createState`, `_64bits_reset`, `_64bits_update`, `_64bits_digest`, `_freeState` | called by the manager, on the worker |

What is hard here:

- two channels, each ordered, with no order between them; JSON makes one thread
  hop more than chunks (`p2pclient.cpp:224` against `:230`);
- messages without a transfer id, handled in any state;
- members that outlive `cleanup()` (`m_receivedBytes`, `m_expectedFileSize`);
- a send loop that returns in the middle and depends on one callback to go on;
- a connection that can be lost, replaced or return at any point;
- channel pointers used by two threads with no lock;
- modal boxes that run other slots before the one that opened them goes on;
- a configuration file that is truncated before it is written;
- a streaming hash that must not depend on how its input was cut, computed by two
  builds that may be for different instruction sets.

`PROJECT.json` lists every such hazard at its line, with the properties that
cover it or the reason why none does.

Correctness, component by component:

- *File transfer*: a file that arrived is the file that was sent, and is kept; the
  hash is checked, against the file; nothing else is ever removed; every transfer
  ends on both sides; the send buffer stays bounded; no chunk and no iteration of the
  send loop meets a null hash state or a closed file, and no digest is asked of one.
- *Signaling*: both sides end with channels of the same connection; a connection
  that ends is reported; messages go to the peer they were made for.
- *Window*: it shows the transfer that runs, and none that does not, once its queue
  is empty; *Cancel* always gets the user out; the folder shown is the one in use.
- *Shared channel*: no thread uses a pointer the other has reset.
- *Configuration*: saving the folder loses nothing else; a start finds what was saved.
- *Hash*: a digest is the one-shot hash of the bytes given since the reset, the same
  on every machine; every byte is read, and in a place of its own.

## 2. Modules

| Module | Contents |
|---|---|
| `FileTransfer` | two managers and the channels between them; properties |
| `HandOver` | what a transfer is to its users: the abstract specification of `FileTransfer` |
| `MCFileTransfer` | the instances TLC runs |
| `FileTransferProofs` | theorems about `FileTransfer`, for users who click at any time |
| `PatientProofs`, `SessionProofs`, `ProgressProofs` | theorems about `FileTransfer` with patient users, each module on the one before it |
| `Signaling` | any number of `P2PClient`s, the broker and their WebRTC connections; properties |
| `MCSignaling` | the instances TLC runs |
| `SignalingProofs` | theorems about `Signaling`, for users who click at any time |
| `OrderlyProofs` | on the module before it: a theorem about `Signaling` with orderly users |
| `AppConfig` | `config.json`, `load` and `save` as operators and one action |
| `Window` | extends `AppConfig`: the window, its queues to and from a worker, starts and stops; properties |
| `MCWindow` | the instance TLC runs |
| `WindowProofs` | theorems about `Window` |
| `XXH3Stream` | the streaming state, call by call; properties |
| `XXH3Memory` | extends `XXH3Stream`: where a state is in memory; implements it; properties |
| `MCXXH3Memory` | the instance TLC runs |
| `XXH3StreamProofs` | theorems about `XXH3Stream` and `XXH3Memory`, the refinement among them |
| `XXH3Words`, `XXH3Vectors` | words, and the accumulate and scramble loops of each instruction set |
| `XXH3Builds` | long inputs hashed by several builds side by side; properties |
| `XXH3Short` | inputs of up to 240 bytes hashed by several builds; properties |
| `XXH3Hash`, `MCXXH3Hash` | the two composed, and the instance TLC runs |

The models meet in four places. `FileTransfer` takes a connection as given, lost
and restored (`up`, `LinkLost`, `LinkRestored`); `Signaling` says how connections come
and go. `FileTransfer` takes a hash to be what was hashed, however it was cut into chunks;
`DigestIsOneShot` says so of `XXH3Stream`. `XXH3Stream` takes a stripe fed to the accumulators
as an atom; `XXH3Builds` says what each instruction set does with one. `Window` has
of a worker what its signals tell, and leaves the other peer open; `FileTransfer` has
the worker in full, and of the window the clicks only.

### FileTransfer

State:

- `ftm[p]`: the members of `p`'s manager that outlive a call (`file`, `mode` and
  `pos` are those of `m_file`; `hash = None` is `m_hashState == nullptr`).
- `disk[p]`: files by path. A source file and a download never share a path.
- `looping[p]`: the worker is inside the `while` of `sendLoop`. The loop is the one
  place where something outside the worker (the draining buffer) changes what the
  code reads next, so each iteration is a step; every other handler is one step.
- `control[p]`, `binary[p]`: commands and chunks on their way to `p`. The chunks
  include those still in the sender's buffer: the last `buffered[Other(p)]` ones.
- `lowEvents[p]`: low-water callbacks not handled yet.
- `up`, `closing[p]`: the connection; a queued `onPeerDisconnected`.
- `crashed[p]`: the process died in a hash call on a null pointer.
- `signal[p]`: the last of `transferStarted`, `transferFinished`,
  `transferCanceled` the worker emitted, which is all the window goes by.
- `announced`, `verdict`: history, read by properties only: the source a peer was
  last told of, and what its `checkCompletion` compared since the other side last
  called `sendFile` (which resets it, so that `SentIsJudged` asks for a verdict of each
  transfer and not of the first one only).

| Action | Code |
|---|---|
| `SendFile` | `sendFile`, with the open that fails |
| `SendChunk`, `PauseLoop`, `FinishLoop` | an iteration of `sendLoop`, its return at the high-water mark, its end |
| `SetBackpressure` | `setBackpressure(false)` |
| `ReceiveMetadata`, `ReceiveAccept`, `ReceiveCancel`, `ReceiveComplete` | the four branches of `handleJsonCommand` |
| `HandleBinaryChunk` | `handleBinaryChunk`, with the write that fails |
| `CheckCompletion` | `checkCompletion`, part of the two actions above |
| `CancelTransfer`, `OnPeerDisconnected` | the functions of those names |
| `Drain`, `LinkLost`, `LoseInFlight`, `LinkRestored` | libdatachannel, as the code uses it |

Abstractions:

- Data is blocks of `CHUNK_SIZE`; a file is a sequence of blocks, a hash is the
  sequence of blocks hashed, so there are no collisions. A partial file is a whole
  number of blocks.
- A device opened with `QIODevice::Append` is write-only, so the loop that should
  hash the existing part of a download reads nothing (`ReadAll`).
- Progress and speed reports, the log and `setDownloadPath` are left out: they
  change nothing the protocol reads.
- At a loss, each queue keeps some prefix of what was in flight, and what was
  delivered is handled before `onPeerDisconnected`. The connection returns only
  after both workers were told; a connection replaced without that is left to
  `Session`.
- An operator `Name_Change` is `Name` with a slip; nothing uses it. It documents
  which mistake which property would catch (table in section 3).

### HandOver

No messages, queues or managers: the offer that stands (`deals`) and the two download
folders (`copy`). A peer makes an offer when none stands; the other one's copy is then
opened, grows by the block that comes next, and is judged when whole; an offer can be given
up at any point, and then what has arrived stays. Nothing else happens to either folder.

`FileTransfer!HandsOver` maps the managers to it. An offer of `s` by `p` stands
(`Dealing`) while `p` is sending `s`, or the other side receives what it was told is `s`, or the
metadata that says so is under way: a sender that has finished leaves an offer that
stands until the receiver has its verdict, and a cancel ends it for the users when it ends
on the last of the two sides. `Copy` is the disk. So a step of the code that ends one side
only, pauses the loop, or is a late message dropped, is a stutter; `SendFile` makes an
offer, `ReceiveMetadata` opens, `HandleBinaryChunk` grows or judges.

`Judge` may keep the file or remove it. The code always removes it (the run `whole_file`);
`HandOver` would be implemented just the same by a `checkCompletion` that can keep it.

### Users

`Spec` lets users click at any time: *Send* is not gated on a running transfer
(`mainwindow.cpp:124`), *Cancel* may be clicked just as a transfer ends. `PatientSpec`
restricts the users, never the program: they send only over an open connection
with nothing of an earlier transfer in flight, and cancel only a running one.
The two together say which properties depend on the program and which on luck.

### Signaling

State:

- `client[p]`: `m_targetId` (`None` is the empty string), `m_peerConnection`, the
  connections `m_controlChannel` and `m_binaryChannel` belong to, and the two open
  flags. `connected[p]` is `m_connected` of the window, `status[p]` what has become of
  the application.
- `conn`: every `PeerConnection` ever made. A pointer to one is its index, 0 is
  `nullptr`; the description it makes is named by that index too, so `remote` says
  whose description it was given. `phase` is `new`, `connected` or `over` (closed,
  disconnected or failed: none comes back).
- `posted[p]`: the lambdas `invokeMethod` has queued on `p`'s event loop, in order:
  `publish` (`p2pclient.cpp:58`), `ended` (`:98`), `channel` (`:128`), `open` (`:204`).
- `inbox[p]`: what the broker has for `p`.
- `orderly`: history, read by properties and `OrderlySpec` only.

| Action | Code |
|---|---|
| `OnMQTTConnected` | `onMQTTConnected` |
| `Call` | `on_callButton_clicked`, `call`, with `closeConnection` and `setupWebRTC` |
| `ReceiveOffer`, `ReceiveAnswer`, `ReceiveCandidate` | the branches of `handleSignalingMessage` |
| `PublishMessage` | the lambda of `sendSignalingMessage`, which reads `m_targetId` when it runs |
| `OnStateChange` | the lambda of `onStateChange`, and `connectionClosed` in the window |
| `AssignChannel` | the lambda of `onDataChannel`: `assignChannel`, `wireDataChannel` |
| `OnOpen` | the lambda of `onOpen`: `checkConnectionReady`, and `connectionEstablished` in the window |
| `LocalDescription` | the callbacks `onLocalDescription` and `onLocalCandidate`, on a thread of the library |
| `Quit` | `~P2PClient` |
| `Connect`, `ChannelsUp`, `Ended`, `LinkLost` | libdatachannel, as the code uses it |
| `LoseMessage` | the broker: publishing has quality of service 0 |

Abstractions:

- The candidates of a connection are one message, posted right after its
  description. One candidate that arrives, on either side, is enough to connect.
- A connection awaits an answer or does not (signaling states have-local-offer and
  stable). `setRemoteDescription` with an answer throws when it does not.
- The two channels of a connection open together, in either order of their
  callbacks; the lambdas they post are separate steps.
- Disconnected or Failed, and then Closed, are announced one after the other. The
  intermediate states change a text only.
- `closeConnection` announces the end of a connection the client no longer holds, so
  line 99 ignores it. That event is kept, since ignoring it is what could go wrong.
- The box "Peer disconnected!" is not modelled: while it is open the user cannot click,
  which is a user who waits.
- A broker that is lost and reached again is a client whose messages are lost; the
  id shown before the broker is reached (`mainwindow.cpp:27`) can be called in vain.

`Spec` lets users click, close and cut at any time, and the broker lose messages.
`OrderlySpec` keeps the behaviours in which nobody does so amid a set-up (`Quiet`: no
message, lambda or callback pending) and nothing is lost; what peers do to each other
when one is called while it talks to another is all still there.

### AppConfig and Window

State:

- `configFile`: `config.json`, a document of three sections or `Absent` or `Garbled`;
  `written`, `saved`, `damaged` are history: what a user wrote into it, the folder a
  start should find, whether a save was cut short or could not read the file.
- `running`, `config`: the process, and `m_appConfig`; its field `opened` is history:
  whether `load` could open the file.
- `window`: `m_connected`, `m_transferActive`, and the widgets a decision or a user
  depends on: file name, *Cancel*, *Select folder*, the folder shown.
- `boxes`: the stack of modal boxes and dialogs, each a handler that waits in the middle
  while the event loop of its box runs other slots.
- `dragged`: a file over the window, and whether its last move was accepted.
- `worker`: which transfer the `FileTransferManager` is in, with which file, its folder.
- `toWorker`, `toWindow`: the calls `invokeMethod` posted and the signals queued.
- `overtaken`: history: the last `transferStarted` was handled while a success box was
  open, whose dismissal will clear what it showed.

| Action | Code |
|---|---|
| `Start`, `Stop` | the constructor and destructor of `MainWindow`, or a kill |
| `SendClicked`, `FileChosen` | `on_sendFileButton_clicked` before and after its dialog |
| `FolderClicked`, `FolderChosen` | `on_selectDownloadPathButton_clicked` before and after its dialog, with `save` or a crash in it |
| `CancelClicked`, `CallWithoutTarget` | the other clicks that change something here |
| `DragEnters`, `DragMoves`, `DragLeaves`, `Drop` | the four drag events |
| `ConnectionEstablished`, `ConnectionClosed`, `TransferStarted`, `TransferFinished`, `TransferCanceled` | the slots of `wireSignals` |
| `BoxClosed` | a box dismissed, with what the slot does after it |
| `SendFile`, `EndCall`, `SetDownloadPath` | the calls as the worker runs them |
| `PeerSends`, `PeerCancels`, `EndTransfer` | the transfers of the peer, the end of one's own |
| `Edit` | `config.json` changed by hand while the program runs |

Abstractions:

- Clicks and drops reach the window only while nothing is modal; slots always run, in
  the innermost loop. A box is dismissed from the top of the stack.
- A file of `Unopenable` opens on neither machine; such a `sendFile` or metadata
  leaves the worker Idle and signals nothing.
- A transfer that is received always ends canceled, as it does in
  `FileTransfer!CheckCompletion` (the run `whole_file`).
- An open of `config.json` may fail in `load` and in `save`, whether or not the file
  exists; `load` then returns the default folder, no servers and a port that nothing
  assigned (`appconfig.cpp:14-17`).
- A port that nothing assigned reads as any member of `Garbage`.
- The send and call buttons follow `connected` and have no field. Status texts, progress
  bar, speed and the drop overlay are left out.
- A stopped program has empty queues and the widgets of a fresh one, however it came to
  stop.

### XXH3Stream and XXH3Memory

`XXH3Stream` has the state `XXH3_state_t` with its fields (`bufferedSize`,
`nbStripesSoFar`, `totalLen`, `buffer`), one action per call: `CreateState` (memory from
`malloc`), `Reset` (which leaves the buffer), `Update`, `Digest` (on a copy),
`FreeState`. One thread owns a state, so a call is one step; what is hard is in
`Updated` and `DigestLong`: filling the buffer, consuming straight from the input,
keeping the last stripe, catching up.

A byte is its position in the input, or `Stale`. Accumulators are the sequence of
stripes they were fed, each with its place in the secret and the number of scramblings
before it; `absorbed` and `answer` are history: the bytes given since the reset, and the
last digest. Equal sequences give equal lanes whatever the arithmetic, so the
digest of the stream is the one-shot hash when the sequences are the same. `OneShot`
is that hash, from `XXH3_hashLong_internal_loop`.

`XXH3Memory` adds what `XXH_alignedMalloc` and `XXH_alignedFree` do: `Create` takes a block
from `malloc` at any address of `Bases`, moves up to an aligned one and stores the distance
in the byte before it (an `xxh_u8`, so modulo 256); `Free` reads it back; `Use`
is every other call. An allocation that fails leaves the state `None`, as no call does.

### XXH3Words, XXH3Vectors, XXH3Builds, XXH3Short

Sender and receiver compare hashes made by two builds. `XXH3Vectors` has the
accumulate and scramble loops of the scalar code and of SSE2, AVX2, AVX512, NEON (with
2, 4, 6 or 8 lanes in vectors, and WebAssembly), VSX, SVE, LSX, LASX and RVV,
intrinsic by intrinsic on vectors of words. `XXH3Builds` feeds the same stripes to all
builds (`Consume`, the block scrambled when full) and finalizes (`Digest`). The width is
a parameter: a word has `WordBytes` bytes of `ByteBits` bits, and a shift by n bits in the
code is `Bits(n)` of them. Shuffles, halves, carries and byte swaps are those
of the code; constants are cut to the width and kept odd.

`XXH3Short` has the three classes of short inputs with the real sizes and offsets. Bytes
are names, a word is a sequence of sets of names xored, a sum is a bag of products; the
final mixings (`XXH64_avalanche`, `XXH3_rrmxmx`, `XXH3_avalanche`) are not interpreted.
So `EveryByteIsRead` says that each byte enters a product, not that each byte changes the hash:
from 17 bytes on, eight bytes equal to their part of the secret make a product zero and
hide the other eight, as the code's own disclaimer says (`xxhash.h:4739-4756`).
The input grows a byte at a time from 0 to 240. `XXH3Hash` joins the two as
`XXH3_64bits_internal` does: short up to 240 bytes, by stripes from there on.

## 3. What TLC checks

Runs that pass:

| Run | Users | Instance | Shows |
|---|---|---|---|
| `eager` | any | one send each, `a` cancels once, one loss; files of 1 and 3 blocks with one name, leftovers shorter and longer than the file announced; opens and writes fail | `TypeOK`, `WorkerOwnsResources`, `SendBufferBounded` |
| `patient` | patient, fair | files of 1 and 4 blocks against a buffer of two, two sends each, one cancel each, one loss | `ReceivedIsOnDisk`, `SignalMatchesState`, `JudgedFileIsExact`, `SourcesIntact`, `NobodyLeftWaiting`, `HandsOver`, `TransferEnds`, `SentIsJudged` |
| `calls` | any | three clients; two calls, quits, lost messages or broken links in all | `TypeOK`, `OneConnection`, `PeerIsTarget` of `Signaling` |
| `orderly` | orderly, fair | three clients; four calls, quits or broken links in all | `ConnectedIsLive`, `CallConnects` |
| `window` | any, fair | a file that opens and one that does not, two folders, a port too wide for 16 bits; any `config.json` to begin with; four clicks, drags, stops, edits or events of the peer | `TypeOK`, `SectionsSurvive`, `RunningIsShown`, `NoGhostTransfer`, `FolderAgrees`, `StartFindsSaved`, `CancelClears` of `Window` |
| `stream` | one thread | stripes of 4 bytes, 3 in the buffer, 4 in a block; updates of any length, up to 70 bytes in all; addresses aligned to 8, 16 and 64 | `TypeOK`, `DigestIsOneShot`, `StateFits`, `FreesWhatItGot` |
| `builds` | - | nineteen builds and stripes with carries on up to four stripes, blocks of three; eight builds on every length from 0 to 240 | `TypeOK`, `BuildsAgree`, `InputIsKept`, `OrderCounts`, `ShortBuildsAgree`, `EveryByteIsRead`, `ChunksDoNotCommute` |

Runs that fail, each a disagreement between the code and what it says of itself:

| Run | Property | What happens |
|---|---|---|
| `whole_file` | `CompleteFileIsKept` | `checkCompletion` calls `cleanup()`, which clears `m_expectedHash`, before it compares with it (`filetransfermanager.cpp:227`, `:229`): every file received whole is removed and reported canceled, while the sender reports success. |
| `resume` | `HashCoversFile` | The resumed part of a download is in no hash, on either side (`:115`, `:123`). |
| `late_hash` | `SourcesIntact` | A peer that has left its download to send gets the late hash, judges the file it is sending with the counts of the download, and removes it (`:234`). |
| `null_digest` | `DigestHasState` | A receiver cancels between the last chunk and the hash: the hash finds no hash state (`cleanup()` has freed it) but the counts of the transfer, and asks for the digest of a null pointer (`:222`), against `xxhash.h:1348`. Users who wait are enough. |
| `double_click` | `NobodyCrashes` | Connect on both sides, or twice on one: the second offer replaces a connection whose answer is on its way; the answer meets one that awaits none, `setRemoteDescription` throws (`p2pclient.cpp:155`) and nothing catches, unlike for candidates (`:163`). |

Two more behaviours of `Spec` are worth knowing, though no line of the code says
otherwise in so many words. A second send's metadata overtakes the first file's chunks,
and the first file's hash is dropped unjudged. When both users send, each metadata ends the other's
sending, and both peers wait as receivers, until somebody cancels.

The window does forget a running transfer when a success box is dismissed after it began
(`mainwindow.cpp:103`), does start one after the connection went while the file dialog
was open (`:126`), and a save that is cut short does lose the broker and the servers
(`appconfig.cpp:65`); a start that cannot open `config.json` does run with the defaults
(`:14`), and `StartFindsSaved` says that this costs the next start nothing. `RunningIsShown`, `CancelClears` and `SectionsSurvive` say that
nothing else does such harm, and that *Cancel* mends what the window shows.

The first run in this table decides how the other properties of `FileTransfer` are stated. As long as no file is kept, "a
file that is kept is the right one" is true of nothing. `JudgedFileIsExact` therefore
looks at the moment of the verdict: the file on the disk is the announced one, and
both sides hashed the same blocks. `HashCoversFile` also fails when a write fails,
since `m_file.write`'s result is ignored (`:178`) and the chunk is hashed anyway
(set `DiskFails = TRUE`, `Leftovers = FALSE` in `Resume.cfg`).
An empty file never meets `m_expectedFileSize > 0` (`:221`), so its hash is never
checked and its receiver waits for ever: with `Size <- EmptyAndOneBlock` in `Patient.cfg`
`TransferEnds` and `SentIsJudged` are violated.
`JudgedFileIsExact` fails for eager users: a low-water event of a cancelled
transfer starts the loop of the next before `accept_transfer` gave the offset.
`ConnectedIsLive` fails for users who are not orderly: when the other end closes just
as the channels open, the `open` lambda of the second channel runs after `Disconnected`
was handled, and the window says Connected with no target and no peer.

Bounds. Two peers are all there are in a connection. Two files, one per peer, so a stray block can be told from the right one. One
block and two blocks are the lengths at which "the last chunk" and "a chunk
before the last" differ; partial files then have every possible length.
`patient` begins with none, since the transfers it cancels and loses leave some, and
offers each file twice, so that the second transfer goes on from what the first one
left; `eager` begins with every leftover there can be. With a
high-water mark of 1 and a low-water mark of 0 the loop pauses from three blocks on,
with four blocks more than once; `eager` uses three, `patient` four.
One send each is enough for crossing transfers, a second for a transfer that meets
the remains of the first. One cancel and one loss meet every other step once. For
`Signaling`, the third client is the one that calls somebody who is talking or being
called. `MaxEvents` bounds calls, quits, losses and broken links together: two
at any moment make every crossing of a call with another event, four one after the
other let a connection be made, replaced, ended and made again. `calls` uses the
symmetry of the clients; `orderly`, with a liveness property, does not.

In `window`, `MaxEvents` bounds what users and peers begin; handlers, boxes
and dialogs go on without limit. Four are enough for a transfer that ends (its start
counted), a second that starts amid its success box, and a click or drop in
between; the same run holds with five.
In `stream`, 70 bytes are more than one block and two full buffers
after it, so every case of `Updated` (buffer begun, filled, emptied, passed by) meets every
remainder of a stripe, and a digest in mid-stream is followed by more. In `builds`,
blocks of three and four stripes meet the scrambling between stripes, at the end
of a call and before the last stripe. No length of a short input is left out. Words
of 4 bytes of 3 bits keep byte order, halves and carries apart while a product fits
TLC's integers; `MCSecret`, `MCInitAcc` and `MCStripes` are arbitrary but for all-zero and
all-one stripes, so agreement of the builds is checked on them and not for all values.
The theorems of section 4 have none of these bounds. The counters `sends`, `cancels`
and `losses` exist for the bounds only (a crashed peer may lose the link
beyond `MaxLosses`). `CHECK_DEADLOCK` is off: users may stop clicking.

Fairness. Weak fairness of each worker's handlers and of the draining
buffer: threads are scheduled and an open channel delivers. None for users, and none
for a loss or a return of the connection, except that a dead peer's connection is
noticed in the end. In `Signaling`, weak fairness of each client's handlers (an event
loop that runs, a broker that delivers) and of the library's callbacks; none for users,
losses and broken links. In `Window`, weak fairness of the two event loops, of the window and of
the worker; none for users (a box may stay open for ever) and peers. `CancelClears`
needs no more, since slots run while a box is open. The liveness properties of `FileTransfer` hold for `PatientSpec` only; with both
users sending at once, `TransferEnds` is false.

Slips the properties catch:

| Property | Slip |
|---|---|
| `TypeOK` | `ResumeOffset_Overlap`: the resume offset one block early, at an empty file too |
| `WorkerOwnsResources` | `Cleanup_KeepsHash`: `cleanup()` leaves the hash state |
| `SendBufferBounded` | `Full_OneMore`: the high-water test off by one |
| `ReceivedIsOnDisk` | `ResumeOffset_Restart`: counting from 0 into a kept file |
| `SignalMatchesState` | `Cleanup_KeepsState`: `cleanup()` does not go back to Idle |
| `JudgedFileIsExact` | `SeekTo_Ignored`: the sender does not seek to the offset |
| `SourcesIntact` | `ReceiveCancel_RemovesFile`: a cancel removes the partial file, whoever holds it |
| `NobodyLeftWaiting` | `OnPeerDisconnected_SignalsOnly`: no `cleanup()` at a loss |
| `HandsOver` | `OnPeerDisconnected_RemovesPart`: what has arrived is thrown away when the peer goes |
| `TransferEnds` | `ReceiveComplete_StoresOnly`: no `checkCompletion()` when the hash comes last |
| `SentIsJudged` | `SetBackpressure_Inverted`: the low-water event does not restart the loop |
| `TypeOK` (`Signaling`) | `ReceiveOffer_NoSetup`: an offer is handled without `setupWebRTC` |
| `OneConnection` | `CloseConnection_KeepsPeer`: `closeConnection` does not close the `PeerConnection` |
| `PeerIsTarget` | `ReceiveOffer_KeepsConnection`: an offer is applied to the connection there is |
| `ConnectedIsLive` | `Assigned_IgnoresLabel`: both channels end up in `m_controlChannel` |
| `CallConnects` | `OnStateChange_AnyConnection`: no test of the connection the lambda is about (line 99) |
| `TypeOK` (`Window`) | `PortsRead_Wide`: the port is not narrowed |
| `SectionsSurvive` | `WithFolder_Alone`: `save` writes its own section only |
| `RunningIsShown` | `TransferStarted_FolderStays`: the folder button stays enabled |
| `NoGhostTransfer` | `ClearFileInfo_ButtonsOnly`: `clearFileInfo` leaves `m_transferActive` |
| `FolderAgrees` | `SetDownloadPath_WhenIdle`: the worker takes a folder only when idle |
| `StartFindsSaved` | `FolderOf_Default`: `load` ignores the folder saved |
| `CancelClears` | `EndCall_IfRunning`: an idle worker does not answer a cancel |
| `TypeOK` (`XXH3Stream`) | `ConsumeStripes_NoWrap`: a block that is full is not closed |
| `DigestIsOneShot` | `ConsumeInput_NoLastStripe`: the last stripe consumed is not kept |
| `StateFits` | `Offset_None`: an address that is aligned is not moved up |
| `FreesWhatItGot` | `alignedFree_Plain`: the address of the state is freed |
| `TypeOK` (`XXH3Builds`) | `StripesSoFar_NoReset`: the count of a full block goes on |
| `BuildsAgree` | `accumulate_512_neon_FoursOnly`: the lanes left over by vectors of four are skipped |
| `InputIsKept` | `scalarRound_ProductOnly`: the input is not added to the neighbour lane |
| `OrderCounts` | `EachStripe_SameSecret`: the secret does not advance |
| `ShortBuildsAgree` | `Chunks17to128_Boundary`: `>=` for `>` at 96 bytes in the unrolled code |
| `EveryByteIsRead` | `LaterChunks_OneLess`: one round too few beyond 128 bytes |
| `ChunksDoNotCommute` | `LaterChunks_NoAdvance`: the secret does not advance beyond 128 bytes |

## 4. What is proved

`FileTransferProofs`, for all files, names, water marks, bounds and initial
downloads, under the four assumptions `FileTransfer` names (two distinct peers;
sizes are natural numbers and `None` is neither a path nor a content; the low mark is
below the high one; bounds are natural numbers):

| Theorem | States |
|---|---|
| `TypeCorrect` | `Spec => []TypeOK` |
| `ResourcesOwned` | `Spec => []WorkerOwnsResources` |
| `BufferBounded` | `Spec => []SendBufferBounded` |
| `SignalsTellState` | `Spec => []SignalMatchesState`, if opens and writes do not fail |
| `CountIsOnDisk` | `Spec => []ReceivedIsOnDisk`, if opens and writes do not fail |

The argument. Typing alone is not inductive: appending a chunk to the hash is
well typed only because a receiving worker has a hash, and reading the next
block only because a sending one has a file. So `IInv` is `TypeOK` with
`WorkerOwnsResources`, one lemma per action. `HandlerOfOnePeer` says once that a handler
changes its own peer's manager and files only, so that each action has to show only
`Owns` of the new manager. `CheckCompletionIInv` serves the two handlers that call
`checkCompletion`. `SendBufferBounded` is inductive over the typing.
`HonestInv` adds the last two properties to `IInv`; its core is `EndsWithAppend`:
a chunk appended to both file and hash leaves the hash that of the file's end.
`DiskFails = FALSE` is needed: with a failed write the count and the file part,
with a failed open `handleJsonCommand` goes Idle and signals nothing
(`filetransfermanager.cpp:143`).

`patient` checks the last two for patient users only, since its other properties need
them; the theorems have every user.

`PatientProofs`, `SessionProofs` and `ProgressProofs` prove what needs users who wait
(`PatientSpec`), on the assumptions above and those in the last column:

| Module | Theorem | States | If |
|---|---|---|---|
| `PatientProofs` | `SourcesStayIntact` | `PatientSpec => []SourcesIntact` | - |
| `SessionProofs` | `NobodyWaitsForever` | `PatientSpec => []NobodyLeftWaiting` | opens and writes do not fail; no source is empty |
| `ProgressProofs` | `JudgedFilesAreExact` | `PatientSpec => []JudgedFileIsExact` | opens and writes do not fail; no two sources have one name |
| `ProgressProofs` | `FilesAreHandedOver` | `PatientSpec => HandsOver`, that is `HandOver!Spec` | opens and writes do not fail; no two sources have one name |

Each assumption stands for something the code does. With a failed open the receiver says
nothing to a sender that waits for it (`filetransfermanager.cpp:143`). A sender of an empty
file finishes and its receiver never does, since `checkCompletion` asks for a size above
zero (`:221`). A download of the announced name is resumed whatever it holds (`:110`),
so that one of another file would be taken for a part of this one.

The argument has four layers, each an invariant inductive under patient users on top of
the one before.

1. `RolesInv`: one peer sends and the other receives, and each queue has only the
   commands of that role; so what a handler removes or writes is a download, and the
   sources are as they were. Roles change only when nothing is in flight. This is
   enough for `SourcesIntact`, also when the disk fails.
2. `LinkInv`: what is buffered is still under way, and a peer whose connection closed and
   that has handled it is idle.
3. `SessionInv`: either all is calm, or everything in both managers and all queues belongs
   to one transfer of one file. `Session(a, s)` says which messages may wait for which
   side in which order (`Queues`), how far the two managers are (`Sides`), what an
   announcement or acceptance under way means (`Opening`), what a cancel or a hash under
   way means (`Leaving`), and that a receiver without a sender has a message coming
   that ends it (`Served`). With the queues empty, `Served` leaves only idle workers.
4. `ProgressInv`: in a session the file on the receiver's disk, the chunks under way and what
   the sender has still to read are consecutive parts of the one source (`PartOf`), and the
   two hashes begin at the same block (`Skipped`). At the verdict nothing is under way,
   so the parts make up the source.

Layer 3 has a lemma for each kind of step, in a session and in the calm; `QuietIsIdle`
concludes. Layer 4 needs `Downloads` besides: a partial file left on a disk
is a beginning of the source of its name, which is what a later resume goes on from. TLC has checked
the four invariants on an instance with patient users, one file of three blocks sent
twice and partial downloads to begin with (3.5 million states).

The refinement rests on layer 4. `DealIsOfSession`: within a session the offer that
stands is that of the session for as long as one side is in it or its metadata under way
(`Live`), and there is no other; in the calm there is none (`DealsInCalm`). `DealsAfter` carries this
over a step, so that each handler has to show only whether `Live` survives it. What a step does to
the folders follows from `PartOf`: the blocks on the receiver's disk are a beginning of the
source, so a chunk appended is the block that comes next, a resumed file is left as it is,
and one judged is whole. Most steps touch no file (`FilesUntouched`) and give the offer
up or leave it (`HandOverWithoutFiles`); `HandOverReceiveMetadata`,
`HandOverHandleBinaryChunk` and `HandOverReceiveComplete` are the three that write or remove. With two
sources of one name the theorem is false, as a download of the one is resumed for the
other (`:110`).

`SignalingProofs`, for any set of clients and any number of events, under the two
assumptions `Signaling` names (`None` is no client; the bound is a natural number):

| Theorem | States |
|---|---|
| `SpecTypeOK` | `Spec => []TypeOK` |
| `SpecOneConnection` | `Spec => []OneConnection` |
| `SpecPeerIsTarget` | `Spec => []PeerIsTarget` |

The argument. `PeerIsTarget` speaks of two connections that were given each other's
descriptions, and is not inductive: the answer may be under way. What holds from the
moment an offer is taken is `TargetsMatch`: a callee's target is the owner of the caller
its offer came from, and the other way round, for as long as the two connections are
`Current` (held by a client that still has a target). It rests on what waits in the
queues: `GoodMessages[q]` has the messages that may wait for `q`, and an offer of a
connection that is still current has come to the target of its maker, although the
target was read when it was published. That is so because a target changes only when the
connection is replaced or given up; `Settles` states it, and `QueuesKeep` concludes
once for all actions that what was good in a queue stays good. `RolesMatch` makes sure
an answer never reaches a callee that takes it. Most actions only let connections end
and targets be cleared: `Wanes`, with `WanesShape` and `WanesQueues`, does the work for
them, `AppendsOne` and `Replaces` for the two that make a connection. TLC has checked
`IInv` itself on the instance of `calls`.

`OrderlyProofs`, under the same two assumptions, for users who start, close or cut nothing
amid a set-up and a broker that loses nothing:

| Theorem | States |
|---|---|
| `SpecConnectedIsLive` | `OrderlySpec => []ConnectedIsLive` |

The argument. `OInv` adds to `IInv` an account of everything that can be under way. A set-up
has one *token*: the description that is still to be made, is about to be published,
or waits at the broker (`OneToken`). While there is one, no connection is about to open and no
lambda of a channel waits (`TokenHush`, `Hush`): a channel is assigned to whatever client it
finds (`p2pclient.cpp:128`), so this is what keeps an old one from being taken for one of a
connection that replaced it. Where the two ends of a connection stand follows from
`Paired`, `Fresh` (until both channels are open, both ends are still up) and
`Answering` (an answer and the candidate behind it will reach the caller in this order, so
that a callee which is new when nothing is in flight cannot be). `Wired` says of the client
that holds the connection that each channel is open or has the lambda waiting that opens it,
and `Shown` of its window that a *Connected* it shows is true, or the lambda that takes
it back waits, which `Lives` and `EndedAreOver` say will not be ignored. With all queues
empty, what is left of `Shown`, `Wired` and `Paired` is the property, at both ends
(`QuietHush`). `Fades` does for `OInv` what `Wanes` does for `IInv`: the steps that make and
link nothing share one set of lemmas, `FadesPaired` to `FadesEnded`; `OrderlyReplaces` serves
the two that make a connection. TLC has checked the added conjuncts on the
instance of `orderly` with symmetry.

`WindowProofs`, for all files, folders, ports and bounds, under the three assumptions
`AppConfig` and `Window` name (the default is a folder, ports are natural numbers,
`None`, `Absent`, `Garbled` and `NoFile` are none of the values they stand beside):

| Theorem | States |
|---|---|
| `WindowTypeOK` | `Spec => []TypeOK` |
| `WindowSectionsSurvive` | `Spec => []SectionsSurvive` |
| `WindowStartFindsSaved` | `Spec => StartFindsSaved` |
| `WindowFolderAgrees` | `Spec => []FolderAgrees` |
| `WindowRunningIsShown` | `Spec => []RunningIsShown` |
| `WindowNoGhostTransfer` | `Spec => []NoGhostTransfer` |

The argument. Typing is inductive with one more fact: a drag that is accepted has a file
(`DragInv`), or a drop would post a file that is none. `StoppedInv` says that a stopped
program has nothing queued or open and an idle worker. The last two theorems speak of the
moment the queue to the window is empty, and what makes them true is what the queue
says while it is not: `QueueTells` describes its last signal (after a
`transferStarted` the worker is in that transfer, after any other it is idle, unless a
file could not be opened), and `BoxTells` that a success box open amid a
transfer is one the transfer began under. `ShowInv` joins them with the two properties. `FolderInv` does the same for
folders: the last `setDownloadPath` posted carries the folder on display.

`XXH3StreamProofs`, for every stripe, buffer and block size and every bound, under
`SizesAssumption` (positive sizes; a short input fits the buffer and is at least
a stripe) and `NoneAssumption`:

| Theorem | States |
|---|---|
| `StreamTypeOK` | `Spec => []TypeOK` |
| `DigestCorrect` | `Spec => []DigestIsOneShot` |

The argument. `IInv` says where each byte absorbed is: the stripes consumed are the
first ones of the input, each fed as the one-shot loop would feed it (`AccIsOf`); the bytes
after them are at the front of the buffer (`Buffered`); and when a stripe was consumed
and less than one is buffered, the one before it is still at the end of the buffer
(`EndKept`), which `CatchUp` reads. `ConsumeStripes` appends to the first part whatever
cut it is called with, because division and remainder by the block size count the same
blocks from the middle of one as from its start. Then the digest of the state consumes
exactly the stripes the one-shot loop consumes.

The same module, for all addresses and every alignment from 8 to 128
(`AlignAssumption`, the range the code asserts), about `XXH3Memory`:

| Theorem | States |
|---|---|
| `MemoryStateFits` | `MemorySpec => []StateFits` |
| `MemoryFrees` | `MemorySpec => FreesWhatItGot` |
| `MemoryImplementsStream` | `MemorySpec => Spec`, the specification of `XXH3Stream` |
| `MemoryDigestCorrect` | `MemorySpec => []DigestIsOneShot` |

The argument. The distance moved is at least 1 and at most the alignment (`OffsetRange`), so
there is a byte before the state and the distance fits it; `Placed` says that it is still
there when the state is freed. The last theorem follows from the refinement and `DigestCorrect`.

Model-checked only, and why:

- the properties of the run `builds`: powers and bitwise operators are beyond the provers. For
  inputs of up to 240 bytes nothing is lost, since the run has every length and every
  member of `Build`; for longer ones it has the stripes and the secret of `MCXXH3Hash` only;
- `CancelClears`, `CallConnects`, `TransferEnds` and `SentIsJudged`: liveness under fairness, out of
  the prover's reach.

## 5. Not modelled

- The log handler, the drop overlay and the layout: no state another part reads. (The text
  of the overlay is that of the moment a drag enters, `mainwindow.cpp:294`; moves refresh
  only whether a drop is taken.)
- Progress, speed and ETA arithmetic, and the texts of the status bar.
- The pointers to the channels, which the UI thread resets while the worker tests and uses
  them (`p2pclient.cpp:265`): a data race, so that every outcome is possible and any
  property of a model of it would be false.
- Of `xxhash.h`, what the program never calls: seeds, custom secrets and
  `XXH3_initCustomSecret`, the 128-bit hash, XXH32 and XXH64.
- SVE on a big-endian AArch64: the selection at `xxhash.h:4002` does not test the byte order
  as the one for NEON does (`:3998`), the loads are in machine order, and such a build
  would not agree with the others (`:1093`). `MCBuilds` leaves it out, so that the others can be
  compared; with `BigEndian(Plain("sve", 2, TRUE))` added, `BuildsAgree` fails.
- MQTT, libdatachannel and Qt: only as this code uses them.

## 6. Plan

Done: `FileTransfer` with `HandOver`, `Signaling`, `AppConfig`, `Window` and the hash, with their runs and
theorems. What would come next, in order of what matters to the system:

1. `Session`: `Signaling` composed with an abstract transfer, for the worker that is
   never told of a replaced connection.
2. Proofs: for `Session` what `SessionProofs` and `ProgressProofs` show for a connection whose
   ends are always told, the refinement of `HandOver` among it.

The number of runs is kept small: one passing run for each distinct question, and
a failing one for each disagreement worth a reader's time.
