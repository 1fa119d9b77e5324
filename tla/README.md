# Khorjin: TLA+ models, model checks and proofs

Khorjin is a C library that receives IEEE C37.118 synchrophasor data: it
connects to a PMU or a PDC, asks for its configuration (CFG-2 frame), starts the
data stream, decodes data frames and hands the values to the application. This
directory holds the formal models of that library. Everything is translated from
the C source; where a comment or a document says something else, that is a
finding (below), not a correction of the model.

The central file is `src/src/ieeeC37_118/ieeeC37_118.c` (1535 lines), called *the client*
here. It sits on a small platform layer, `src/src/pal`, with an implementation for
Linux and one for Windows.

## 1. Inventory

| Component | State it keeps | Operations | Interacts with |
|---|---|---|---|
| **Client session** (`ieeeC37_118.c`) | `running`, `configuration` (array of PMUs), two time stamps with a `parsedTime` on the heap, the receive buffer | `startTransmission`, `stopTransmission`, `getConfiguration`, `getDataStream`, `print...`/`output...`/`getConf_...`, `destroy` | server, through the TCP stream; application, by calls |
| **Frame decoding** (same file) | a cursor `bufPos`, the arrays of channels it allocates and fills | `parseConfigurationFrame`, `prepareConfiguration`, `preparePhsor/Analog/Digital`, `parseDataFrame` | called by the session on each read |
| **Status, digital inputs, time quality** (same file) | members of `struct sConfiguration` and of the time stamp that survive from frame to frame | `parseSTATWord`, last loop of `parseDataFrame`, first part of `parseTimeStamp` | written by data frames, zeroed by a new configuration |
| **Connecting** (`c37_118client_connect`, `Socket_connect`) | descriptor, connect timeout, number of attempts | connect, retry with back-off | operating system |
| **Receiver loop** (`c37_118ReceiverLoop`) | `running`, shared between threads | start, loop, stop | client session, thread |
| **Threads and semaphores** (`pal/thread`) | thread structure, semaphore | create, start, destroy, wait, post | applications |
| **TCP client socket** (`pal/socket`) | descriptor | connect, read, write, destroy | client session |
| **Server sockets, handle sets** (`socket_linux.c`) | `sServerSocket`, `sSocket`, `sHandleSet`: descriptors and `maxHandle` | create, listen, accept, destroy; new, add, wait | applications, from several threads |
| **Printing** (`print...`, `output...`, `getConf_...`) | none of its own | read what the session holds | client session |
| **Time, memory wrappers, byte order, build files** | none of their own | | |

What makes each one correct, and what makes it hard:

* **Client session.** The client takes only whole frames from the server it asked
  for; its values, their time stamp and the configuration belong together; it
  frees what it allocated once; `running` says what the server does. Hard because
  TCP has no frame boundaries and one `recv` is taken for one frame; because an
  answer is never matched with its request; because the server goes on sending,
  changes its configuration and closes while calls are half done; because
  results of writes, and some of reads, are not looked at.
* **Frame decoding.** Every field is read from where the encoder put it, and every
  value stored in memory allocated for it. Hard because no block in the frame
  says where it begins, because two cursors must agree with the encoder for any
  counts and formats, and because the code passes the *first* PMU's counts where
  the current one's are meant.
* **Status.** The flags shown say something of the last frame. Hard because flags
  are set and never cleared, masks are hexadecimal where binary was meant, and
  half of the time codes leave the previous verdict.
* **Connecting.** It succeeds only on a connection, waits a bounded time between
  attempts, keeps one descriptor. Hard because of overflow in the back-off and
  failures between the steps of an attempt.
* **Receiver loop.** A stop stops the loop and the stream; a command is sent as it
  was asked for; what is printed is what was read; nothing is used after it is
  freed. Hard because two threads share the flag, both buffers, the
  configuration and the client itself, and nothing protects them.
* **Threads and semaphores.** A structure is freed once and not before its
  function has returned; a destroy that waits returns; no post is lost. Hard
  because a thread may free its own structure while `Thread_start` still writes to
  it, and because the two platforms differ.
* **Server sockets and handle sets.** A descriptor has one owner and is closed once;
  a wait tells what is pending. Hard because one thread destroys what another
  is about to use, and because the kernel gives a closed number away again.

`PROJECT.json` lists each component with its status and each hazard with its
line and the properties that cover it.

## 2. The modules

| Module | What it is |
|---|---|
| `LossyFeed` | abstract specification: what a synchrophasor client promises, whatever the transport |
| `C37Client` | the client session, composed with the TCP stream and the server |
| `C37ClientProofs`, `C37ClientStateProofs` | its theorems |
| `FrameDecoding` | the two decoding loops over a frame of any PMUs |
| `FrameContents` | abstract specification: what a decoder promises of a frame, however it goes through it |
| `FrameDecodingProofs` | the theorems of `FrameDecoding` |
| `Connect` | `c37_118client_connect` and `Socket_connect`, with the network |
| `ConnectProofs` | its theorems |
| `StatusWord` | the state that survives from data frame to data frame |
| `StatusWordProofs` | its theorems |
| `ReceiverLoop` | the receiver loop beside an application, on one client |
| `ReceiverLoopProofs` | its theorems |
| `Threads` | threads and a semaphore, on both platforms |
| `ThreadsProofs` | their theorems |
| `Sockets` | server sockets, accepted connections and a handle set, with the kernel's descriptors |
| `SocketsProofs` | their theorems |
| `MCC37Client`, `MCFrameDecoding`, `MCConnect`, `MCStatusWord`, `MCReceiverLoop`, `MCThreads`, `MCSockets` | small instances for TLC |

Definitions that end up unused by the specification and whose comment begins
with *Mutant of* are plausible mistakes in the definition below them. Each
property is known to be violated when one of them takes that definition's place
(`mutants` in `PROJECT.json`).

### C37Client

One action per call of the API, in two steps where the call waits for the socket.

| Variable | Code |
|---|---|
| `pc` | where the application's thread is; `"overrun"`, `"badAccess"`: the process has died of a bad access |
| `rd` | bytes taken from the stream by `Socket_read` |
| `running`, `cfg`, `dat` | `self->running`; which frame `self->configuration` and `self->dataTimeStamp` come from, 0 for `NULL` |
| `val` | which frame's values the channels hold, 0 for the zeros of `calloc` |
| `live` | heap blocks not freed, named by what they are and the frame they were allocated for |
| `ret` | what the last get call returned; the next call forgets it |
| `open`, `serverId`, `version`, `streaming`, `served`, `tx` | the server and the connection, external |
| `cmds` | the command frames the client has written |

The stream is the sequence `tx` of frames written, each with the range of bytes
it occupies. `NumPmu` is what a configuration announces as NUM_PMU, which may be 0: such a
configuration has an array without elements, which `destroy`, testing `numPmu != 0`, does not free.
`Socket_read` returns *any* number of the bytes in flight, up to
`BUFER_LENGTH`, or -1 once the peer has closed (`recv` returning 0 is turned into
-1 by the code). A result of 0 (nothing there yet) is what both get calls poll
on; it changes nothing and is a stuttering step. `Accepts` is the conjunction
of the CRC, SYNC, FRAMESIZE and IDCODE tests: CRC is abstracted to "the bytes are
exactly one frame", so the improbable fragment with a matching CRC is left out.
`getConfiguration` has no `return` statement on its failing path; the model
returns either outcome. The server handles commands in order, ignores those for
another ID code, may stream already when the connection is made, may change its
configuration and close or reset at any time; no more is assumed of it.

The functions that show what the client holds change nothing, but follow
pointers without looking: `configTimeStamp.parsedTime`
(`getConf_pdc`, `printConfiguration`), `configuration[i]` (the functions that take a
PMU's number), `dataTimeStamp.parsedTime` (`printDataStream`, `outputDataStream`). Each is
an action that ends in `"badAccess"` if that pointer is still `NULL`, and may end there if the array has
no element; `getConf_pmu`, which only loops over `numPmu` PMUs, cannot.

### FrameDecoding

A frame is the sequence `sent` of the PMUs in it and the offsets (`start`, `dstart`)
at which their blocks lie in a CFG-2 and in a data frame, computed from the
standard's layout. What the client keeps of a field is the *offset it read it
from*, so reading a wrong place is visible. `prepareConfiguration` and
`decodeData` are one iteration of the two loops each. The three `prepare...`
helpers are called with `configurationPtr`, the first PMU, and `PreparedWith` says
so: counts for the allocation and the offsets are the first PMU's, loops and the
rest of the cursor the current one's. Where the cursor is inside a block, the
header it finds is any of `Pmus`. More values than were allocated lead to
`"corrupt"`. Under `held <- conf` (once the first loop is through), `shown <- values`
(once the second is) and `broken <- pc = "corrupt"` the decoder implements
`FrameContents` with the promise made for frames whose PMUs have equal
counts: a description is taken whole and kept, values are shown whole, and both
are the frame's. Floating-point arithmetic is left out, but not the two places where
the code stores a value in the wrong variable (integer ROCOF, polar integers).

### StatusWord

One PMU's status over a sequence of data frames and configurations. Words are
sets of bit numbers; the shifts and the hexadecimal masks 0x1111, 0x11, 0x111 are
applied literally. `last`, `seen`, `inputs`, `codes` are history variables that
the properties compare the code's state with.

### Connect

The loop of `c37_118client_connect` over one system call of `Socket_connect` at a
time: resolve the address, `socket`, `connect`, `select`; `pc` names the next one. `fd`, `timeout`
and `count` are `self->fd`, `self->connectTimeout` and the loop's `count`; `opened` and
`handshake` are the kernel's view of the descriptors. The network decides at
any time whether the address can be resolved, there is a route, the server is
silent, refuses or listens, and ends a handshake at any time, also that of an
attempt given up: the server accepts or refuses it (`Answer`), or the kernel gives it up, because
nobody has answered or the host cannot be reached (`GiveUp`). It has no clock: `Rtt` is the time within which a server that
answers does so, and the wait of `select` may end without an answer when its timeout is
shorter or the server has not been answering since `connect` (`prompt`).
`platform` chooses between the two files: on Linux any end of the handshake makes the
descriptor writable, on Windows a failed one does not. What C leaves undefined is a choice: the
conversion of `pow(2, count)` to an `int` it does not fit gives the least or the
greatest `int`, and `FD_SET` of -1 does nothing or aborts. `pow` itself is the
constant `Pow`. `Connect` ends where `C37Client` begins; a client that
`Connect` returns without a connection is one of `C37Client` whose server closes before anything is read.

### ReceiverLoop

Two threads, `"loop"` and `"app"`, with one action per access to what they share.
`c37_118ReceiverLoop` is static and its starter, `c37_118client_startReceiveDataStram`, is commented
out (`ieeeC37_118.c:1033-1049`): in this version no program runs the loop. The model
starts the thread as the text of the starter does. `destroy` may be called at any time; the code waits for no
thread, and with `autodestroy = true`, as in the starter, nobody else could.

| Variable | Code |
|---|---|
| `pc` | where each thread is |
| `snd` | `bufferSnd`: whose command is in its first 16 bytes, and which body its checksum was computed from |
| `rcv` | `bufferRcv`: the frame in it, and which thread wrote it |
| `call`, `crc`, `got`, `pmu` | the threads' local variables: the command being sent, the checksum, the result of the read, the index of the two loops over the PMUs |
| `numPmu`, `channels` | `self->numPmu`, and `self->configuration` with, for each PMU it has room for, the frame its values are of, or zeros |
| `freed`, `fault` | the client has been freed; the bad access the process has died of |
| `open`, `streaming`, `cmds`, `tx` | the server and the connection, external |
| `alone`, `together`, `restarted`, `stopped` | history: which command met another one, whether the application has called while the loop ran, whether it has started the stream itself, whether its stop came after the loop's start |

The application may call start, stop and `getConfiguration`, and destroy; a second reader of
data frames would disturb the loop as the reads of `getConfiguration` do. The
stream is coarser than in `C37Client`: a read takes a frame or a piece of
the stream that is not one frame, as there. `parseDataFrame` and `printDataStream` loop over the PMUs and
read `self->numPmu` and `self->configuration` anew in each iteration, so the test (`decode`, `print`) and
the body (`decodePmu`, `printPmu`) are steps of their own, and a new count or a new array may come between any two of
them: a print of two configurations, values that turn to zeros and an index beyond the new array are
behaviours of the model. The body of one iteration is one step; within it the code takes
`configuration[i]` some thirty times, and an array replaced in the middle of it would mix
the one frame with the same zeros.

What the loop cannot do is in the properties' comments: a stop that the server
obeys before the loop has looked at `running` leaves the loop in `getDataStream` for ever;
`getConfiguration` may take every frame of the loop, and the loop its answer;
two commands prepared at once may garble each other; a client destroyed under the loop is
used after it is freed.

### Threads

Each thread structure has a controller (the application's calls, split at every
access to what the other side may change) and a task (the thread of the operating
system). `platform` chooses between the two files: on Linux the thread exists from
`pthread_create` in `Thread_start` on, on Windows, suspended, from `Thread_create` on. `mem`, `state`,
`autodestroy` are the structure, `kernel` the `pthread_t` or `HANDLE`. What C or
POSIX leaves undefined (use of freed memory, of a `pthread_t` that was never set, of a
destroyed semaphore) ends in `"undefined"`. Creation may fail, which nobody looks at. The functions
the threads run are the application's; here each waits once for the semaphore, so that a
`Thread_destroy` depends on the posts. `lost` counts the posts that Windows drops, because
`Semaphore_create` there makes a semaphore of value 1 and maximum 1 whatever it is asked for (`initial`). One that was
asked for 0 lets the first waiter pass; one that was asked for 2 lets only one. `Enough`, the premise of the two properties on
returning, counts what was asked for, and on Windows admits no more than 1.

### Sockets

`file` is the kernel's table of descriptors: for which structure each was opened.
An owner thread creates, configures and destroys; a worker waits, accepts,
reads and writes. `sfd` is `self->fd`; `ofd` and `wfd` are the two threads'
local copies of a descriptor, between reading it and using it. `destroy` gives up the descriptor, then
closes it, then frees the structure after a sleep of 10 ms, which is modelled as no bound on what the worker
does meanwhile. `Socket_read` reads `self->fd` twice, and the structure may
be freed between the two: the model stops there (`"useAfterFree"`). A handle set is `handles` and
`maxHandle`; `Handleset_addSocket` reads `sock->fd` up to four times, each a step (the test, `fdSet`, `compare`,
`store`), and a destroy in between makes it -1: `FD_SET` of -1, undefined, sets any bit or none or aborts, and `maxHandle`
may become -1 (`raced`). `select` is one step, which leaves the ready descriptors in the set. `added`,
`used` and `raced` are history. Sockets are non-blocking, so an `accept` without a connection returns at once.

## 3. What is checked

| Run | Result | What it shows |
|---|---|---|
| `client_safety` | holds | types; only whole frames are taken (`WholeFramesOnly`); values, time stamp and configuration agree in every order of calls (`ValuesMatchTimestamp`); values were encoded under the configuration held unless the server has changed it (`DecodeConsistent`); what is followed is allocated and nothing is freed twice, and what leaks is what was replaced and the array of a configuration without PMUs (`HeapSound`); a data call that returns 0 left the frame it just read (`OkDataIsFresh`); `running` agrees with the last switch on its way, or with the server when none is (`RunningTracksServer`); the session implements `LossyFeed` (`ImplementsFeed`); while `getConfiguration` waits, a request or bytes are on their way (`NoAnswerLost`), and it ends (`ConfigurationReturns`); a last stop ends the stream (`StopTakesEffect`) |
| `client_peer_close` | violated | finding 1 |
| `decode_safety` | holds | cursors are aligned under the condition stated (`CursorAligned`); what an aligned cursor finds is the PMU's own header, and names, units and all else of its block if the counts are the first PMU's (`ChannelsExact`); values come from their fields and fit their arrays (`DataExact`: `ValuesExact`, `NoOverflow`); the decoder implements `FrameContents` (`ImplementsContents`) |
| `decode_shown` | violated | findings 2 and 3, in one frame: two PMUs of different counts that both send integers (`ShownAsLabelled`: `EveryPmuDecoded`, `FrequencyShown`) |
| `connect_safety` | holds | the timeout keeps its width (`TypeOK`); descriptors are never more than attempts (`DescriptorsAccounted`); the client gets the connection of its last attempt, on Windows an accepted one (`ConnectedIsLatest`); limits double until they overflow (`WaitDoubles`); a server that listens for good is reached if a later attempt waits long enough and neither arithmetic nor descriptors end before it (`ConnectsInTime`) |
| `connect_refused` | violated | finding 5 |
| `stat_safety` | holds | for exactly which words the numeric fields are right (`FieldsReadable`); what the lock of the clock stands for (`LockIsLastVerdict`) |
| `stat_data_error` | violated | finding 4 |
| `stat_flags` | violated | finding 6 (`FlagsDescribeFrame`) |
| `receiver_loop` | holds | which commands arrive as they were asked for (`CommandsWhole`); what is printed of each PMU, and the two ways in which the loop may leave the configuration's array (`PrintsOwnFrame`); an application that makes no call while the loop runs meets no race: its loop's commands are whole, each print is of one frame for all PMUs, nothing is accessed beyond the array or after it is freed (`UndisturbedAlone`); a stop is not undone by the loop, and the end of the loop leaves the server quiet (`StopHolds`: `StopSticks`, `QuietAtEnd`); a stop ends the loop unless it is waiting for a frame for ever (`StopEndsLoop`) |
| `threads` | holds | which races alone lead to undefined behaviour (`UndefinedOnlyByRace`); a structure is freed when its function has returned, and leaves nothing in the kernel but what Windows leaves (`FreedInTime`: `FreedAfterReturn`, `NothingLeft`); if what was asked for and posted is enough, what a joined thread waits for is there (`JoinCanReturn`), and a destroy that waits returns (`DestroyReturns`) |
| `server_sockets` | holds | who holds each open descriptor in every state, and when a call may reach a file that is not its socket's (`DescriptorsOwned`); a wait on a set built anew tells of exactly its sockets, unless one was destroyed while it was in the set or being added (`WaitTellsPending`) |

Several of the properties that hold describe a *restricted* guarantee: they say
under which condition on the frames the code is right. The unrestricted one is
what the violated runs refute; for each of the six findings a theorem states a condition under
which the claim holds after all (section 4, *Conditions*).

### Findings

1. `ieeeC37_118.c:1270` (and 765): the -1 of a failed read is passed on as the
   size of the frame, and `computeCRC` runs over 2^32 - 3 bytes. A read of one
   byte does the same. `pal_socket.h:214` documents the -1.
2. `ieeeC37_118.c:454`: all PMUs are prepared with the first one's counts.
3. `ieeeC37_118.c:1215`: an integer ROCOF is stored as the frequency.
4. `ieeeC37_118.c:1088`: of the four codes of `dataError` (`ieeeC37_118.h:17`) two are
   lost to a hexadecimal mask.
5. `socket_linux.c:319`: a handshake that was refused, given up or could not reach the host
   makes the descriptor writable, and
   `Socket_connect` returns `true` for it (`pal_socket.h:180`: "connect to a server").
   With finding 1, the first read then takes the process down.
6. `ieeeC37_118.c:1068`: the five flags of STAT are set and never cleared before the next
   configuration, so one frame marks all that follow. `ieeeC37_118.h:104-107` explains each
   by the frame it came with ("False = No Trigger", "False = Otherwise", "clear to 0 when
   change effected"), and they are printed as "Status of Data Frame" (`ieeeC37_118.c:1289`).

`pal_socket.h` says of `Handleset_waitReady` that it returns the number of sockets with data
pending; a set that is waited on twice has lost those that were not ready
the first time, which `WaitTellsPending` excludes by its condition `~used`.

### Bounds, and why they are enough

* **Client.** Three versions of the configuration: of one PMU, of two, and of none, with
  CFG-2 frames of 3, 4 and 3 units; data frames of 2, a buffer of 4: a read may hold a
  fragment, a frame, a frame and a part of the next, or two frames. `MaxData` = 3 lets the client
  miss a frame between two it takes; `MaxCommands` = 3 lets it start, configure and
  stop, or configure twice. `UINT32` = 1000 stands for 2^32: all that matters is that it is
  far larger than the buffer, which `ClientAssumption` states. The ID code 70000 is truncated to
  4464; the server has that one or another. The bounds are guards of the actions
  that make the state grow (`SendData`, `Reconfigure`, the three commands).
* **Decoding.** Frames of up to three PMUs of nine kinds: equal counts in four
  format combinations, equal sums of unequal counts, more digital words, more
  phasors, and none of anything. Three blocks are the first case in which a
  misalignment caused by one block is seen after a further one.
* **Connecting.** Integers of 5 bits instead of 32, five descriptors, six failed
  attempts, two initial timeouts: 4 doubles to 8 and 16 and then wraps to 0; 3 never
  wraps to 0 and reaches the range where the power no longer fits. `Rtt` = 10 is reached by
  the fourth wait, so that descriptors suffice from the start and not after two failures.
* **Status.** Each STAT bit is set in some word, the bits confused by a mask in
  different ones; two digital words; a time code of each of the four kinds. For `stat_flags`
  all flags or none are enough.
* **Receiver loop.** Configurations of one PMU and of two (and none before the first), so that an array can be
  outgrown, or replaced by a shorter one, in the middle of a loop over it; data frames numbered 0 and 1 so that a stale one differs from a fresh one, one frame on its way
  when the server sends the next, at most one command or frame on its way when the
  application makes a call. The two threads' commands still overlap at every place, as the loop is not bounded.
* **Threads.** Two threads, three posts: one may take the grant the other waits
  for, and a post may find the semaphore full. Initial values 0 to 2: the one that Windows gets right and the two that it gets wrong.
* **Sockets.** Two servers and a connection for three descriptors, so that each
  number is used again; a backlog of 0 or 1.

Deadlock is not checked in the client, decoding and connecting runs: a process that was
destroyed or has died stops, a client waiting for a silent server polls, and a
frame that has been written over memory ends the decoder; connecting ends when it
has succeeded, aborted or used up `MaxCount`. Neither is it in the three runs with threads: a
process that has died, or whose threads and sockets have all been used once, stops. The
status runs check it.

### Fairness

`FairSpec` assumes weak fairness of the two polling loops (`while (... == 0)` without
a sleep: the thread is runnable all the time) and of the server's handling of a
command that has arrived. It does not assume that the server sends data, keeps
the connection open or that the application calls anything. Both liveness
properties therefore speak of the server addressed; with any other, or with a
lost command, `getConfiguration` polls for ever, since the code gives it no
timeout. The fairness of `getConfigurationRead` covers an end by any bytes: the
call may well fail because a data frame arrived first.

In `Connect`, `FairSpec` assumes that the client's thread runs, and that a handshake
which the server may answer from some time on is answered. That the server stays is no assumption
but the premise of `ConnectsInTime`.

In `ReceiverLoop` only the loop's thread must run (weak fairness of `Loop`); the application may
stop in the middle of a call, and the server need neither handle a command nor send. In `Threads` the operating system
runs each task that can run, and a call of the controller goes on; a wait for the semaphore
gets only weak fairness, for which `DestroyReturns` has as many grants as threads as its premise.

## 4. What is proved

`tlapm` checks all proofs. Constants have any values that the assumptions of
the modules declaring them allow, and nothing else is assumed: `ClientAssumption`
(lengths are positive, `UINT32` exceeds the buffer by more than 3), `FrameAssumption`,
`ConnectAssumption`, `PowAssumption` (`Pow[0]` is 1 and each power twice the one before),
`StatusAssumption`, `LoopAssumption`, `ThreadAssumption`, `SocketAssumption`. The last
are types and, where something is counted, finiteness. TLC evaluates them in the runs.

Every invariant and action property of the runs that hold is proved, and so are the two refinements.

**C37ClientProofs**, for all frame lengths, buffer sizes, ID codes and bounds:

* `TypeCorrect`, `OnlyWholeFrames`, `ValuesAndTimestampAgree`, `DecodingConsistent`: the
  invariants of the same content above. They follow from `InductiveInvariant`:
  `IInv` is the conjunction of the type invariant, `WholeFramesOnly`,
  `ValuesMatchTimestamp` and `TxOrdered`. The last is what the others do not say:
  frames lie one behind the other in the stream (each begins where the one before it ends), versions
  do not decrease along it and none is above the server's. It is needed because
  "the bytes read are one frame" speaks of positions, and "in the order sent" and
  "encoded under" of indices and versions.
* `ReportedDataFresh`: `OkDataIsFresh`, with the extra invariant that no result
  is pending while a get call is in its read.
* `ClientImplementsFeed`: `Spec => Feed!FeedSpec` with `feed <- tx`, `conf <- cfg`,
  `shown <- dat`. A write of the server is `Publish`, an accepted frame is
  `TakeConfiguration` or `TakeMeasurements`, everything else stutters; that the frame taken is
  ahead of all taken before is where `TxOrdered` and `rd` come in.

**C37ClientStateProofs**, with the same constants:

* `HeapIsSound`. `HeapInv` says that the blocks not freed are named by frames accepted, and
  that those of `cfg` and `dat` are among them until the client is destroyed. Its part
  `ConfigurationBlocks` follows the guard of line 208: at the end the array of the configuration held
  is left exactly if it describes no PMU.
* `RunningAgrees`: the invariant, `SwitchInv`, says what the last start or stop among the
  commands written and among those handled decide for `running` and `streaming`. That
  `running` agrees with the last switch *on its way*, and with the server when there is none, follows from it.
* `AnswersAreNotLost`: `NoAnswerLost` is inductive beside `IInv`. When the last bytes in
  flight are read and are not the answer, the call ends, and when the server
  handles the request it writes.

**FrameDecodingProofs**, for frames of any number of PMUs with any counts and formats:

* `TypeCorrect`, `CursorsAligned`, `ChannelsDecoded`, `DataDecoded`. The inductive
  invariant adds to them `Layout` (the offsets are sums of block sizes, and no
  two blocks begin at the same place, so an aligned cursor finds *its* header),
  `Phases` (how far each loop is) and `AllocatedAsFirst` (every array has the
  first PMU's size). The proof that `prepareConfiguration` keeps the cursor
  aligned is the heart: 16 bytes are skipped per phasor and analog *of the first
  PMU*, 4 per unit of the current one, and the two agree with the block's size
  exactly because only the sum of phasors and analogs enters.
* `DecoderImplementsContents`: `Spec => Contents!ContentsSpec`. The step that ends the first
  loop is `TakeDescription`, the one that ends the second `ShowValues`, and
  single iterations stutter. What is held and shown is the frame's by
  `ChannelsExact` and `ValuesExact`, since equal counts keep every cursor aligned;
  `Break` is possible only without them, by `NoOverflow`.

**ConnectProofs**, for any number of descriptors, any timeouts and any width of
the integers:

* `TypeCorrect`, `AtMostOneDescriptorEach`, `LatestConnectionReturned`. The inductive invariant adds
  `CurrentDescriptor`: from `socket` on `fd` is the last descriptor opened, or -1 up to
  `connect`, and it is writable once the client is returned; a handshake that is over does not change, so the
  network cannot take that back.
* `LimitsDouble`, the action property `WaitDoubles`. The code multiplies the initial limit by
  each new power; it does not double anything. `LimitInv` says that the limit is the product modulo
  2^w of the parameter and the power of the failure before, and `DoubledRemainder`, that doubling commutes with
  the modulus as long as the double is below it, does the rest.
* `ListeningIsReached`: `ConnectedToServer` holds of every behaviour in which the server listens from each
  `connect` to the end of its attempt. The invariant `Reached` says that the handshake on the current
  descriptor then does not fail; earlier ones may.

**StatusWordProofs**, for any sets of words and codes: `TypeCorrect`,
`FlagsOnlyAccumulate`, `LockFollowsLastVerdict`, `FieldsAreReadable`. The invariant adds that
the numeric fields are those of the last word alone, shifted and masked; the masks are
treated bit by bit (`ShiftIn`). `FieldsReadable` is an equivalence: the field is right for
these words and wrong for all others. `FlagsOnlyAccumulate` is what the flags are instead of the
last frame's. `FlagsDescribeUntilOneClears` and `DataErrorLosesBit15` are the exact conditions of the
claims the two runs of the status word refute. No passing run checks them.

**ReceiverLoopProofs**, for any numbers of PMUs and frames and without the bounds on what is on its
way: all invariants of the run.

* `IInv` is the type invariant with where the threads may be (`PcInv`); how far the command in
  `bufferSnd` is its thread's (`CommandInv`), whose heart is that a thread that is alone finds the
  other one not commanding; that the frame read stays in `bufferRcv` until the other thread touches
  it (`ReadInv`); that `numPmu` is the length of the array but between the two assignments of
  `parseConfigurationFrame` (`CountInv`); that what is decoded up to the index is of the frame read,
  or zeros once a configuration was installed (`OwnInv`); and that once the loop's
  own stop is sent, the commands on their way end in a stop that no start follows (`QuietInv`).
* `OwnFrameIsPrinted`: `PrintsOwnFrame`, for frames of any number of PMUs. The loops over the PMUs
  are steps of one iteration each, so `OwnInv` and `CountInv` are invariants of loops in which the number and
  the array change.
* `StopsHold` needs `StopInv` as well: once a stop has returned with the loop's start behind it,
  neither thread is anywhere between composing a start and setting the flag.
* `OneThreadUndisturbed`: as long as the application makes no call beside the loop (`together` is
  false, line by line in `AloneInv`), commands go out whole, what is printed of every PMU is of the frame read
  and nothing bad is accessed.
* `OnlyCallsEndTheLoop`: that application never sees the loop end. The two together say
  that each use of the loop that can stop it is exposed to the races that the properties of the run list.

**ThreadsProofs**, for any number of threads and posts and all initial values: `TypeCorrect`,
`OnlyRacesAreUndefined`, `StructuresFreedInTime`. The invariant says for each
place of the controller what the structure, the kernel's object and the task may be (`AtStart`,
`Started`, `AtEnd`). `JoinsCanReturn` counts: each thread has taken at most one grant (`GrantInv`:
`granted` is the cardinality of the set of tasks that have passed their wait), so a task that has not
passed it finds fewer grants taken than threads, and the invariant's balance of grants and posts (`Counts`, from the value the semaphore
really starts with: the one asked for on Linux, 1 on Windows) leaves it one.

**SocketsProofs**, for any number of sockets and descriptors: `TypeCorrect`, `DescriptorsAreOwned`,
`WaitIsTruthful`. The invariant says which structures and which call of the owner
hold a descriptor (`Holding`, `OwnerInv`), what the worker has read (`WorkerInv`) and what a set not yet waited on contains
(`SetInv`, with `Pending` for the descriptor in the middle of an addition). `WaitIsTruthful` is about cardinalities: descriptors map sockets of the set that are ready one to one
into what `select` leaves in it unless one was destroyed while it was being added, and onto it if none
of them was destroyed.

**Conditions.** The runs that find a violation refute a claim of the repository; these theorems
say what the claim needs, for all values of the constants:

| Claim, finding | Theorem | Holds if |
|---|---|---|
| `NoOverrun`, 1 | `OverrunNeedsCloseOrOneByte` | the server keeps the connection open until the client destroys it and no read returns one byte |
| `ShownAsLabelled`, names and sizes, 2 | `EqualPmusDecoded` | the PMUs of the frame have the first one's counts, in whatever formats |
| `ShownAsLabelled`, frequency, 3 | `FloatFrequencyShown` | the cursors are aligned and all PMUs send FREQ in floating point |
| `DataErrorKept`, 4 | `DataErrorLosesBit15` | and only if bit 15 of the last word is clear |
| `ConnectedToServer`, 5 | `ListeningIsReached` | the server listens from each `connect` to the end of its attempt |
| `FlagsDescribeFrame`, 6 | `FlagsDescribeUntilOneClears` | and only if the last word raises every flag raised since the configuration |

**Only model-checked**: the liveness properties `ConfigurationReturns`, `StopTakesEffect`,
`ConnectsInTime`, `StopEndsLoop` and `DestroyReturns`. They need fairness and
`ENABLED`, which the prover does not handle. What they rest on in each single state is
proved: `NoAnswerLost`, `RunningTracksServer`, `WaitDoubles` with `DescriptorsAccounted`,
`StopSticks` and `JoinCanReturn`.

## 5. Not modelled

* `socket_win32.c`, which no build file names, the parts of `socket_win32_1.c` that are commented
  out (server sockets, handle sets, UDP), and `src/socket_linux.c`, a copy of the platform file that is not built.
* `getPeerAddress`, `Thread_sleep`, time, memory wrappers, byte order: pure conversions and
  system calls. `malloc` does not fail.
* More than `FD_SETSIZE` descriptors in a handle set.
* `select` that blocks: a wait is the step in which it returns.
* The values themselves (scaling, polar to rectangular), station and channel names, the bits of
  the CRC.
* A full send buffer: commands are 18 bytes and the connection carries only a few.
* Fragments whose bytes happen to pass the CRC.
* Data frames read by the application beside the receiver loop, and several loops on one client.

## 6. Plan

Done: the modules above, in the order session, decoding, status, connecting,
receiver loop, threads, sockets; the proofs of all their invariants and action
properties, of both refinements, and of the conditions of the six findings.

Left, in this order:

1. An abstract specification of the sockets (each descriptor has one owner) that `Sockets`
   implements while no call is under way on what is destroyed, and of the
   semaphore that `Threads` implements on Linux.
2. Connecting without end: once the descriptors or the timeout have run out, a server
   that comes up is never reached. `ConnectsInTime` states the condition under which it
   is; a run that refutes the message of `ieeeC37_118.c:119`, "Try to reconnect", would
   state that without the condition it is not.
3. The checksum as a pure function, compared with the polynomial it stands for.
