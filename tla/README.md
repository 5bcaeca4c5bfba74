# Formal models of RTP-Server

TLA+ specifications of the RTSP/RTP server in `src/src`, TLC runs on small
instances of them, and TLAPS proofs that hold for every value of the constants:
type correctness and all safety properties of the passing runs, the
refinement of the abstract connection service, and the arithmetic of ports, ranges
and thread counts.

    tlc -config <Run>.cfg <Module>      (module and cfg of each run: PROJECT.json)
    tlapm <Module>.tla                  (Induction and the modules named *Proofs)

## 1. Inventory of the system

| Component | State | Operations | What makes it correct |
|---|---|---|---|
| Event loop: `Server.cpp`, `Connection.cpp`, `Defer` | `interrupt_fd`, `listener_socket`, `epoll_fd`, the map `connections`, each Connection's mutex, buffer and request; the kernel's accept queue, ready list and ONESHOT flags | `listen`, `serve` (one per thread), `interrupt`, `dispatch` | one thread per socket; no blocking `recv`/`accept` (`send` may block, on a client that does not read); iterators and node addresses valid; no request answered twice; sockets re-armed; SIGINT ends every thread that no client and no session holds up |
| Start and end: `main.cpp` | numbers of workers, the two thread pools | `main`, `interrupt_handler`, `exit()` | both pools are joined; at least one thread of each kind |
| Request parser: `RTSPRequest.cpp` | `cursor`, request line, headers, body | `parse_request` per received chunk | what is understood does not depend on how TCP cuts the bytes |
| Session registry: `Session.cpp` (static part, `Group`) | map `sessions`, the vector and queue of each Group, `is_live`, `is_active`, shared_ptr counts | `get()`, `get(id)`, `teardown`, `shutdown`, `watch_streams` | one worker per session; nobody uses a destroyed Session; new sessions are watched; shutdown reaches the workers |
| Playback: `Session.cpp` (`play`, `pause`, `tick`), `Track.cpp`, `Stream.cpp` | `is_playing`, `play_range`, per track `play_time`, `play_range_end`, the stream's position | `play`, `pause`, `tick`, `send_frames` | ranges are honoured; a tick ends; playing ends |
| Fragmentation: `RTPPacket.cpp`, loop of `Track.cpp` | `bytes_to_send`, `offset`, `sequence_number` | one packet per iteration | packets cover the frame, read inside it, carry S and E bits, end |
| SETUP and ports: `UDP.cpp`, `RTPTransport.cpp`, `emplace_track` | the pool `even_ports`, sockets, `tracks` | `handle_setup`, `bind`, destructors | a port has one owner and is not forgotten |
| Dispatch and responses: `dispatch.cpp`, `RTSPResponse.cpp` | none of its own | one handler per method | status and headers as the RFC table in `dispatch.cpp` asks |
| NPT: `NPT.cpp` | none | parse and format a range | grammar in its comment |
| Media: `Media.cpp` | catalogue read at start | lookup | filled before it is read |
| Exceptions: `Exception.cpp`, `RingBuffer.cpp` | one ring buffer for all threads | format a message | a message is not overwritten before it is printed |
| Helpers: `Locker.h`, `RNG.h`, `misc.cpp` | mutex and value | `use`, `read`, `write` | exclusion |

**How they interact.** The threads of the server pool run `serve()`. It owns a
socket from an epoll event to the re-arming, feeds bytes to the Connection's
parser, and calls `dispatch()` for a complete request while it holds the
Connection's mutex. The handlers look up or create a Session, and change it or
its tracks without a lock. Each session worker watches one Group, takes new
sessions over from its locked queue, and ticks the active ones; a tick reads
frames, cuts them into packets and sends them on the track's UDP socket.
`interrupt_handler()` writes to `interrupt_fd` and clears `Session::is_live`.
Exceptions are caught in the loop of `serve()`, in the loop of a Group, and
between the transport values of a SETUP.

**What is hard.** Threads that share descriptor numbers, map nodes and
iterators across two locks; edge-triggered and one-shot events; destructors
that run before a deferred unlock; shared_ptr counts read without
synchronisation; requests that arrive in pieces; session members written by
server threads and read by a worker; failing constructors that own ports;
signed and unsigned sizes and float times at their limits. `PROJECT.json`
lists each hazard with its line.

## 2. Modules

| Module | Models | Composition |
|---|---|---|
| `ConnectionService` | what a client sees of the server: admitted, served by one thread at a time, answered once, stranded or closed | abstract |
| `EventLoop` | event loop, signal handler, end of `main()`, `exit()` after an error | parser and handlers appear as choices |
| `EventLoopService` | the refinement mapping from `EventLoop` to `ConnectionService` | extends `EventLoop`, INSTANCE of `ConnectionService` |
| `EventLoopProofs` | theorems of `EventLoop` and `Startup` | extends both |
| `EventLoopServiceProofs` | `EventLoop` implements `ConnectionService` | extends `EventLoopService`, `EventLoopProofs` |
| `RTSPRequest` | the incremental parser | refines the choice `Parse` of `EventLoop` informally |
| `Dispatch` | the method table, the handlers, several clients on shared sessions | extends `Setup`; stands for `DispatchRequest` and `SendResponse` of `EventLoop` |
| `Setup` | SETUP's loop over the transport values, port pool, sockets, the track vector | extends `Transport` and `Media` |
| `Transport` | the port numbers of a Transport header, of its answer, and of `bind()` | pure |
| `Media` | how the lines of an SDP become the map of control ids | pure |
| `SessionRegistry` | sessions, groups, workers | `tick()` is opaque: it returns, throws, or does not return |
| `Playback` | one session's PLAY, PAUSE and ticks | extends `NPT`; a frame is one step |
| `NPT` | Range headers | pure |
| `Fragmentation` | the packets of one frame | stands for one `SendFrame` of `Playback` |
| `Startup` | the thread counts of `main()` | pure |
| `DispatchProofs` | theorems of `Dispatch`, `Setup`, `Transport` and `Media` | extends `Dispatch`, `Induction` |
| `PlaybackProofs` | theorems of `Playback` and `NPT` | extends `Playback` |
| `RTSPRequestProofs`, `SessionRegistryProofs`, `FragmentationProofs` | theorems | extend the module they name |
| `Induction` | the principle of the least number, for recursive functions | used by proofs |
| `MC*` | small instances | |

Definitions named in comments as mutants are deliberate errors next to the
definition they imitate. No specification uses them; replacing the definition
by its mutant must make TLC report the property of the same row in
`PROJECT.json`, which shows that the property depends on that code.

### EventLoop

One value of `pc` per point of `serve()` between two system calls, critical
sections or mutex operations:

    wait -> accept -> add -> insert -> wait            a new connection
    wait -> find -> lock -> recv -> [dispatch -> send ->] rearm -> unlock -> wait
                              recv -> del -> erase -> unlock -> wait   end of file

Kernel state is explicit. `backlog` and `listenerReady` are the accept queue and
the ready-list entry of the edge-triggered listener; `interest` is epoll's entry
of an accepted socket, which an event disarms (EPOLLONESHOT) and a MOD arms;
`socket` maps a descriptor number to the client behind it, and `accept()` may
return any free number, so numbers are reused. `connections` maps descriptors to
nodes, and a node freed by `erase()` may be returned to the next insertion:
`UnlockConnection` and `UnlockFreedNode` are the deferred `unlock()` on whatever
is at the address by then. `interrupt_fd` is level-triggered and never read.
An exception goes to `Abandon`, which unlocks and leaves the socket disarmed.

A failing `recv()` or `send()` goes to `pc = "exit"`, with the Connection's mutex
held: `HANDLE_INT_RESULT` calls `exit()`, which destroys the static `thread_pool` of
`Session.cpp:132` and joins the session workers. They run as long as `is_live`, which
only the signal handler clears (`StopWatching`, one variable `watching` for all of
them); until then the thread stays in `exit()`, and the other threads go on. It comes
to an end by `ExitCompletes`, or by a second thread's `exit()` (`ExitAgain`:
undefined, it waits or ends the process). `SIGPIPE` may end the process at once.
A failing `listen()` leads into `exit()` in the same way (`phase = "failed"`), and
so does a signal that interrupts `send()` (`SignalInSend`). `send()` may wait for a
client that does not read: `SendResponse` is enabled then but no fairness is assumed
of it.

Abstractions: a chunk is "part", "end" or "bad"; one `recv()` takes everything
that is queued (the 4096-byte buffer and longer queues are left out); `dispatch()`
answers or throws; `write()` to `interrupt_fd` and the store to `is_live` are one
step. A rehash of `connections` invalidates the iterator by the letter of the
standard, but not the node it refers to; the model follows the node.

### ConnectionService and EventLoopService

The abstract service has per client a status (away, queued, open, stranded,
closed), the threads that serve it, and whether a whole request is unanswered; no
descriptors, epoll, map nodes or mutexes. `EventLoopService` maps to it: a
client's status comes from the accept queue, the descriptor it is connected
through and the history `abandoned`; its servers are the threads that `Handling`
counts on that descriptor; a request is unanswered while the Connection's message
is "ready". `ServiceImplemented` says that every step of `EventLoop` is one of
the abstract service or changes nothing in it. It would fail if two threads could
be at one connection, if an answer were sent twice, if a thread let go of a
connection with a whole request in hand other than by an exception, or if a
stranded or closed connection came to be served again through a reused descriptor.

### RTSPRequest

A message is a sequence of symbols (CR, LF, space, colon, digits, words: the
constant `Symbols`); a step is one `append_to_message()` with any number of the
symbols still on the wire. `Scan` is the loop over the lines, `AddLines` the
loop over what was found in this call, `TakeBody` the end. Two references say what
the parser should hold: `ChunksLeaveNoTrace` compares it, after every chunk, with
one call that gets all the bytes at once, and `UnderstoodWhenWhole` compares it, at the
end, with `Meaning`, which is computed from what the client meant and not from
the bytes: the value of a header is what its lines contribute one after the other
(`Contribution`), whatever order the parser reads them in. Both except a message of
which an earlier call has met a line terminator (`cutHead`): that is finding 2. So
everything behind the first line terminator, the body included, comes in the last
chunk, and what is left of the cuts is those in and before the first line.
`UnderstoodWhenWhole` is about requests that are `Clear`: they have the parts of a
request line and a body as long as the first Content-Length says (`WellFormed`), and
their empty line cannot be read together with the body (`TerminatorReachesBody`).

### SessionRegistry

A step is one critical section, atomic access or shared_ptr copy. `UseCount` is
the size of the set of owners: the map's entry, positions in groups and queues,
and handlers. Growing a group's vector is two
steps, and `ChooseGroup` may read any size in between, because it holds another
lock. An id is drawn and inserted under one lock, and any id that the map does not
have may be drawn. The Sessions constant bounds the number of sessions. An iterator that
`get(id)` uses after its lock is taken to survive a rehash of the map, as its node
does.

### Playback and NPT

The worker's `tick()` and `send_frames()`, one frame per step, interleaved with
`play()` and `pause()` on several server threads, one access to a shared member
per step. Times are whole numbers and NaN and infinity are values of their own,
because a video stream has the sample rate 0. `SendFrame` may throw.
`undisturbed`, `mixed` and `behind` are history variables: no PLAY wrote to a
track during this pass, PLAYs of the session overlapped, how many frames at or
behind its range end a track has fetched since PLAY set it. `Moved` says which tracks
a later SETUP's growth of the vector has moved: Stream's move constructor leaves
`timestamp_frequency` behind (`Stream.cpp:82-93`), so every timestamp of such a track
is 0 from then on. All tracks are set up before the first PLAY (SETUP while a session
plays is a race on the vector).

A Range header is a text of module `NPT`: the numbers between the colons of each
time, the times between the dashes. `ParseRange` keeps what the code does with
the forms of its grammar: a time with colons yields its first number, a range
without a begin throws, an open one has the end 0.

### Fragmentation

Exact sizes and offsets; a byte is a frame index, 0 (RTP header) or -1 (FU
header). `RTPPacket` gets the remaining bytes as its size *and* the offset, and
subtracts one from the other; `Remaining` and `Exceeds` keep the int to size_t
comparison.

### Setup, Transport and Media

The places a port can be in (`Owners`) are positions of the pool, tracks and
requests; `GiveBackAll` is the loop of destructors over a vector that has grown, as
a recursive function. The state is per client: where its request is (`pc`), the session, the parts of
the URL, the transport values still to try, the ports of the Track under
construction, and the answer. One action per step of the constructor: a value is
refused before anything is bound, a port is taken, each of the sockets is bound or
not, the Track's own constructor throws in one of three places, or the Track is
in the vector. `Abandon` is the destructors' work. `lost`, `doubled` and `dry` are
history variables: ports that `::bind()` refused after they were taken, ports
that a growing vector gave back although the copied socket is in use, and clients
whose Track found the pool empty.

The members of a Socket have no initial value (`UDP.cpp:69`). `reset_port()` clears an
even port only, so a destroyed Track leaves the odd port of its RTCP socket in its
memory, where the next transport value's Track may be constructed. `leftover` is the
set of such ports, and `RtcpPorts` what `get_port()` of an RTCP socket may say after
`bind()`: the neighbour of the RTP port if the client named two ports, otherwise 0 or
any port left over.

A transport value is "proper" or not, with the numbers of its client_port. A
line of an SDP is a kind, a value, and whether it fits the 64 bytes of
`getline()`'s buffer; the instance has the lines of the sample's SDP, as
`Track.cpp` quotes and the tests expect them.

Restrictions: a Track's memory is zeroed or was a Track's before, of which only the
port counts (a stale `socket_fd` closes a foreign descriptor, with any outcome), and
one SETUP of a session at a time (`tracks` is not locked).

### Dispatch

A request of any method comes in, with a Session header that some SETUP's answer
has named, or none. DESCRIBE, OPTIONS and unknown methods are one step; SETUP,
PLAY, PAUSE and TEARDOWN look the session up in a step of its own (`FindSession`,
`InvalidSession`, `CreateSession`), since another thread's TEARDOWN may come
between `Session::get(id)` and what the handler does. `SetStatus` is
`set_status()`, which throws for a status without a string: SETUP without a control
id strands its client. DESCRIBE's 406 is overwritten by 200. TEARDOWN answers
with no status and no headers. `Reconnect` is the environment: a client that gets
no answer opens another connection, with the sessions it knows. Copied headers
(CSeq, Date, Content-*) and the text of a response are left out. `late`, `told`
and `named` are history variables.

## 3. Runs

| Run | Bounds | Shows |
|---|---|---|
| `EventLoopSafety` | 2 threads, 2 clients, 1 descriptor, 2 nodes, 2 chunks | exclusive handling, valid iterators, matching addresses, `recv()` and `accept()` that do not block, no other stall than by exceptions; `ServiceImplemented`, no request answered twice included |
| `EventLoopLiveness` | 2 threads, 2 clients, 1 descriptor, 2 whole requests, fair | if sends and session workers return, SIGINT ends the process; if sends return, registered bytes are received and dealt with, waits for the mutex and failing `accept()` included |
| `EventLoopRace` | 2 threads, 1 client | finding 1 |
| `EventLoopExit` | 2 threads, 1 client, 1 chunk, fair | finding 5 |
| `RTSPRequest` | 8 requests, 3 line terminators, every cut | `ChunksLeaveNoTrace`, `UnderstoodWhenWhole`, `NeverReadyEarly` |
| `RTSPRequestSplit` | same | finding 2 |
| `SessionRegistry` | 2 sessions, 2 handlers, 2 workers, fair | owners and iterators of a Session, one place for each, sessions come to be watched, workers stop |
| `Fragmentation` | max_size 3, header 2, sequence numbers mod 4, frames of 0 to 13 bytes | packet count, S bit, reads, progress |
| `FragmentationHeader` | same | finding 3 |
| `Playback` | picture and sound track in this order, 3 frames, buffer 2, 3 requests on 2 threads, fair | ranges and the range that is answered, end of ticks and of playing |
| `PlaybackEndOfFile` | a sound track, 2 requests, fair | finding 4 |
| `Dispatch` | 2 clients, 2 sessions, 2 tracks in all, 2 ports, 2 Transport headers (one with three values), 3 URLs, the sample's SDP | ownership of ports, pairs announced, what TEARDOWN ends, no track in a session nobody knows |

**Why the bounds are enough.** One descriptor and two clients make every accept
after the first a reuse; two nodes let a freed one come back or not; a
thread between two steps while the other accepts and handles meets each race of
two, and the proofs cover any number of threads; with the descriptor taken, `accept()` fails for lack of descriptors. The proofs
remove the bounds for safety. A pair of sizes around multiples of `max_size` up to
the fifth packet meets each branch of `RTPPacket`, and the sequence number
wraps; again the proofs cover all sizes. Two sessions on two workers meet each order of
two creations, two drains and a look-up; the proofs cover any number. Two ports, with a
third Transport value to try, empty the pool; two tracks, those under construction
counted (`MaxTracks`), are either both in one session, where the second grows the
vector, or in two. The header
of three values has one that is refused, one with an odd pair and one without
ports, so that each later value is tried after each kind of failure, in memory that
has a port left. Two clients meet the race of a TEARDOWN with a lookup. The Playback
ranges are bounded, open with a clock time, and without a begin; three requests are a
bounded PLAY, an open one behind it and a PAUSE, or two PLAYs that overlap and one that
follows. The chunks of `EventLoopLiveness` are whole requests: after a part of one
`serve()` goes from `recv()` to the re-arming and skips what could hold it up, and the
safety runs have it. The picture track comes first, so that the growth of the vector moves it and
not the sound track, which would never end a tick (finding 4).

Symmetry is used in the safety runs only. `CHECK_DEADLOCK FALSE` stands where
the system may stop: a request that is parsed, workers that have stopped,
bounded requests or tracks used up. `EventLoop` has an explicit step for the
ended process and is checked for deadlock.

**Fairness.** Weak fairness of each server thread in `EventLoop`, except in `send()`: the
kernel schedules runnable threads, and the actions of a thread that waits for a mutex,
an event or a connection are disabled, not unfair. The end of the process
(`MainReturns`, `ExitCompletes`) is weakly fair once everything it joins has
returned. That a `send()` returns is up to the client, and that a session worker comes to
the end of its pass does not hold at the end of a file (finding 4): neither is assumed of
the system; they are hypotheses of the properties that need them, `SendsReturn` and
`WorkersReturn`. In `SessionRegistry` weak
fairness of a worker's own steps except `tick()`, and strong fairness of
`AddSession`, which waits for a lock that its worker takes and releases again and
again. `EventuallyWatched` has a hypothesis: passes complete (`PassesComplete`), that is,
no tick lasts for ever or throws every time; `WorkersStop` that ticks return. `Playback`
assumes weak fairness of the worker alone, which does not wait for the handlers. Nothing
is assumed of clients or signals.

**Findings.**

1. `EventOfKnownConnection`: `serve()` arms a socket (`Server.cpp:115`) before
   the map knows it (117-119). Another thread handles the first event, throws
   "Connection not in map", and the client is never answered.
2. `SplitRequestUnderstood`: `parse_request()` takes the first line *of each
   call* for the request line (`RTSPRequest.cpp:87-97`); the test
   `SplitDescribeRequest` promises otherwise for a cut in the middle. It passes
   when both halves are read by one `recv()`, or when the cut is before the end of the first
   line.
3. `HeaderFirst`: the payload overwrites the RTP header (`RTPPacket.cpp:85, 95`), which
   the diagram (line 8) has at the start of the packet.
   The E bit of fragments is wrong for most sizes as well: the remaining bytes
   are reduced by the offset twice (52-67), so it is set by chance.
4. `PauseHalts`: at the end of a sound track `send_frames()` sends empty packets
   for ever; PAUSE, the other sessions of the group and shutdown wait for it. It
   takes a track that opens a sound stream; with the sample's SDP there is none
   (`OnlyVideoStreamed`), which is another error.
5. `ErrorEndsProcess`: the TODO at `Server.cpp:154` takes a failing `recv()` to end the
   process. After one client's reset `exit()` waits for session workers that nothing
   stops; the process goes on with one thread less and a mutex that stays locked, until
   SIGINT.

Other divergences met on the way. They are in the models, and the properties of the
passing runs do not demand them; where a theorem says how far one goes, its comment
calls it a defect:

* `NeverBoundAsAnnounced`: `sin6_port` is set without `htons()` (`UDP.cpp:108`),
  so the socket is never bound to the port that SETUP announces. (It is connected
  to the port of the client's RTSP connection, too, `RTPTransport.cpp:70`.)
* `FallbackMissed`: with one or two processors, or an unknown number, `main()`
  sets out to start about 2^32 threads instead of falling back to two.
* `ClockTimeMisread`: `0:10:00` in a Range header is read as 0 seconds;
  `OpenRangeAnswered`: an open range is answered with the end 0, and `-15` is
  refused, against the grammar above `parse_range_header()`.
* `OnlyVideoStreamed` (theorem `SoundNeverStreamed`): the sample's first `a=fmtp` line is
  longer than the loader's buffer, so no control id is mapped and the sound's track opens
  the video, contrary to what `Media.cpp` and `Track.cpp:36-40` map them for.
* An open PLAY after a bounded one keeps and reports the old end, although 0 is to mean
  an undefined one (`Session.h:86`, `Session.cpp:209`). `SetRangeEnd` has it, and
  `AnsweredRange` speaks only of PLAYs that name their end.
* `NothingReclaimed` (theorem `NoSessionReclaimed`): torn-down sessions are never
  reclaimed, contrary to `Session.cpp:87-98`. The comment on
  `use_count()` (`Session.cpp:87`) wants no copy of the pointer once `is_active` is
  false; `get(id)` copies it after the lock, so a TEARDOWN can come in between.
* A client that names one port may be told a second server port that was left in the
  memory by a failed attempt, as in `server_port=5006-5005`; one that finds the pool
  empty is told `server_port=0` or `0-1`. The tests expect pairs such as
  `server_port=5004-5005` (`test_common.h:63`), which `PairsAnnounced` shows for whoever
  names two ports and finds the pool not empty.
* A sound track that a second SETUP has moved has the frequency 0 (`Moved`): all its
  frames are due at 0, and a tick that plays it does not end, as in finding 4.
* A body that begins with LF, sent with CR alone for a line terminator, loses its
  first byte to the empty line, because CR LF is tried first
  (`RTSPRequest.cpp:36, 60`). The RFC allows the terminator, but no parser that
  accepts all three can tell the two messages apart; `UnderstoodWhenWhole` has
  it as an exception.
* A growing track vector returns ports that are in use (`doubled`); a PLAY during
  the last pass of a tick can be lost; SETUP without a control id strands the
  client (459 has no string).

## 4. Proofs

Each theorem `Spec => []P` comes from an inductive invariant: a conjunction of `P`
with what the code relies on without saying so. The invariants stand at the beginning
of the module of proofs, were checked with TLC on the instances of the runs, and are
then proved with one lemma per action. They assume no more of the constants than the
named ASSUMEs, which TLC evaluates on the instances: finite sets of threads,
null values outside their sets, sizes that are not negative, even ports without
repetition, header lines without line terminators.

**EventLoop** (`SocketInv`). `HandlerExclusive`, `IteratorValid` and the rest
are not inductive alone:

* a descriptor is not handled twice only because a disarmed descriptor has at
  most one handler (`HandlerState`, `StalledOnlyByException`), which breaks unless
  a thread between `accept()` and the insertion owns its descriptor alone
  (`Accepting`);
* that in turn needs closed descriptors to have neither an epoll entry nor a map
  entry (`OpenDescriptors`), and two descriptors never to stand for one client
  (`ClientsInOnePlace`);
* `IteratorValid` follows since only the handler of a descriptor erases its entry.

`AcceptNeverBlocks` is proved from `EdgesCovered`, which counts acceptors and the
undelivered edge against the accept queue, with the library's facts on cardinality.
`NoReplay`, that an armed socket never holds an answered request, is a part of
`SocketInv` and a theorem; in the run `ServiceImplemented` stands for it.

**EventLoopService** (`ImplementsService`). Initial states map to initial states,
and each action of `EventLoop` to one action of the service or to a stutter:
`Connect` to `Queue`, `AddToEpoll` to `Admit`, `TakeSocket` to `Take`,
`ReceiveData` to `Receive` when it completes a request, `SendResponse` to `Answer`,
`Rearm` and `EraseConnection` to `Release`, an exception to `Strand`, the end of the
process (`MainReturns`, `ExitCompletes`, `ExitAgain`, SIGPIPE) to `Stop` or nothing, and a
thread that goes into `exit()` to nothing: it still serves its client, for ever. The mapping of a client depends on the
descriptor it is connected through, so the proof first shows that this descriptor is
unique (`ClientsInOnePlace`). `ServiceInv` adds two facts to `SocketInv`: the socket
of an abandoned client stays disarmed and unattended (`AbandonedForGood`), and a
handler has a whole request exactly between `recv()` and `clear_message()`
(`RequestInHand`). The service's specification states no fairness, so this is
all of `ServiceImplemented`.

**SessionRegistry** (`RegistryInv`). `NeverLastPointer` needs two owners of whatever is
worked on. The reason there are two is that the map keeps every Session ever created
(`MapKeepsAll`), and a worker's or handler's own pointer is another; the same fact makes
the count that `watch_streams()` compares with 1 at least 2, so that nothing is ever
reclaimed (`NoSessionReclaimed`, a defect). `WatchedOnce` needs to know where a pointer
can come from: a Session is at one position of one group, one queue or one adding
handler (`OnePlace`), an id is drawn that the map does not have, and the vector grows only
from its own queue.

**Dispatch and Setup** (`DispatchInv`, `SetupInv`). For ports: every port is at
most in one place (`OwnedOnce`, port by port, one clause for each kind of place and
one for different kinds) and in at least one (`OwnedSomewhere`), except `doubled` and `lost`
ones. Each step of a SETUP takes, moves, returns or loses one port; four lemmas
cover these, and a fifth the growth of a vector, where `GiveBackAll` needs
induction. `PairsAnnounced` comes from `ClientPairAligned`, which is about any
client_port, and from `PortInHand`: a Track under construction has a port unless its
client is `dry`, and once its sockets are bound the RTCP socket has the neighbour if it
was asked for, whatever `leftover` says. For sessions: a request sent after the answer to a TEARDOWN gets no
further than the look-up (`LateRefused`, from `ToldTorn`), and an answer with a Transport
header names the session that its track is in (`TrackAnnounced`).
`SoundNeverStreamed` has a hypothesis on the catalogue, which the sample's SDP
satisfies: each SDP has a line that does not fit the loader's buffer above its
first control id.

**Playback** (`PlaybackInv`). `OneFrameBehindEnd` is about all passes since a PLAY. It needs
the worker's cutoff to stay within the range end through a pass that no PLAY disturbs
(`CutoffInRange`), and that a track which has fetched a frame at or behind its end has a
`play_time` that stops this pass and every later one (`BehindStops`): with NaN, too,
which compares with nothing. `TracksAgree`
and `AnsweredRange` need to know how far PLAY's loop over the tracks has come:
the tracks before `next[h]` have the new end, and the session's range has it after the
first (`EndsSet`, `BeginSet`); between two PLAYs all of them agree (`Settled`), as long as
no two overlap. `AnswerToPlay` has the hypothesis that the session has a track; a
session without one is what a failed SETUP leaves behind, and no answer named
it (`TracksNamed`).

**RTSPRequest** (`ParserInv`). Until a call has met a line terminator, the
parser's request is still `Empty` and its cursor 0, because a line is only taken at its end: that
is why a chunk leaves no trace (`NothingFound`), and it is what breaks behind the
first line. The step from one chunk to the next needs `CutBehindTerminator`, that a
terminator once met stays in the buffer. `NeverReadyEarly` needs where the first
empty line of a marshalled request can be, which rests on header lines having no
terminators in them.

`UnderstoodWhenWhole` follows from `ChunksLeaveNoTrace`, which leaves one call with
the whole message, and from what that call does (`WholeRequestParsed`), in five steps:

* where each line of a marshalled request lies in the message (`HasLayout`,
  `LinesInPlace`), by induction over the header lines, since `FlattenSeq` is a sum of
  lengths;
* what `Scan` finds there: one line at each place and then the empty line
  (`LineScanned`, `EmptyLineScanned`), from the last line back to the first (`HeadScanned`);
* what the header lines add up to: the fold of `AddHeader` has after each line the
  value that the contributions of the lines so far make together (`HeaderAdded`,
  `HeadersRead`). The first ": " of a line is the
  client's separator, because a name is one symbol (`HeaderCut`);
* the request line, which its three parts and two spaces make up again
  (`RequestLineKept`);
* the body: the first Content-Length is the one kept, and it is its length
  (`LengthRead`, `BodyRead`).

The hypothesis `~TerminatorReachesBody` is used in `LinesInPlace` only: behind a lone
CR that ends a line, or the head, there is no LF.

**Fragmentation** (`LoopInv`). In the loop `offset` is the number of
packets times `max_size`, and `offset + bytes_to_send` is the frame's size. The
copied bytes lie in the frame because a fragment means that the frame is longer
than `max_size`. `FrameProgress` bounds the loop by the frame's size. All is for any
`MaxSize > 0`, `HeaderSize`, sequence width and frame bound.

**Pure operators.** The theorems about `Transport`, `NPT` and `Startup` are for
every transport value, every range of whole seconds below 100000 and every
unsigned number of processors. They rest on the arithmetic of `%` and `\div` and on
the library's facts on SubSeq.

**Induction.** The library states induction with an operator as a parameter, which
the provers do not instantiate. `Induction` states it with sets instead: a set of
numbers that is not empty has a least one. What `Scan`, `GiveBackAll` and the
flattening of header lines compute is shown in that way; the library's `FoldLeft` is
unfolded to the recursive function behind it once, in `HeadersFolded`.

**Only model-checked.** Liveness (`ShutdownCompletes`, `DataHandled`,
`EventuallyWatched`, `WorkersStop`, `TickEnds`, `PlayingStops`) and whatever depends on
ENABLED are out of the prover's reach. The properties of the five findings do not hold;
TLC has a counterexample to each.

## 5. Not modelled, and why

* The ring buffer of exception messages, logging, the text of responses and the
  headers that are copied into them: no state of the server depends on them.
* Media files, the making of the SDP text and libavformat: an external library.
* Undefined behaviour of the unlocked vector `tracks` (SETUP while the session
  plays, two SETUPs of a session) and of a stale `socket_fd` in recycled memory:
  any outcome is possible, and `Setup` says where it stops.
* Failures of `epoll_ctl()`, of `epoll_wait()` other than EINTR, and of `write()` to
  `interrupt_fd`: they lead into the same `exit()`, and take a kernel short of memory or of epoll watches.
* Transport headers with more than three parts in the specifier or a repeated
  client_port; `Content-Length` of more than one digit.
* `pause(float)`, `jump_to()`, `hhmmss()`, `append_header()`: nobody calls them.
* Keep-alive options, `expires`: no effect on the state.

## 6. Plan

1. (done) `EventLoop`, `RTSPRequest`, `SessionRegistry`, `Fragmentation`,
   `Playback`, with proofs for the first and the fourth.
2. (done) `Dispatch` over `Setup`, `Transport` and `Media`; `NPT` behind `Playback`;
   `Startup`; `ConnectionService` and its refinement.
3. (done) Proofs of all safety properties: the refinement,
   `SessionRegistry`, `Dispatch` with `Setup`, `Playback`, `RTSPRequest`.
4. (done) `UnderstoodWhenWhole`, for any request.
5. (done) `exit()` after an error and the hypotheses of shutdown; ports left in memory;
   range ends over several passes; streams moved by a growing vector.
6. Open, if it stays small enough for TLC: `SessionRegistry` behind `Dispatch`, so
   that one model has the lookup's race with reclaiming.
