# my_tcp_cs in TLA+

This directory specifies the HTTP server in `webserver/` of the repository:
its thread pool, its event loop, the life of a connection, its parser and
answers, the timer list, and the buffers of reading and writing; and the
repository's other server, the thread-per-client echo server. The modules are
checked with TLC; all of them but `IdleTimer` are proved about with TLAPS, too.
`PROJECT.json` maps each definition to the lines it models.

## 1. The system

`webserver` simulates a proactor: `main` does all the input and output, the
pool's threads parse requests and compose responses in memory.

| Component | State | Operations |
|---|---|---|
| `ThreadPool<T>` (`include/threadpool.h`, over `Locker` and `Sem` of `include/locker.h`) | `m_workqueue_`, `m_queuelocker_`, `m_queuestat_`, `m_stop_` | `Append` by `main`; `Run` by each of the 8 threads; the destructor |
| Event loop (`src/main.cpp`) | `epollfd`, `events[]`, `users[]`, `stop_server`, `timeout`, the pipe | `epoll_wait`, `accept`, dispatch of hangup, readable and writable events, signals, shutdown |
| `HttpConn` (`src/http_conn.cpp`) | descriptor, timer, read and write buffer with their indices, `m_iv_`, the counters of `Write`, the mapped file | `Init`, `CloseConn`, `Read`, `Write`, `Process`; the parser; the response |
| `Sort_Timer_List` (`src/lst_timer.cpp`) | a doubly linked list of `Util_Timer`, sorted by `expire_` | `Add_Timer`, `Adjust_Timer`, `Del_Timer`, `Tick` |
| Signals (`src/main.cpp`) | `alarm`, `pipefd`, `timeout` | `sig_handler`, `timer_handler` |
| `serverbase/` | an earlier state of the above, which does not compile | |
| `server_thread_copy.c` | `infos[128]`, `cfd`; each thread's `recvBuf` | `main` accepts, takes an element of `infos[]` and creates a thread; `working` reads and echoes |
| `client_copy.c` | a counter, a buffer | sends a message, waits for its echo, sleeps |
| `servertest.cpp`, `clienttest.cpp` | | a pair that shows TCP's closing handshakes |
| `test_presure/` | | webbench, vendored |

**How they interact.** A connection is passed from hand to hand. epoll watches
its descriptor with `EPOLLONESHOT`; once it reports an event, the descriptor is
off until `Modfd`. `main` reads into the object `users[fd]` and appends a
pointer to the pool's queue; a worker pops it, parses, composes the response in
the object's buffers and calls `Modfd` for `EPOLLOUT` (or for `EPOLLIN`, if the
request is incomplete); `main` writes. No lock protects `HttpConn`: two threads
never touch the same object only because of this protocol. The timers are
touched by `main` alone, unless a worker closes a connection itself
(`Process`, when `Process_Write` fails), so that never happening matters too.

**What is hard.** Steps of `main` and the workers interleave. Clients may hang
up at any time, also while a worker holds their object. Descriptors, and with
them objects, are used again. Events of one batch may concern objects that
earlier events of the batch changed. The queue has a limit, and so has the
number of clients. Writes are partial. `listenfd` is edge-triggered.
`epoll_ctl` may fail. `recv` and `writev` return counts of every size. SIGTERM
comes at any time. In the echo server the threads share the process, the
descriptors and `infos[]`, and its clients' messages come in any pieces.
`PROJECT.json` lists these under "hazards", with their lines.

**What correct means.**

* Pool: mutual exclusion; semaphore and queue agree, so that no thread pops an
  empty queue and no request is forgotten; first in, first out; a bounded queue.
* Connections: one owner at a time; whatever an owner refers to is alive;
  counts, descriptors and timers agree; requests are kept until answered,
  responses are not mixed; every request is answered or its connection closed.
* Timer list: well linked, sorted, no link to freed memory.
* `Read` and `Write`: the indices are the numbers of bytes received and sent;
  a file is mapped exactly while it is being sent.
* Parser: the answer depends on the request alone, not on how it was cut or on
  what the object has served before; no complete request waits for more.
* Echo server: a thread uses its own client's connection only; every message is
  echoed to who sent it; no client ends the service of the others.

## 2. The modules

| Module | Models |
|---|---|
| `RequestQueue` | What the pool promises its caller: a bounded FIFO, each request to one worker. Abstract. |
| `ThreadPool` | `threadpool.h` over `locker.h`, one step per lock, unlock, wait and post. Implements `RequestQueue`. |
| `ThreadPoolProofs` | Its proofs. |
| `WebServer` | The clients, epoll, `main`, `users[]` and the workers. Its queue implements `RequestQueue` too: it is built on the pool's abstraction. |
| `WebServerProofs` | Its proofs. |
| `TimerQueue` | The sorted queue, without pointers. Abstract. |
| `TimerList` | `lst_timer.cpp`, pointer by pointer. Implements `TimerQueue`. |
| `TimerListProofs` | Its proofs. |
| `HttpIO` | The buffers of one object: `Read` with the `char` that holds recv's result, the mapped file, `Write` and its two `iovec`s over any sequence of `writev` results. |
| `HttpIOProofs` | Its proofs. |
| `HttpRequest` | `Process_Read`, `Do_Response`, `Process_Write`: from the pieces of a request to the answer. |
| `HttpRequestProofs` | Its proofs. |
| `IdleTimer` | `alarm`, SIGALRM, `timeout`, the deadlines of the connections. |
| `EchoServer` | `server_thread_copy.c`, its clients and the byte streams between them. |
| `EchoServerProofs`, `EchoOrderProofs` | Its proofs; the second one about the order of the echoes. |
| `SequenceFacts` | Lemmas about sequences and numbers that several of the proofs use. |

### ThreadPool

`mpc` is the place of `main` in `Append`, `wpc[w]` that of a worker in `Run`.
What happens between `Lock` and `unLock` is one step (`AppendCheck`,
`PopFront`). `QueueProtected` states that the lock makes this sound.
`Process()` is one step. `Destroy` is `delete pool`, the destructor with the
destruction of the members behind it: from there on no thread has a semaphore, a
mutex or a list, so none of the steps that use them is enabled, and a thread
that comes to one of them goes to `undefined` (`UseDestroyed`), as nothing can be
said of it. `m_stop_`, which is to end the threads, is read by none. The
properties say up to where they hold.

### WebServer

`users[]` is indexed by descriptor, so `f \in Fds` is both a client's socket
and its object.

| Variables | Code |
|---|---|
| `backlog`, `acceptEdge` | listen's queue; whether the edge-triggered `listenfd` is on epoll's ready list |
| `interest[f]` | the registration: none, `off` (used up by `EPOLLONESHOT`), `in`, `out` |
| `rx`, `peerGone`, `sndFull` | the socket: unread input, FIN or RST received, send buffer full |
| `batch`, `listenEvent`, `sigEvent` | what is left of `events[]` |
| `mpc` | `main`: waiting, in the loop over `events[]`, behind the loop, after `delete [] users`, gone |
| `attached`, `timer` | `m_sockfd_ # -1`; `m_timer_ # nullptr` |
| `buf`, `writeIdx`, `toSend`, `mapped` | the read buffer's content, the responses in `m_write_buf_`, `m_bytes_to_send_`, `m_file_address_` |
| `queue`, `job`, `stage` | the pool: the queue and, per worker, its object and its place in `Process` |

Each branch of the loop over `events[]` is one action, with every call it makes
(`ReadOk` is `Read`, the timer and `Append`; `WriteAll` is `Write` and what
`main` does with its result). This is sound because `main` alone touches the
object of an event it handles, which is what `SingleOwner` says. A worker
takes, processes and re-arms in three steps: between them anything may happen.

Abstractions: a request is complete or not, maps a file or not (other responses
are the status texts) and keeps the connection alive or not. A malformed
request is one that maps no file; what complete means is in `HttpRequest`. A
response is `RESPONSE` units; only one with a file is so long that `EAGAIN` may cut it.
Clients do not send the next request before they have the whole response: what
`Read` does with pipelined bytes, which `Init()` erases, is not modelled.
`Modfd`'s endless retry is a `Rearm` that is not enabled while `epoll_ctl`
cannot succeed. A read that has both data and a FIN is reported as a hangup,
which `main` looks at first. Exhausted descriptors are `AcceptFails`.

A response without a file is taken to fit a socket that has room, a few hundred
bytes: cut twice, it would keep `Write` in its loop (see `HttpIO`), and
`RequestAnswered` would not hold.

`CloseConn` does not unmap, as in the code: `mapped` survives the connection.

Behind the loop `main` closes `epollfd` (`EndBatch`): epoll knows no descriptor
any more, and a worker that comes to its `Modfd` loops there until `main`
returns, so `Rearm` is disabled. Then `main` deletes `users[]` whatever the queue
and the workers hold (`DeleteUsers` has no guard about them); a thread that uses
an object from then on does so in freed memory (`UseFreed`). `UsersLive` is up to there, `Serving` up to the end of the loop, and
the properties about objects and registrations say which of the two they need.

### TimerList

A timer stands for the memory of a `Util_Timer`; after a delete it may be
allocated again. Freed nodes have their links reset in the model as the
constructor of the next one would. `Deadlines` come from `time()`, a clock that
may be set back, so additions may bring any of them. An adjustment puts a
deadline off: that is what the comment at `lst_timer.cpp:52` says of the callers,
not a test of the code. `main.cpp:248` gives it as long as the clock is not set
back between two events of one connection; what the list is after such a step is
not modelled. The two insertion
paths of `Add_Timer` and the three cases of `Adjust_Timer` and four of
`Del_Timer` are actions of their own. `Along` is the walk from one end, the
function `Forward` and `Backward` are made of.

`TimerQueue` says what the list is for: a timer joins behind all that expire no
later (`Place`), an adjustment takes it out and places it again.

### HttpIO

One object of `users[]` through any number of requests and clients. `pc` says
whose turn it is: epoll's, `Read`'s loop, a worker's, `Write`'s loop. Who may
have the turn is settled in `WebServer`; here it is the integers that count.

| Variables | Code |
|---|---|
| `pending`, `taken`, `longest` | the socket's receive buffer; what `recv` has returned since `Init()`, in all and at most |
| `ended` | whether the client has closed (FIN) or reset its connection |
| `readIdx`, `writeIdx`, `toSend`, `haveSent` | `m_read_idx_`, `m_write_idx_`, `m_bytes_to_send_`, `m_bytes_have_send_` |
| `iovCount`, `base`, `len` | `m_iv_count_`, `m_iv_` |
| `fileAddr`, `statSize` | `m_file_address_`, named after the mapped length; `m_real_file_stat_.st_size` |
| `again` | `errno`, left by `main`'s last call for whatever connection |
| `sent` | what the client is given, byte by byte |

Bytes of a response have an identity, so `sent` tells which bytes the client
got and not only how many. `m_bytes_have_send_ >= m_iv_[0].iov_len`, which
compares a total with a length already reduced, and `m_read_idx_` in the offset
are translated as they stand. A response of one vector that is cut twice, with
the total past what is left, makes the model call `writev` with nothing
described, for ever, as the code does;
`FileCompletes` is therefore about responses with a file, for which the second
vector gets all that is left.

`char` is signed on x86-64, where the binary in the repository was built. An
index below 0 would make `recv` write in front of the buffer, undefined
behaviour: `Recv` is not enabled there. The loop of `Read` ends in one of five
ways: nothing is left (`RecvNothing`; a full buffer with nothing behind it ends
there, too, and the next call of `Read` refuses); `recv` returns 0 or an error at
the end of the connection (`RecvEnd`); it returns 0 because it was asked for 0;
its count is truncated to 0; or to -1, which is what `errno` makes of it
(`Recv`). A client may end its connection at any time; `main` looks at that
first (`Hangup`), unless it came behind the events of the batch.

`Init()` leaves `m_iv_` and `m_iv_count_` as they are, and `Process_Write`
without a file leaves `m_iv_[1]`: `InitBuffers` and `Describe` do the same, so a
response starts with what the last one left. A connection may be closed in the
middle of a response and its object given to another client (`Reuse`).

Any file may be answered after any
bytes, as if requests could have every length; which request leads to which
answer is in `HttpRequest`. The composed response always fits its buffer
(the room is `WebServer`'s `ResponsesApart`).

### HttpRequest

One connection, its buffer and the two state machines. A request is a line, a
list of headers and a body; `Wire` is what the client sends, and `Read(n)`
delivers any first part of the rest. One action is one pass of the loop in
`Process_Read`, by the state and the line it finds: `RequestLine`,
`BadRequestLine`, one for each kind of header, `Content`; `NoLine` is its end.

| Variables | Code |
|---|---|
| `request`, `stream` | the client: what it wants, what of it is still to come |
| `read` | `m_read_buf_` up to `m_read_idx_`, with the NULs `Parse_Line` writes |
| `checked`, `start`, `check`, `contentLength`, `url`, `linger` | the members of these names |
| `lineOk` | the local `line_status` |
| `code`, `answer` | the `HTTP_CODE`, and status and `Connection` of the response |

A line's text is one token, as `Parse_Line` looks for CR and LF alone. Tokens:
the request lines by what their URL names, `Connection: keep-alive`,
`Content-Length: n`, `n Content-Length:` and any other header. The last two
differ in what `[0-9]*` finds: digits only where the line begins with them. Only
such a line leads to `CHECK_STATE_CONTENT`, which is otherwise dead code; it is
in the model so that `Parese_Content` is. `LINE_OPEN` and `LINE_BAD` have the
same effect, so a line that ends in a bare CR or LF waits for ever; `broken`
requests are in the model and the properties leave them out (`Proper`).
`Parse_Request_Line` and `Add_Headers` do not return a value at their ends: with
the build of `README.md:78`, which does not optimise, the caller gets what the
last expression left in the register, which is never `BAD_REQUEST`
(a part of an aligned address) and the result of `Add_Blank_Line`. Not modelled:
the text of a response and its lengths, which are far below
`WRITE_BUFFER_SIZE_`, a request that fills the read buffer, and
bytes sent before the last answer. `Read(n)` adds all n bytes: the properties
are about clients whose bytes are returned at most 127 at a time by `recv`, for
whom `ShortReadsCounted` of `HttpIO` says that `m_read_idx_` counts them all.

### IdleTimer

Times are the time left. The statement `timeout == true;` has no effect, so
`HandleAlarm` leaves `timeout` as it is; `EndBatch` has the branch that calls
`timer_handler` all the same. `Tick` uses a timer that its callback has freed:
`corrupt`. Accept and read are one action here: both set the deadline.

### EchoServer

| Variables | Code |
|---|---|
| `backlog`, `owner`, `toServer`, `toClient`, `reset` | the kernel: listen's queue, who is at the other end of a descriptor, the unread bytes, whose end has answered RST |
| `mpc`, `cfd`, `infos` | `main`: in `accept` or searching; its `cfd`; `infos[i].cfd` |
| `slot`, `tpc`, `recvBuf` | per thread: its `pinfo`, its place in `working`, its buffer |
| `exited` | the process has ended, by `exit` or a signal |
| `cpc`, `sent`, `got`, `cut`, `halved` | the clients; the last three are history |

A message is two pieces, the text and the rest up to its NUL, enough for a
`read` to return less than one message or more. `ThreadRead` overwrites the
front of `recvBuf` and leaves what is behind, as `read` does; `Echo` is the
`strlen(recvBuf) + 1` of line 51, which may run into those older bytes. What a
new thread finds in `recvBuf` is `Leftovers`: bytes that belong to no message
(`Junk`), or the stack of a thread that has ended, with its client's messages.
A client has no end of its own, so somebody
ends it (`Leave`), *quietly* if it sleeps with every echo read. The end of a
client that still has input answers RST, and so does every write to one that is
gone: a later `read` may return -1 (`exit(-1)`) and a later `write` may raise
SIGPIPE, which nothing in the program handles. RST and FIN may arrive in
either order, so both are choices. Descriptors are the lowest free ones, and
`close` frees them, whereas `infos[i].cfd` keeps the number.

`EchoesOwn` has two parts. What a client gets are echoes of its own messages, in
their order, each once, unless a message of it was
read in two parts (`cut`): the text without its NUL makes `strlen` go on, and
the client is sent a stale rest, which may be what another client wrote: on a
reused stack the code keeps no two clients apart. The second part: none of its
echoes is missing before the client has read
an *echo* in two parts (`halved`): one that has read the text and not yet the
NUL takes the echo for whole and sends the next message; when it reads the rest
of the first echo, it takes that for the second one and sends again. So two of
its messages may be under way, one `read` of the server returns both, and
`strlen` echoes only the first. It takes three messages to get that far, and a
fourth to notice. `EveryEchoed` excepts a client that has no
thread when `infos[]` is used up.

Not modelled: failures of the set-up, of `accept` and of `pthread_create`.

## 3. The runs

Twelve configurations. "pass" runs also have, for every property, a mutant: the
operators commented "Mutant of ..." state a plausible slip, and with it in
place of the original TLC finds the property violated.

| Run | Bounds | Shows |
|---|---|---|
| `ThreadPool` | 3 workers, 2 requests, `MaxRequests` 2, `delete pool` allowed; fairness | `QueueProtected`, `SemaphoreMatchesQueue`, `PopFindsRequest`, implements `RequestQueue`, `EveryRequestServed` |
| `Server` | 2 descriptors, 2 workers, a page that keeps alive and a request without a file that does not; responses of 2 units; fairness | `SingleOwner`, `OwnedIsLive`, `NoneStranded`, `ResponsesApart`, `RequestKept`, implements `RequestQueue`, `RequestAnswered`, `HangupClosed` |
| `ServerLimits` | 3 descriptors, `MAX_FD` 0, one event per `epoll_wait`, `Addfd` may fail, SIGTERM | `UserCountExact`, `DescriptorsOwned` |
| `TimerList` | 4 timers, 3 deadlines | `WellLinked`, `NothingDangles`, `Sorted`, implements `TimerQueue` |
| `HttpIO` | `READ_BUFFER_SIZE` 381, arrivals of 127 and 128 bytes, 256 unread, 382 in all; headers of up to 3 and files of up to 2 bytes; fairness | `ShortReadsCounted`, `ShortReadsClosed`, `CountsAgree`, `FirstWriteRight`, `MappedWhileSent`, `FileCompletes`, the range of the index |
| `HttpRequest` | 7 request lines, up to 2 of 4 headers, bodies of 3 bytes, at most one line with a bare CR or LF, all cuts | `LinesTaken`, `AnswerDue`, `NoneWaits` |
| `EchoServer` | 2 clients, 2 elements of `infos[]`, 3 messages of one client and 1 of the other (`Brief`); fairness | `ThreadsApart`, `EchoesOwn`, `QuietLeavesHarmless`, `EveryEchoed` |
| `ServerQueueFull` | 3 descriptors, `MAX_REQUESTS` 1 | violated: `ReadIsQueued` |
| `ReadCount` | `READ_BUFFER_SIZE` 512, arrivals of 127, 128, 255 and 256 bytes | violated: `AllIsRead` |
| `WriteOffset` | headers and files of up to 2 bytes, a read buffer of 4 | violated: `SentIsResponse` |
| `EchoSlots` | 3 clients, 2 elements of `infos[]` | violated: `RoomWhileFewRun` |
| `IdleTimer` | 2 connections, `TIMESLOT` 1, fairness | violated: `IdleClosed` |

**Why the bounds are enough.** The pool: three workers are two that compete for
the lock and one in `Process`; the queue runs full, and two requests are told
apart in any order. The server: with two descriptors one connection may use
another's old descriptor while the other is queued, held or in the same batch,
and two workers may hold both; `MAX_REQUESTS` 2 admits three waiting objects,
so the queue is never full there (the proofs do not assume that);
`ServerLimits` and `ServerQueueFull` make the limits bite. Responses of two units
are cut once. The timers: four are a first, a last and two between. `HttpIO`:
127/128 and 255/256 are the edges of the `char`, and pieces of 127 and 128 add up
to all of them; 381 is a buffer that three pieces of 127 bytes fill exactly and a
byte more overfills, a fifth of the code's 2048 (the proofs
hold for every size). Three bytes of headers can be cut twice, so that the total
overtakes the reduced length with a byte of the vector left, and two of a file
are cut at its ends and inside. The echo server: two clients are enough for one to get the
other's old descriptor while its thread still holds an element, and for one to
end the server under the other; three messages for a read that takes parts of
two and for a stale buffer, and one for whoever is there meanwhile. That an echo
may be missed after one that was read in two parts shows with four messages
only; that it is missed at no other time is proved for any number. `EchoSlots`
has one client more than elements. Requests:
two headers are one that is remembered and one that comes between it and the
end, a body of three bytes is the shortest that may
arrive incomplete behind a CR LF of its own; nothing of a request outlives
`Init()`, so requests follow each other without a bound. `BACKLOG`,
`MaxPending`, `MaxTaken`, `MaxHead`, `MaxFile`, `MaxHeaders`, `MaxMessages`,
`Brief` and `MaxTime` are the named bounds; the code's own limits (`MAX_FD`,
`MAX_EVENT_NUMBER`, `MAX_REQUESTS`, `READ_BUFFER_SIZE`, `MaxInfos`) are
constants.

Deadlock is checked only in `TimerList`. Elsewhere the system may stop: of
threads that use a destroyed pool nothing is said; a server without clients waits;
`main` ends; the index of `HttpIO` falls below 0; the echo server has ended.

**Fairness.** `ThreadPool`: threads run (weak fairness of each), and a thread
that waits for the mutex gets it if it is free again and again (strong
fairness); pthread mutexes hand over in practice, and nothing in the code holds
one for ever. `WebServer`: `main` and each worker are
threads that the system schedules; `ClientRead` is weakly fair because a client
that stays connected and never reads keeps its response waiting, which is not
the server's doing. Clients are not obliged to send, to connect or to leave.
`HttpIO`: `main` handles `EPOLLOUT` or the hangup, a `writev` that fails does
so, and if the socket has room again and again the loop writes; clients need not
send or end. `EchoServer`: `main` and every thread run while they
can, and a client reads what it waits for; nobody has to connect, to send or to
leave. `IdleTimer`: time passes, and `main` goes round.

## 4. What is proved

For all values of the constants that satisfy `PoolAssumption`:

| Theorem of `ThreadPoolProofs` | Property |
|---|---|
| `TypeCorrect`, `LockProtects`, `SemaphoreCounts`, `PopSucceeds` | the invariants of the run `ThreadPool` |
| `ImplementsQueue` | `Spec => RQ!Spec` |

The inductive invariant `IInv` joins the type, the lock, the semaphore's
identity, the bound of the abstract queue and what the threads' locals hold (`LocalsMatch`). None of
the properties is inductive alone: `PopFindsRequest` needs the semaphore's
identity, whose steps change the set of entitled workers by one member, which
needs the lock: only its holder looks at the queue. The identity is over
`Cardinality(Entitled)`, so the proof uses the library's facts about finite
sets. The branch of `Run` that finds the queue empty is shown to be dead.

For all values that satisfy `ServerAssumption`:

| Theorem of `WebServerProofs` | Property |
|---|---|
| `TypeCorrect` | `TypeOK` |
| `OneOwner`, `OwnersHoldLiveObjects` | `SingleOwner`, `OwnedIsLive` |
| `DescriptorsInStep`, `UsersCounted` | `DescriptorsOwned`, `UserCountExact` |
| `ResponsesStayApart`, `RequestsStay` | `ResponsesApart`, `RequestKept` |
| `NoneIsStranded` | `NoneStranded`, if the queue has room for all connections |
| `OnlyFullQueueStrands` | every step but a read that finds the queue full keeps `NoneStranded`, also while the queue is full |
| `ImplementsQueue` | `Spec => RQ!Spec` |

Here `IInv` is the type, `JobMatchesStage`, the ownership of objects
(`SingleOwner`, `OwnedIsLive`, `DescriptorsOwned`) and `BuffersInOrder`: what
each owner knows of the buffers it is handed. A connection armed for reading
has an incomplete request and an empty write buffer, a queued one an empty
write buffer, one armed for writing a composed response. Ownership and buffers
need each other: that a worker never closes a connection itself follows from
the empty write buffer, and that the buffer is still empty when the worker gets
there follows from nobody else owning the object. The proof has one step per
action. `UserCountExact` is proved above `IInv`, with the cardinality of the
registered descriptors, and assumes `Fds` finite.

`NoneStranded` does not hold for all constants, as the run `ServerQueueFull`
shows: `main` ignores what `Append` returns. What is proved is that nothing else
strands a connection. `OnlyFullQueueStrands` says it of every step, for any
limits: each passes on the connection it takes from its owner, to the batch, the
queue, a worker or back to epoll, or closes it, and takes no other's; the loop
over `events[]` is left only when the batch is empty (`BatchDone`).
`NoneIsStranded` says it of the server as a whole under a hypothesis: the queue
has room for all the descriptors there can be. The limits in the code do not give
that (`MAX_FD` is 65536, the queue takes 10001), the system's may: it holds
wherever the process can open no more than 10001 descriptors, as under the
common limit of 1024. Then the queue is never full, as no connection is queued
twice, which `SingleOwner` gives.

The proofs hold with a full queue, any number of threads and any limits, where
the runs look at small ones.

For all values that satisfy `IOAssumption`, the size of the read buffer among
them:

| Theorem of `HttpIOProofs` | Property |
|---|---|
| `TypeCorrect` | `TypeOK` |
| `ShortReadsExact`, `ShortReadsStay` | `ShortReadsCounted`, `ShortReadsClosed` |
| `CountersExact`, `FirstWriteCorrect` | `CountsAgree`, `FirstWriteRight` |
| `MappingHeld` | `MappedWhileSent` |

`IInv` is the type, split into flags, numbers and the bytes sent, which go to
different provers, the properties themselves and three facts: the bytes of a
request are bounded with those still to come (`InputBounded`), between two
responses nothing is sent (`NothingSent`), and `m_iv_` is as `Process_Write`
left it until the first `writev`, with a single vector never longer than what is
to be sent (`VectorsMatch`). That last bound keeps `writev` from taking more than
`m_bytes_to_send_` when there is no file; with one, `CountsAgree` itself does,
in both branches of the test that compares a total with a reduced length.
`SignedChar`, `Least`, `Bytes` and `Described` have lemmas of their own.
`FirstWriteRight` is inductive relative to `IInv`: a first write takes a prefix
of what `VectorsMatch` describes, and `Process_Write` sets in `m_iv_` all that
`writev` is going to look at, whatever lies in the rest. `ShortReadsClosed` adds
to the exact count the ways in which `Read` can end.

For all values that satisfy `EchoAssumption`:

| Theorem of `EchoServerProofs` | Property |
|---|---|
| `ThreadsStayApart` | `ThreadsApart` |
| `TypeCorrect` | `TypeOK` |
| `QuietLeaveEndsNothing` | `QuietLeavesHarmless` |

Its `IInv` follows a connection from
hand to hand: a client that has not connected has no descriptor and no thread
and is not queued, and nobody is queued twice (`InTurn`); the connection `main`
holds while it searches belongs to a client without a thread (`Accepted`); the
element of a running thread has its client's open descriptor (`Served`). That an
element with -1 is nobody's is what keeps `CreateThread` from taking a running
thread's; that an element may hold the number of a closed descriptor does no
harm because its thread has ended. `ThreadsApart` needs no more than that.

The other two need `StreamInv`, a second layer that is inductive relative to
`IInv`, about the bytes of a client as long as none of its messages was read in
two parts (`Balanced`): what is under way to the server is a sequence of whole
messages, so every read returns whole messages and is answered by one, the
first; what the client has read, what is under way in either direction and the
echo that is due add up to at most what it has sent. A client goes quietly only
only with as much read as it has sent, so nothing is due or under way then
(`LeftQuietly`), nothing is written to its closed connection, and whoever gets a
reset was killed (`ResetKilled`). The thread that meets the reset, in a failed
read or a write that raises SIGPIPE, is that of such a client.

| Theorem of `EchoOrderProofs` | Property |
|---|---|
| `EchoesStayOwn` | `EchoesOwn` |

`OrderInv` is a third layer, inductive relative to the two. It puts four streams
behind each other: what a client has read, what is on its way to it, the echo
that is due and what is on its way to the server (`Stream`). Every step but a
`read` moves pieces from one to the next, so their concatenation stays as it is;
a `read` of several messages drops all but the first. What is left is in
the order in which it was sent (`Orderly`), and as long as the client has read
every echo at once, there is at most one message in it that it has not got, so
nothing is dropped (`Complete`).

For all values that satisfy `TimerAssumption`:

| Theorem of `TimerListProofs` | Property |
|---|---|
| `TypeCorrect`, `Undangling`, `StaysSorted`, `StaysLinked` | `TypeOK`, `NothingDangles`, `Sorted`, `WellLinked` |
| `ListImplementsTimerQueue` | `Spec => ImplementsTimerQueue` |
| `ListInductive` | the invariant they follow from |

`IInv` says that there is a sequence of timers of which `head`, `tail`, `next`
and `prev` are the links (`Lists`): its elements are the timers in use, each
once, in the order of their deadlines, and the others lead nowhere. Each branch
of the three operations is shown to make the links those of the sequence with
one element taken out (`Removed`), put in (`Inserted`) or both. The other
properties are read off the sequence. That the walk `Along` the pointers finds
it again is shown without induction, which the prover cannot use: the walk is
the solution of its recursive equation, any two solutions agree, because there
is no least place where they differ, and the sequence is one (`LeastExists` of
`SequenceFacts` is what stands in for induction here and below). With it the
refinement mapping is known, and `InsertAt` and `RemoveAt` of the abstract queue are `Inserted` and
`Removed`.

For all values that satisfy `RequestAssumption`:

| Theorem of `HttpRequestProofs` | Property |
|---|---|
| `TypeCorrect` | `TypeOK` |
| `TakesLines` | `LinesTaken` |
| `AnswersAreDue`, `NoneIsLeftWaiting` | `AnswerDue`, `NoneWaits` |

The first half of the proof is about what a client sends (`WireFacts`):
`FlattenSeq` has a sequence of prefixes, and the i-th line of a request, up to
the first broken one, is three symbols behind 3(i - 1) others. The invariant
says that the buffer is what was sent, from `m_checked_idx_` on, and has no line
end in front of it (`Buffer`, `Agrees`), and names the places the parser can be
in (`Place`): in front of a line k, with what Parse_Head made of the
headers before it (`Seen`), behind the head, or done. What connects the two
is `LineIsWhole`: in front of line k the parser finds that line or none, and
none if it is broken; and `LineIsFound`: it finds one if all has been read.
Requests that are not `Proper` are in the invariant, too: that no byte of the
last request is left when the parser is reset has to be known of them.

**Only model-checked:** liveness (`EveryRequestServed`, `RequestAnswered`,
`HangupClosed`, `FileCompletes`, `EveryEchoed`), which with fairness and
`ENABLED` is out of the prover's reach, and the runs that find a violation.
Every invariant and every action property of the other runs is a theorem, and so
are both refinements of `RequestQueue` and the one of `TimerQueue`.

## 5. What the code does differently from its notes

1. `main.cpp:252` ignores the result of `Append`: with the queue full a request
   is read and its connection is never watched again (`ServerQueueFull`).
2. `main.cpp:227` compares instead of assigning: no connection ever times out
   (`IdleTimer`).
3. `http_conn.cpp:241` counts the place in the file from the request's length
   (`WriteOffset`).
4. `http_conn.cpp:176` keeps recv's result in a `char`: pieces of 128 bytes and
   more are miscounted or end the connection (`ReadCount`).
5. `server_thread_copy.c:54` ends a thread without giving its element of
   `infos[]` back: after 128 clients no other is served (`EchoSlots`).

Further, visible in the models; that it does not happen is not claimed by any
property, and no run is about it:

* `http_conn.cpp:490` finds no number in a `Content-Length` header, `stoi` throws
  and the process ends (`LengthHead`). `AnswerDue` and `NoneWaits` except these
  requests.
* `http_conn.cpp:239` compares the total sent with the rest of a vector: a
  response without a file that is cut twice, one byte and one byte of three, say,
  has its length set to 0 and keeps `main` in `Write` for ever (`Writev(0)`).
* `main.cpp:279` deletes `users[]` while threads use its objects (`UseFreed`), and
  `threadpool.h:70` sets a flag that ends none of them (`UseDestroyed`).
* `threadpool.h:78` compares with `>`: one request more may wait than
  `threadpool.h:25` says. `ImplementsRequestQueue` is about the capacity the code
  gives. The limit on clients has the same comparison (`main.cpp:185`).

And, smaller: `main.cpp:178` accepts once per edge (`AcceptConn`); `main.cpp:199` leaves a
descriptor, its object and its timer behind when `Addfd` fails
(`DescriptorsOwned` says that they stay together); a line that ends wrongly is
never answered, and neither is a body with a CRLF that arrives in pieces
(`NoneWaits` excepts both); `http_conn.cpp:548` leaves a file open when it
is empty; `http_conn.cpp:614` puts the title of 404 on a 403; a file mapped
for a client that went stays mapped, until the next response of the object
overwrites its address or `http_conn.cpp:561` unmaps it with the length of a
later `stat` (`inherited` in `HttpIO`, excepted from `MappedWhileSent`); an echo
client that leaves with an echo due may end the echo server for all
(`QuietLeavesHarmless` is about the others), and one whose message is read in two
parts may be sent another's (`EchoesOwn` excepts it).

## 6. What is not modelled, and the plan

Not modelled:

* `Cond`: nothing instantiates it. `serverbase/`: an earlier state, does not
  compile. webbench: vendored. The captures and pages.
* `servertest.cpp` and `clienttest.cpp`: one connection, one thread each, a
  straight line of blocking calls. What they demonstrate is the closing
  handshake of the kernel's TCP, which is not in this repository; a model of them
  would say nothing about their code.
* `Sort_Timer_List::Tick` on the pointers: never called, because of
  `main.cpp:227`. `IdleTimer` has what it would do to the timers (`corrupt`).
* The lengths of the lines of a response, far below the buffer's, and the
  descriptors of files. Requests that a client pipelines.
* Failures of the set-up of each program and of the pool's constructor: they end
  the process before it serves. `accept` and `pthread_create` of the echo server.

Done: `RequestQueue`, `ThreadPool`, `WebServer`; `TimerQueue`, `TimerList`;
`HttpIO`; `HttpRequest`; `IdleTimer`; `EchoServer`; and proofs about all of them
but `IdleTimer`. The plan for what is left, in order:

1. `HttpRequest` with clients that pipeline, and the descriptors of files.
2. Proofs: what of the runs with a violation does hold, as
   `OnlyFullQueueStrands` says of a full queue: that the bytes `Write` sends of
   a response without a cut are the response, and the elements of `infos[]`
   that are in use.
