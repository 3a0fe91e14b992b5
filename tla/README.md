# A specification of occasional

`occasional` runs Python functions as Linux processes that send each other
messages, in the manner of Erlang. A central process forks the others, keeps
one Unix socket pair to each, tells watchers when a process exits and why, and
introduces processes to each other. This directory holds TLA+ modules for its
concurrent core, the TLC configurations that check them on small instances,
and proofs checked by TLAPS. `PROJECT.json` lists the runs, the source lines
each definition stands for, the wrong variants (mutants) each property is
tested against, the findings, the hazards and the theorems.

## 1. Inventory of the system

| Component | State | Operations | Interacts through |
|---|---|---|---|
| central services (`occasional.py` `_central`) | `processes`, `process_monitoring`, `next_mref`, `process_name_registry`, `process_zero_exit` | one handler per message: process-exit, client-disconnected, top-level-exit, ping, spawn, spawn-monitor, connect-to; start and stop | its inbox queue, sends to clients, fork, waitid, kill |
| inbox (`occ/inbox.py`) | `q`, `q_buffer`, `connection_cache`, `connection_names`, `connection_flag` | `send`, `receive`, `attach_socket`, `remove_connection`, one `connection_handler` thread per socket, connecting through central, hello handshake | sockets, threads, the queue |
| sockets (`occ/sck.py`) | `_is_open`, the kernel's stream | netstring framing, `send_value`, `receive_value`, passing sockets, `close`, `detach_close`, `SocketServer` | streams |
| spawn (`occ/spawn.py`) | `exitcode` | `spawn_basic`, `spawned_process_wrapper`, `join`, `get_process_exitval`, `wait_spawn` | fork, waitid, socket pair |
| yeshup (`occ/yeshup.py`) | the parent-death signal | `yeshup_me` | kernel |
| user side (`occasional.py`) | the global inbox | `_spawn_fun`, `_spawn_monitor`, `_spawned_wrapper`, `_close_extra_filehandles`, `run_inbox`, `start`, `stop` | central's protocol |
| logging (`occ/logging.py`, `logging_process`) | handler buffer, its inbox | `emit`, `set_inbox`, `stop_logging` | the threads of a process; sends to `_logging` |
| test framework (`test_framework/test_framework.py`) | `num_running`, `in_queue`, the workers and their connections | `do_test_run`, `testcase_worker_wrapper` with its alarm, remote assertions, `test_server_handle` | sockets, signals, threads |
| sysquery, utils, examples | none | reading `/proc`, formatting | not modelled |

What makes each of them correct:

* **central**: it knows exactly the processes it must reap, reports each death
  once to the right watcher with the true exit value, survives the death of
  any client, ends with process zero and leaves nothing running.
* **inbox threads**: the messages of a process reach the queue in order and
  its disconnect comes last; no end of a stream is overlooked.
* **selective receive**: the first wanted message in order of arrival is
  returned, the others stay in their order; timeouts mean what they say.
* **connecting**: each side ends with one usable connection, the notices do
  not leak into user messages, messages of one sender stay in order.
* **framing**: whole values in order or an error, and an end of stream only at
  a boundary, whatever pieces the kernel makes of the stream.
* **spawn**: a truthful exit value, no wait that blocks for ever, and a tree of
  processes that dies with its root.
* **logging**: the records of a thread in order, none lost, and no thread that
  hangs because it logs.
* **test framework**: a test case that fails is recorded as failed before it is
  closed, every test case is closed, and the run ends.

The hard behaviours are deaths between any two steps, sends that race the end
of a stream, a socket closed under its reader thread, pids that are reused,
`join` blocking the only loop, alarms that fire in handlers, and two processes
that connect to each other at once. `PROJECT.json` `hazards` gives them with
their lines.

## 2. Modules

| Module | What it is |
|---|---|
| `Central` | central services, its reader threads, and the clients as central sees them |
| `CentralProofs` | proofs about `Central`: types, the table, the queue, monitors, and what central tells its clients: down messages, exit values, lost readers |
| `Mailbox` | abstract: what a selective receive promises |
| `Receive` | detailed: `Inbox.receive` with its three buffers; implements `Mailbox` |
| `ReceiveProofs` | proofs about `Receive`, the refinement among them |
| `Connect` | how user processes connect: `send`, the connection cache and flag, the reader threads, with central as one step per request |
| `ConnectProofs` | proofs about `Connect`: types, caches that agree, answers that do not leak, one connection between two processes, the order of messages |
| `Channel` | abstract: what `send_value` and `receive_value` promise |
| `Wire` | detailed: netstrings and sockets on a stream of bytes; implements `Channel` |
| `WireProofs` | proofs about `Wire`, the refinement among them |
| `Launch` | fork, the parent-death signal, the report of a process and the wait for it |
| `LaunchProofs` | proofs about `Launch` |
| `LogHandler` | the handler that buffers records and sends them to the logging process |
| `LogHandlerProofs` | proofs about `LogHandler` |
| `TestRun` | the run loop of the test framework, its workers, alarms and threads |
| `TestRunProofs` | proofs about `TestRun` |
| `Server` | inboxes that listen: the accept thread, the hello handshake, `close` |
| `ServerProofs` | proofs about `Server`: order, disconnects, and what a close leaves open |
| `MCCentral`, `MCReceive`, `MCConnect`, `MCServer`, `MCWire`, `MCLaunch`, `MCLogHandler`, `MCTestRun` | model values and symmetry for TLC |

The modules meet where the code does: a value that crosses a socket is one step
of `Central` and `Connect` and a netstring in `Wire`; the queue of an inbox is
`q` in `Central`, `box` (a `Mailbox`) in `Connect` and three buffers in
`Receive`; how a child ends is one step of the kernel in `Central` and the
report, the exit and the wait of `Launch`. Each module takes from its neighbour
what the neighbour's own properties say of it.

### Central

Variables follow the code: `processes` is the key set of the table, `exitVal`
the first exit value kept in it, `monitors` is `process_monitoring`, `q` the
queue of the inbox, `sock[p]` the entry of `p` in `connection_cache` (`shut`:
still in the cache but closed by a failed `send_value`), `reader[p]` the
`connection_handler` thread of `p` (`closing`: `remove_connection` done, the
notice not yet queued; `lost`: ended by an exception; `cut`: ended by a `recv`
that came back short). `os`, `status` and `open` are the kernel's: free, forked
and not past `yeshup_me`, running, or dead and not joined; the waitid status;
whether the process's end of the socket pair is open. `wire[p]` is what
the process has written and central has not read, `inbox[p]` the set of replies
written to it (a record for the properties, nothing reads it).

One action is one handler of the main loop, or one turn of one reader thread.
A handler is atomic because what the other threads and processes do between two
of its statements commutes with what it has done so far: a client that dies in
the middle of a handler is a client that dies before it, or after it, for each
send separately, and only the main loop writes its tables. `join` is the guard
`os[addr] = "zombie"` of `ReapProcess`: the loop stays at that message until the
process is dead.

A failed send is the point of most of the interesting behaviour.
`Socket.send_value` closes the socket when `sendall` fails. If that happens
before the reader thread has seen the end of the stream, the thread either
sees it (it was blocked in `recv`: `ReadEof`) or gets EBADF from its next `recv`
and ends without `remove_connection` and without the disconnect notice
(`ReadBadFd`).

Four more ways for things to go wrong are faults an instance may switch on. A
client killed while it writes leaves a torn message, and its reader thread ends on
an exception (`ReadTorn`). A value that does not load ends it too, with the socket
closed or, after an UnpicklingError, left open (`ReadGarbled`). When central is
stopped and continued while a reader is in the payload of a message,
`MSG_WAITALL` comes back short, and the reader of a client that lives, and has
written nothing wrong, is lost (`ReadShort`): central never listens to it again. And a
process that central has forked takes its time until it calls `yeshup_me` (`Arm`):
one that has not done so when central ends is not signalled and lives on (`Orphan`
in `SystemStops`).

Pids are reused: `ReapProcess` frees one, `Fork` may take it. That is what makes
the clean-up of the table and of the monitors a correctness question.

What is left out: the text of messages and exceptions; logging, except that the
branch for unrecognised messages sends to the logging process; what clients do
with replies (they may send the next request without waiting, which only adds
behaviours); sends that block because a stopped client's buffer is full; the
registered name `_central`, whose refusal is that of an unknown pid. Once the
loop has ended, what clients write is left out, for nobody reads it.

### Receive and Mailbox

`Receive` has `q`, `q_buffer` and `mid` (the local `mid_receive_buffer`); one
action is one turn of the loop: from the buffer, from the queue, or out of
time. A match function is the set of kinds it returns a value for, and may raise
on the kinds in `Raising`; it is called on `ReceiveTimeout()` too, and may raise
there (`"timeout"` in `Raising`), before the local buffer is put back. Timeouts come in three classes because the code
treats them so: `Infinity()`, `0` (for which `remaining_time` never runs out and
only `queue.Empty` ends the call) and any other number (which may have run out
whenever the loop comes round, whatever the queue holds). `Mailbox` is one
sequence; the refinement mapping is `box <- mid \o q_buffer \o q`. Its `Abort` and
`AbortLate` are what an exception of the match function amounts to: every message
up to the one it raised on is gone, or, when it raised on the timeout, every one
the call had looked at.

### Connect

`Connect` is the user side of an inbox: the user's thread goes through `send`
(`pc`: `cached`, `absent`, `await`, `connected`, `write`), while the thread on
central's socket attaches what arrives (`ReadNotice`) and then looks at
`connection_flag` (`CheckFlag`); these two are separate steps, and so are
`has_connection` and `get_connection`, because the lock is released in between.
`cache` is `connection_cache`, with 0 for no entry; each connection has a reader
thread of its own (`attached`), which outlives its place in the cache. `box` is
the queue in the sense of `Mailbox`: the receive of `connect_using_central`
takes the first notice, and loses what it skipped when it raises. An exception
brings the user's thread back to `idle`: whether the user catches it or the
process ends (`Die`) is left open. Central is one step per `connect-to`, as in
`Central`; callers that die before they are served are that module's matter.
A process that dies in the middle of a write makes the reader of the other end on
an exception, with the connection still in the cache (`HalfWritten`).
Names are left out: a registered name is attached and removed together with its
address. Pids are not reused. Values load, and nobody is stopped and continued
inside one: `Wire` and `Central` are about that.

### Server

`Server` is the other way for inboxes to find each other, which the tests and
examples of inboxes use: `make_with_server` listens, `default_connect` dials and
says hello, `default_accept_handler` reads the hello in a thread of its own, and
both sides attach the connection. `pc[p]` is where the user's thread is: in `send`
as in `Connect`, or in `close`, which ends the accept thread (`StartClose`), lists
the cache under the lock (`ListConnections`) and closes what it listed, one by one
(`CloseConnection`). `conns` are the connections in the order in which they
were made, `accepted` how far the target's threads are with each, `open` the
ends that are open, `stream` what is written to an end and not read.

Of TCP the module takes this: the kernel of the target completes a connection
before anyone accepts it, and resets those not accepted when the listening
socket is closed; the first write to an end that was closed may still succeed,
a later one fails; what arrived before the end is read before it; and a socket
closed by another thread ends the `recv` that is going on (`ReadEnd`) or makes the
next one raise (`ReadClosed`). Whole values go through it, as `Channel` promises,
except that a process may die in the middle of writing one (`torn`): the reader
at the other end stops on an exception, leaves the connection in the cache and tells
nobody (`ReadTorn`). That a value does not load, or that a process is stopped and
continued inside one, is left to `Wire` and `Central`.
Each inbox has `disconnect_notify` set, for nothing is told otherwise, and one
user thread.

### Wire and Channel

`Wire` is one direction of a socket. `stream` is what the kernel holds, `left[w]`
what thread `w` has still to write of its netstring, `reading` what
`read_netstring` has collected. A netstring is a digit, a colon, `Size` bytes and
a comma; the socket that follows a `have-a-connection` message is one more
symbol. A symbol is the message it belongs to and its place in it, from 1 to
`Total`; `Is` tells what stands at that place. The kernel takes up to `Chunk` symbols at once and never a part of what
would fit (`WriteChunk`), so that short values are written in one piece and long
ones are not. The reader takes one symbol at a time (`ReadSymbol`, which
abstracts the three `recv` calls) and the socket by itself (`ReadSocket`). A
stream ends closed or reset (`CloseEnd`), and a signal or a stop makes a `recv`
with `MSG_WAITALL` come back short (`Interrupt`, then `ReadShort`). A value in
`Unloadable` arrives whole and does not unpickle (`Loads`): the reader ends, with
the socket open or closed.

`Channel` is a queue of whole values that may be `disturbed`: only then, or when
the next value is one that does not load, may the reader end on an error. The refinement mapping takes the completely written and
not yet received values for the queue; a variable of the detailed module says
what disturbs it: two threads in each other's message, a message cut short, a
`recv` that came back short.

The length prefix is one digit and the payload a count of bytes: its parsing is
pure, and the property that matters, that a reader never takes one message for
another, is about where messages begin and end. A payload made of two messages
does not unpickle (`Whole`).

### Launch

One module for `spawn_basic`, `spawn_with_socket`, `spawned_process_wrapper`,
`yeshup_me`, `join`, `wait_spawn` and `run_inbox`. `stage[p]` is where a process
is, `holds[p]` the ends of socket pairs it has open: a fork copies them all, the
parent closes its copy of the child's own, and the end of a stream comes only
when nobody holds it. `missed` are the processes whose parent was dead when they
called `yeshup_me` (`Unarmed`). `status` is what waitid tells, with the exit code
cut to eight bits. `answers[c]` is what the waits for `c` have returned, in
order, because a second wait finds the report gone. A process started by
`run_inbox` is in `central`; `join` and the read are two steps, in the order of
the code, and a report larger than `Capacity` cannot be written until it is
read. A report may also be one that pickles and does not unpickle (`unloadable`):
the wait that reads it raises, and the next one finds the socket open or closed.

Left out: what central does in between (module `Central`), and the closing of
inherited descriptors by `_close_extra_filehandles` in the processes central
starts.

### LogHandler

The threads of one process call `emit` under the lock of `logging.Handler`
(`lock`); `set_inbox` does not take it, so its loop over the buffer, which sees
what is appended meanwhile (`SendBuffered`), the end of the loop and `Clear` are
separate steps of the main thread. `Reader` is the thread that reads what central
answers. The connection to the logging process goes from `up` to `broken` (the
next send raises) to `removed` (its thread has taken it out of the cache, and
`Inbox.send` dials again in a user process; central raises). A record remembers
how it came to be where it is (`via`), for the properties only; `lost` is what no
variable of the code holds any more.

### TestRun

`phase`, `pos`, `running` and `in_queue` are those of `do_test_run`, with
`launch_task` as the operator `LaunchTask`. `at[t]` follows
`testcase_worker_wrapper`: the body of the test, in the middle of an assertion's
send, the two exception handlers, the finally clause. `Alarm` may fire in each of
them; what it does there follows from Python's handlers, `TimeoutException` being
raised where the worker is: `send_value` closes the socket when it is interrupted,
the handler it interrupts is left; in the test itself a bare `except`, such as those
of `Socket.close`, may swallow it, and the test goes on without an alarm
(`Unlimited`). `jobs` may be 0, as with `-j 0`: no worker is started, and the run ends
without having run anything. `helper[t]` is the connection of a process the
test has started. The server's threads (`Serve`) put what arrives into the queue.
`recorded` and `ended` are what the database says of a test case.

Left out: the test tree and its filters, discovery, the printing of results,
suites and their opening and closing messages, which the main process writes by
itself between two messages of the loop.

## 3. Runs

`Central`: constants bound the instance: `Pid`, `Askers` (who writes requests),
`MaxRequests` (requests they write together), `Modes` (started by `run_inbox`,
`start` or both), and which `Kinds`, `Statuses`, `Returns` and `Faults` occur. Three pids (process
zero, logging, one more) are enough for a watcher, a watched process and a pid
that is used again. Each request can start one process or cause one reply, so
two of them reach every handler with every client alive, dying or dead. What
`central` leaves out is in `central_live`: spawns without a monitor, connects, pings, messages to the
logging process, the client that closes its inbox and lives on, the central that is
stopped and continued, and the child that has not yet called `yeshup_me`.
`central_live`, which checks liveness, leaves out what costs most: core dumps,
reports, torn writes (which take the same path through the reader as a short read),
`start`, and requests under the pid of the logging process, which itself writes
none; in `central` that pid, and the others, may be anyone's after a reuse, and a
monitor that outlives its watcher would be seen. The death of the launcher of
`run_inbox` (`launcher`) is in no run: it kills central and all of its tree at
once. The proofs cover every kind, status and fault.

Types are checked by `central` only; for the other modules they are proved
(`TypesCorrect`).
Deadlock checking is off everywhere: the systems really stop.

| Run | Instance | Shows |
|---|---|---|
| `central` | 3 pids, 2 requests, both modes; 4.3 million states | monitored spawns, with pids used again, exits, reports, core dumps, torn writes and values that do not load: table, readers and queue agree (`TableInv` is the inductive invariant of the proofs), monitors have live ends, every down message matches a spawned-ok the same process got, down messages and the result carry the true exit value, and the loop breaks only while serving a client that is itself gone, or on a core dump |
| `central_live` | 3 pids, 2 requests | spawns, monitored or not, connects, pings, messages to the logging process, values that cannot be loaded, clients that close their inbox and live on, a central stopped and continued, children not yet armed; under fairness deaths are reported, connects are answered whatever the target does, and the system stops with process zero, but for children it had not armed; a reader is lost only for a client that is gone, wrote what does not load, or was writing when central was stopped |
| `receive` | 3 kinds, 4 messages, 3 calls | refinement of `Mailbox` with a match function that may raise, on one kind and on the timeout, order of arrival, and calls that come back |
| `connect` | 3 processes, 3 sends | two processes that send to each other, one of which also sends to a third, one may die: the order of messages, no leaked answers, both sides with the same connection, sends that return and messages that arrive |
| `server` | 2 processes, 3 sends; one may be closed, the other may die, also in the middle of a write | inboxes that dial each other: order and disconnects as long as they have not crossed, what a close leaves open, messages that arrive, deaths that are noticed |
| `wire` | 2 threads; two short values, of which one does not load, one longer than a chunk, one with a socket | refinement of `Channel`; short values never mix; everybody comes out of a send or the reader has stopped on an error |
| `launch` | 3 processes, reports, loadable or not, of 1 and 2 with room for 1, codes 1 and 256, SIGKILL and a core dump, two waits each | what a wait answers is true and it raises with a reason only; the tree dies with its root; a wait returns |
| `logs` | 3 threads, 2 records each | the order and the loss of records around `set_inbox`, `stop_logging` and the death of the logging process, and who may hang |
| `testrun` | 2 test cases, no job, 1 or 2 | `num_running` and the end of the run, every failure recorded before its test case is closed, and the run ends |

Why the bounds are enough. `receive`: three messages are needed for a skip
behind a skip, the fourth arrives during a later call. `connect`: a crossing
needs a send of each side, and a third shows what it leaves behind; what more
sends do to the order is in the proofs, which have no bound. `server`: two sends
cross, and a third goes over the connection that is left, or finds the other
side gone (a second dial to it is refused); each exception its properties make
is reached, and the proofs have no bound. `wire`: the
long value needs two writes, which is what another thread can get into, and
the stream is shorter than two values, so writers wait for room. `launch`: a
chain of two forks gives a grandchild that inherits a socket and a parent in the
middle; the third wait for a process behaves like the second (the socket stays
closed). `logs`: two records are needed to overtake, three threads for the main
one, the reader and another. `testrun`: with two test cases and one job a worker
is launched by the end of another; with two jobs two workers run at once; none is
`-j 0`, of which a negative number is no different.

Fairness. In `Central` the reader threads, the main loop and the shutdown are
threads of one process that nothing stops, and the kernel delivers parent-death
signals: weak fairness for each. User processes get none; they may stop, die or
stay. In `Receive` the calling thread goes on, the senders owe nothing. In
`Connect` a thread inside `send`, the reader threads and central go on, and
nobody has to send, receive or die; `Arrives` says "from some point on" of a run
with a bounded number of sends: whatever was written is read. In `Server` a call
of `send` or `close` goes on, and so do the accept thread and the readers; nobody
has to send, close or die. In `Wire` each
thread in a send goes on, and the reader; nobody has to begin. In `Launch` a
process goes on with what the code makes it do and the kernel delivers its
signals; the function it runs may run for ever. In `LogHandler` a thread that
logs goes on, one fairness condition each, since each is a thread of its own.
In `TestRun` the main loop, each server thread and each worker outside the test
go on, and an alarm that is set goes off; a test need not end by itself.

The liveness properties name the cases in which the code does not keep the
promise: a reader that is lost, a client that detached and lives on
(`DeathReported`, `ConnectAnswered`, `SystemStops`), a child that central's end has
overtaken (`SystemStops`), a peer that died inside a value or whose connection a
failed write had closed (`DeathNoticed`), a report that does not fit (`WaitReturns`), a
descendant that missed its parent's death (`TreeDies`, `WaitReturns`), a reader
that stopped on an error (`AllSettles`), the reader thread that logs once the
logging process is gone (`LogReturns`), a worker that is killed, hit by its alarm
outside the test, or that swallows it (`RunEnds`).
`SendReturns` counts an exception as a return; `ConnectAnswered` asks for an answer
about the same process, which one who asks twice may have had before.

### Where the code does not do what the repository says

| Run | Finding |
|---|---|
| `central_broken` | a caller killed between `connect-to` and its answer ends central (occasional.py:275), which the comment at 272-275 says should not happen |
| `connect_reordered` | two processes that send to each other for the first time at once get two connections; a message written on the second can overtake one written on the first (README:85-87) |
| `launch_blocked` | `run_inbox` joins central before it reads the result; a result larger than the socket buffer blocks both for ever (occasional.py:626-628) |

Seven more disagreements are visible in the models and are stated there as the
exceptions of properties, without a run of their own:

* A process killed in the middle of writing a message loses its reader thread,
  and its watcher is never told (README:78-79: "whatever the reason");
  `DeathReported` excepts it.
* If central writes to process zero just after its death, process zero's reader
  may be lost and the system does not end (occasional.py:41-43); `SystemStops`
  excepts it.
* A match function that raises, on a message or on `ReceiveTimeout()`, loses the
  messages skipped so far, where README:150-151 has unmatching messages left in the
  queue: `Abort` and `AbortLate` of `Mailbox`.
* Central and its processes are meant to be stopped and continued
  (occasional.py:93-95). Central may lose the reader of a client by it:
  `LostWithReason` and `DeathReported` except it.
* Everything should stop with process zero (occasional.py:41-43), but a child that
  has not called `yeshup_me` when central ends lives on, as the comment in
  yeshup.py:17-19 fears: `SystemStops` and `TreeDies` except it.
* An alarm that goes off in the handler of the test's own exception makes the
  worker report nothing, which the comment at test_framework.py:566-570 says it
  prevents: `mishap` in `FailuresRecorded`.
* `close` should close all the cached connections (the todo at inbox.py:110). It
  closes those it finds; one whose handshake is still going on is attached
  afterwards and stays open, and its peer goes on writing to it: `CloseCloses`
  excepts it, and a connection that a crossing has pushed out of the cache.

`SenderOrderUncrossed` and `NoticesAwaited` say how far the damage of crossed
connects goes: it needs a process and another that ask for each other, but it
then reaches third processes. The answer of the second connect may stay in
the queue, where it is given to the user as a message, or makes the next
connect raise; that one leaves its own answer behind, and the send after it may
make a second connection to an innocent target. So the order is stated for two
processes neither of which has crossed with anyone. That the pair has not crossed
with each other is not enough (five sends); nor is it that the sender has not
crossed: with p3 sending to p1 as well, p1 may make a second connection to p3,
on which the next message of p3 overtakes (six sends; TLC finds neither with the
three sends of `connect`, the second one showed in the attempt to prove the
property).

Two smaller observations. `join` expects an exit or a kill (spawn.py:140) and
raises on a core dump, which breaks the loop: the last disjunct of
`BreaksOnlyOnGoneClient`. And when process zero has been joined the loop is left
before its entry is deleted, so the kill list of the shutdown holds a pid that
has already been reaped (occasional.py:300): `TableExact` is stated for the
running loop only. The hang of the reader thread in `LogReturns` needs a record
logged by a reader thread; these log at level INFO, which is off by default.

## 4. Proofs

TLAPS checks all of them, for every value of the constants, from the named
assumptions alone (`CentralAssumption`, `ReceiveAssumption`, `ConnectAssumption`,
`ServerAssumption`, `WireAssumption`, `LaunchAssumption`, `LogAssumption`,
`TestRunAssumption`). They say what kind of value a constant is; two say more:
`WireAssumption` has the kernel take at least two symbols at once and hold at
least what it takes at once, and no message is the value `None`. Every invariant
and every action property that a passing run checks is also a theorem, and so
are both refinements.

`CentralProofs`: for every set of pids, every number and kind of request and
every fault,

* `TypeCorrect`: `Spec => []TypeOK`, one step per action, over lemmas for what
  the helpers return (`MsgType`, `RepType`, `AfterSendType`, `SpawnedType`,
  `ForgetType`...).
* `TableInvariant`: `Spec => []TableInv`. `TableExact` and `SendersRegistered`
  are not inductive: to see that the sender of a queued message is still in the
  table when an older message removes a process, one needs that a disconnect is
  the last message of its process in the queue (`DisconnectLast`), for which one
  needs that its reader is over (`ReaderOver`) and that clients do not write
  disconnects themselves (`WiresOwn`); `DisconnectQueued` says that a reader
  that is over has its disconnect in the queue as long as the process is in the
  table. Lemmas carry the argument, one per way of touching the queue:
  `ConsumeKeeps`, `ForkKeeps`, `ForgetKeeps`, `QueueKeeps`; `OthersKeep` is for
  the steps that leave it alone.
* `TableExactCorrect`, `SendersRegisteredCorrect`, `MonitorsLiveCorrect`: the
  invariants themselves. `SendersRegistered` is the absence of the KeyError of
  the process-exit handler; it is a conjunct of `TableInv` and has no run entry
  of its own.

Over these invariants, in the same module:

* `DownMatchesSpawnCorrect`: whoever has a monitor was told of it under its
  reference (`Told`); a fork takes a pid that is in no monitor (`ForkFresh`).
* `LostWithReasonCorrect`, `BreaksOnlyCorrect`: a stream that is torn or a
  socket that is shut belongs to a client that is gone or has been given up
  (`Gone`), and a reader that was cut has the rest of the message before it
  (`CutShorts`), so neither a reader nor a send fails over a client that is there
  and whose message was not cut.
* `DownTruthfulCorrect`, `ResultTruthfulCorrect`: an exit value on its way is what
  the process left (`Written`), and one that was left cannot get lost: it is
  unread, queued, or in the table until the process is (`Pending`). For the
  result, the main loop ends with what process zero left (`Lefts`).

`ReceiveProofs`: for every set of kinds and every number of messages and calls,

* `TypesCorrect`, over the invariant `Inv`, which is `TypeOK` and what a call
  has skipped (`Skips`): the messages in `mid` are none that the call wants.
* `RefinesMailbox`: `Spec => ImplementsMailbox` with `box <- mid \o q_buffer \o q`.
  A turn that skips a message moves it from the head of one buffer to the end of
  another and is a stutter (`Regroup`, `Examined`); one that matches takes from
  the middle of the concatenation the first element that is wanted, which is
  where `Skips` is needed (`Takes`); one that raises is `Abort` (`Aborts`), or, on
  the timeout, `AbortLate`, with what the call had skipped for the prefix that is
  lost (`AbortsLate`). The
  sequence lemmas `Joined`, `Pushed`, `Cut` and `Middle` say what indices become
  under concatenation.
* `OrderOfArrival`: `Spec => []InOrder`. Removing an element or a prefix keeps a
  sequence ordered (`Removed`, `RemovedOrdered`, `RestOrdered`), and an arriving
  message is newer than all others.

`ConnectProofs`: for every set of processes and number of sends, whoever may die,

* `TypesCorrect`: there are at most as many connections as sends, which needs a
  count of the requests that are still to be written and handled (`Counted`, over
  the cardinality of `Asking`); an answer names a connection (`Named`).
* `CachesAgreeCorrect`: of two living processes, what the one will have in its
  cache when it has read the answers under way is what the other will have
  (`Agreed`). Central writes both answers in one step, and each reads them in
  order.
* `NoticesAwaitedCorrect`: a process that has not crossed has at most one answer
  to its own request, in exactly one place, from its request to the queue, and none
  when its thread does not wait (`Outstanding`); the other notices announce
  connections that others have asked for (`Foreign`).

* `SenderOrderUncrossedCorrect`. Two uncrossed processes have one connection at
  most (`Single`): who has a connection, or an answer that tells of it, has it in
  the cache when it comes to look, because all answers a thread at rest has not
  read are for connections that others have asked for (`Remembered`, `AskOnce`). What leads a
  process to a connection leads it to one with the right process (`Links`). Then
  numbers grow from what was received over the inbox to the stream (`Orders`).
  The lemmas on sequences (`FewerElements`, `AnotherElement`, `HigherElement`)
  are used by the steps that take and append.

`ServerProofs`: for every set of processes and number of sends, whoever is closed
or dies,

* `TypesCorrect`, over the invariant `Inv`: the connections are counted against
  the sends that may still make one (`Counted`); what the cache, the user's thread
  and the readers hold are connections between the right two (`Linked`); a hello
  is the first value of its connection and is read before a reader thread looks
  (`Greets`); a thread that sends has not used up its numbers (`Writes`).
* `GoneTruthfulCorrect`: a connection is broken only between two of which one no
  longer listens (`Broken`); with that, a reader that comes to an end has something
  true to tell.
* `OrderUncrossedCorrect`: as long as both listen, a process dials another once
  (`Once`), because behind a connection of its own there is an entry in its cache
  or its own attempt under way (`Remembers`), so that one who finds none has not
  dialled (`NotAgain`). Two that have not crossed therefore have one
  connection, and numbers grow from the box over the stream to what was written
  last (`Ordered`).
* `GoneLastCorrect`: when the notice of an end is in the box, nothing of what
  connected the two is read any more (`Finished`), and what is over stays so
  (`OverStays`).
* `CloseClosesCorrect`: an open end of an uncrossed connection is in the cache, in
  the hands of the dialling thread or in its handshake (`AllKnown`); so `close` lists
  it or comes in the middle of the handshake.

`WireProofs`: for every set of threads, messages, sizes and capacities,

* `TypesCorrect`, over `Inv`: what a thread has left is an end of its message
  (`Suffixes`), no two threads write the same message, and nothing is written twice
  (`Histories`).
* `ShortIsAtomicCorrect`: if all messages begun are short, no thread is ever
  inside one (`Atomic`, from `OnePiece`).
* `ImplementsChannelCorrect`: `Spec => ImplementsChannel`. The invariant is about
  the line, which is `reading \o stream`. While the reader goes on, symbols of a
  message come in order (`InOrder`), each behind the one before it (`Consecutive`),
  and a reader that has symbols of one message only has its first ones
  (`HalfRead`); the messages whose last symbol is on the line are those written and
  not received, in this order (`Queued`). As long as nothing disturbs the line one
  message follows another, and its end awaits the thread that is inside a message
  (`Tidy`); once something has, there is a cut on the line or the line ends inside
  a message (`Cut`). So a value that is delivered is the first of the queue
  (`FirstIs`), which uses that a payload made of two messages does not unpickle;
  an undisturbed reader finds what it looks for (`NextFits`), so that an error
  needs a disturbance or a value that does not load (`ErrorIs`); and a reader that finds the end at a boundary
  has received everything, undisturbed (`EndIs`). A value that is complete and does
  not load is the first of the queue as well (`CompleteIs`), so that its error is
  one the channel allows (`OddNext`). A step of the line is one of
  five (`LineStep`): nothing, a start, a piece at the end (`Grown`), a close, or
  symbols of one message taken off (`Dropped`).

`LaunchProofs`: for every set of processes, every size of report, exit code and
signal,

* `TypesCorrect`, over the invariant `Inv`: where a process is tells how much of
  its report it has written and how it has ended (`Ways`), and a report is read
  once (`Answered`).
* `OkIsTruthfulCorrect`, `RaisesWithReasonCorrect`: an answer is about a process
  that is reaped and does not change any more (`AnswersStay`), so only the answer
  that a step adds has to be true (`AnswerTrue`): for the first read because an
  exit that is no signal has written the whole report, for a later one because
  `Answered` says that an answer before it told how the process ended
  (`ReadTrue`), or raised over a report that does not unpickle (`ReportOf`).

`LogHandlerProofs`: for every set of threads and number of records,

* `TypesCorrect`, `InOrderCorrect`: the invariant splits the records into those
  received and those the buffer still has (`SentFirst`), each in order, all older
  than the record its thread deals with (`AllOlder`). A direct send comes after
  all received ones by `Newest`; it may come before a buffered one of its thread,
  but not of the main one, of which the buffer has none by then (`MainFirst`).
* `LostOnlyLateCorrect`, `RaisesOnlyForOthersCorrect`: from `Healthy`, which says
  that the handler has its inbox from `set_inbox` on, so that what comes after the
  end of the loop was meant for the buffer before, and `Stopping`.

`TestRunProofs`: for every number of test cases and jobs,

* `TypesCorrect`, `CountsWorkersCorrect`: a worker says once, and last, that it
  has ended (`SentLast`, `QueuedOnce`), so the end that is handled is that of a
  worker that counted.
* `FailuresRecordedCorrect`, over `InvF`, which adds that nothing is left on a
  connection whose end was read (`Quiet`), that only an alarm in a send closes one
  (`Opened`), and that a failure is being handled, or on its way in front of the
  end, or recorded (`Reported`).

Only model-checked: liveness (fairness and ENABLED are outside the prover), that is
`DeathReported`, `SystemStops` and `ConnectAnswered` (`Central`), `SendReturns` and
`Arrives` (`Connect`), `Arrives` and `DeathNoticed` (`Server`), `AllSettles` (`Wire`),
`TreeDies` and `WaitReturns` (`Launch`), `CallReturns` (`Receive`), `LogReturns`
(`LogHandler`) and `RunEnds` (`TestRun`). The ancestors in `Launch` (`Above`) are
recursive data, about which the prover cannot do induction. `Wire` numbers the
symbols of a netstring instead of building it up recursively for that reason.

## 5. Not modelled

* **Server sockets** over Unix addresses (`make_unix_socket_server`: the same
  code), and a `bind` that fails; **inboxes without `disconnect_notify`**, which
  differ in that nothing is told.
* **The global inbox** (`start`, `stop`, `get_global_inbox`) and
  **`_close_extra_filehandles`** in `_spawned_wrapper`: whether a socket that
  arrives between the listing of descriptors and their closing is lost depends on
  the numbers the kernel gives to descriptors, and the listing is a library's.
* **`make_connection`** differs from `send` in looking the target up by its
  address only; **reuse of pids in `Connect`** is left to `Central`, where it
  matters for tables: a user process keeps a connection to a pid until its reader
  thread sees the end of it.
* **A receive inside a match function** of another: it would share `q_buffer`
  with a call that is going on; nothing in the repository does it.
* **What the logging process prints**, and the wording of messages and
  exceptions.
* **Test discovery, the test tree, filters and printing** of the test framework:
  pure functions over the tree, without state that outlives them.
* **sysquery, utils, examples**: pure input, formatting, and programs that use
  the system.
