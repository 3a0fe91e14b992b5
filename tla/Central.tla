------------------------------- MODULE Central -------------------------------
(****************************************************************************)
(* The central services process of occasional: occasional.py `_central`,    *)
(* with the inbox reader threads it runs (occ/inbox.py) and the processes   *)
(* it supervises, seen through their end of the socket pair, their request  *)
(* messages and their death.                                                *)
(*                                                                          *)
(* One reader thread per client moves messages from that client's socket    *)
(* into the queue q; the main loop takes one message at a time.  A handler  *)
(* of the main loop is one action: what the other threads and processes do  *)
(* between two of its statements commutes with the statements before it.    *)
(*                                                                          *)
(* A pid is free again once central has joined its process, so the next     *)
(* fork may reuse it.                                                       *)
(****************************************************************************)
EXTENDS Integers, Sequences, FiniteSets

CONSTANTS
    Pid,          \* the pids the kernel hands out
    P0,           \* process zero
    Log,          \* the logging process, registered as "_logging"
    Modes,        \* bound: the values of is_top_level_user_process
    Askers,       \* bound: the processes that write requests
    MaxRequests,  \* bound: how many they write altogether
    Kinds,        \* bound: the kinds of request they write
    Statuses,     \* bound: the ways a process may die
    Returns,      \* bound: the exit values the processes report
    Faults        \* bound: what else may go wrong

RequestKinds == {"ping", "spawn", "spawn-monitor", "connect-to",
                 "top-level-exit", "other"}
Reports      == {"ok", "error"}              \* ("process-exit", addr, v0, v1)
OsStatuses   == {"exitcode-0", "exitcode-n", "signal", "dumped"}
\* torn:     a client dies while it is writing a message
\* garbled:  a client writes a value central cannot load
\* detach:   a client closes its inbox and lives on
\* launcher: the process that called run_inbox dies
\* stopped:  central is stopped and continued while it reads a message
\* unarmed:  a process takes its time until it calls yeshup_me
FaultKinds   == {"torn", "garbled", "detach", "launcher", "stopped", "unarmed"}

ASSUME CentralAssumption ==
    /\ P0 \in Pid /\ Log \in Pid /\ P0 # Log
    /\ Modes \subseteq BOOLEAN
    /\ Askers \subseteq Pid /\ MaxRequests \in Nat
    /\ Kinds \subseteq RequestKinds
    /\ Statuses \subseteq OsStatuses
    /\ Returns \subseteq Reports
    /\ Faults \subseteq FaultKinds

None      == "none"
NoMref    == -1
LogName   == "_logging"
ExitVals  == Reports \cup OsStatuses

\* What a client writes to central, and what its reader thread queues.
MessageTypes == RequestKinds \cup {"process-exit", "client-disconnected",
                                   "torn", "garbled"}
Message ==
    {m \in [type : MessageTypes, from : Pid,
            arg : Pid \cup Reports \cup {None, LogName}] :
       /\ m.type = "process-exit" => m.arg \in Reports
       /\ m.type = "connect-to" => m.arg \in Pid \cup {LogName}}
Msg(t, p, a) == [type |-> t, from |-> p, arg |-> a]

\* What central sends to a client.
Reply ==
    [type : {"pong", "spawned-ok", "spawn-error", "have-a-connection",
             "connection-error", "down"},
     who  : Pid \cup {None},
     mref : Nat \cup {NoMref},
     val  : ExitVals \cup {None}]
Rep(t, w, r, v) == [type |-> t, who |-> w, mref |-> r, val |-> v]

VARIABLES
    \* the operating system
    os,         \* free, forked: yeshup_me is still to come, running, or zombie:
                \* dead and not yet joined
    status,     \* how the process died, as waitid tells it
    open,       \* the processes whose end of the socket pair is open
    \* the clients
    report,     \* the exit value a process has written to central
    wire,       \* what a process has written and central has not read
    inbox,      \* what central has written to a process
    sent,       \* how many requests have been written
    \* central's inbox and reader threads
    sock,       \* the process's entry in connection_cache
    reader,     \* the connection_handler thread of the process
    q,          \* Inbox.q
    \* central's main loop
    central,    \* running, stopping: left the loop, exited, broken: left by
                \* an exception, killed: by its parent-death signal
    processes,  \* the keys of the processes table
    exitVal,    \* the first exit value kept in the table
    monitors,   \* process_monitoring
    nextMref,   \* next_mref
    exitZero,   \* process_zero_exit
    result,     \* what was sent on the result socket
    topLevel    \* started by start(), P0 is the launcher itself; otherwise
                \* by run_inbox(f), P0 is spawned and runs f; never changes

osVars      == <<os, status, open>>
clientVars  == <<report, wire, sent>>
readerVars  == <<reader, sock, q>>
tableVars   == <<processes, exitVal, monitors, nextMref>>
endVars     == <<exitZero, result, topLevel>>
vars == <<os, status, open, report, wire, sent, inbox, sock, reader, q,
          central, processes, exitVal, monitors, nextMref, exitZero,
          result, topLevel>>

Monitor == [by : Pid, of : Pid, mref : Nat]

TypeOK ==
    /\ os \in [Pid -> {"free", "forked", "running", "zombie"}]
    /\ status \in [Pid -> OsStatuses \cup {None}]
    /\ open \in SUBSET Pid
    /\ report \in [Pid -> Reports \cup {None}]
    /\ wire \in [Pid -> Seq(Message)]
    /\ inbox \in [Pid -> SUBSET Reply]
    /\ sent \in Nat
    /\ sock \in [Pid -> {"none", "open", "shut"}]
    /\ reader \in [Pid -> {"none", "reading", "closing", "lost", "cut"}]
    /\ q \in Seq(Message)
    /\ central \in {"running", "stopping", "exited", "broken", "killed"}
    /\ processes \in SUBSET Pid
    /\ exitVal \in [Pid -> Reports \cup {None}]
    /\ monitors \in SUBSET Monitor
    /\ nextMref \in Nat
    /\ exitZero \in ExitVals \cup {None}
    /\ result \in ExitVals \cup {None}
    /\ topLevel \in BOOLEAN

----------------------------------------------------------------------------
(* Starting: the logging process is spawned and registered, then process    *)
(* zero is spawned, which may fail, or attached.                            *)

IsLauncher(p) == topLevel /\ p = P0

\* What a process is when it has been forked.
Started == IF "unarmed" \in Faults THEN "forked" ELSE "running"

Init ==
    /\ topLevel \in Modes
    /\ processes \in IF topLevel THEN {{Log, P0}} ELSE {{Log, P0}, {Log}}
    /\ os = [p \in Pid |-> IF p \notin processes THEN "free"
                           ELSE IF IsLauncher(p) THEN "running" ELSE Started]
    /\ status = [p \in Pid |-> None]
    /\ open = processes
    /\ report = [p \in Pid |-> None]
    /\ wire = [p \in Pid |-> <<>>]
    /\ inbox = [p \in Pid |-> {}]
    /\ sent = 0
    /\ sock = [p \in Pid |-> IF p \in processes THEN "open" ELSE "none"]
    /\ reader = [p \in Pid |-> IF p \in processes THEN "reading" ELSE "none"]
    /\ q = <<>>
    /\ central = IF P0 \in processes THEN "running" ELSE "stopping"
    /\ exitVal = [p \in Pid |-> None]
    /\ monitors = {}
    /\ nextMref = 0
    /\ exitZero = IF P0 \in processes THEN None ELSE "error"
    /\ result = None

----------------------------------------------------------------------------
(* The clients.                                                             *)

Write(p, m) == wire' = [wire EXCEPT ![p] = Append(@, m)]

\* send("_central", ...): it raises once central has closed the socket.  What
\* is written when the loop has ended is never looked at, and left out.
CanWrite(p) ==
    /\ central = "running"
    /\ os[p] = "running" /\ p \in open /\ sock[p] = "open"

Arguments(kind) == IF kind = "connect-to" THEN Pid \cup {LogName} ELSE {None}

\* A user process sends central a request.  That it may send the next one
\* before it has the answer only adds behaviours.
Request(p) ==
    /\ CanWrite(p) /\ report[p] = None
    /\ p \in Askers /\ sent < MaxRequests
    /\ sent' = sent + 1
    /\ \/ \E kind \in Kinds : \E a \in Arguments(kind) :
            Write(p, Msg(kind, p, a))
       \/ "garbled" \in Faults /\ Write(p, Msg("garbled", p, None))
    /\ UNCHANGED <<osVars, readerVars, tableVars, endVars,
                   report, inbox, central>>

\* spawned_process_wrapper: the user function has returned a value or raised,
\* and the exit value is written just before the process ends.
Report(p) ==
    /\ CanWrite(p) /\ report[p] = None /\ ~IsLauncher(p)
    /\ \E v \in Returns :
         /\ report' = [report EXCEPT ![p] = v]
         /\ Write(p, Msg("process-exit", p, v))
    /\ UNCHANGED <<osVars, readerVars, tableVars, endVars,
                   sent, inbox, central>>

Alive(p) == os[p] \in {"forked", "running"}

CentralDeadInOrder == central \in {"exited", "killed"}
CentralDead == central \in {"exited", "broken", "killed"}

\* yeshup_me in a spawned process, before anything else.  Whether central is
\* still there is not looked at; that it calls it after central's death would
\* change nothing, and is left out.
Arm(p) ==
    /\ os[p] = "forked" /\ ~CentralDead
    /\ os' = [os EXCEPT ![p] = "running"]
    /\ UNCHANGED <<status, open, clientVars, readerVars, tableVars, endVars,
                   inbox, central>>

Dead(p, st) ==
    /\ Alive(p)
    /\ os' = [os EXCEPT ![p] = "zombie"]
    /\ status' = [status EXCEPT ![p] = st]
    /\ open' = open \ {p}

\* A process exits, or is killed, at any point; it runs before it exits.  (Once
\* central has ended see CentralGone.)
Die(p) ==
    /\ central = "running"
    /\ \E st \in Statuses :
         Dead(p, st) /\ (os[p] = "forked" => st \in {"signal", "dumped"})
    /\ UNCHANGED <<clientVars, readerVars, tableVars, endVars, inbox, central>>

\* A process is killed in the middle of the sendall of a message.
TornWrite(p) ==
    /\ "torn" \in Faults /\ CanWrite(p) /\ report[p] = None
    /\ Dead(p, "signal")
    /\ Write(p, Msg("torn", p, None))
    /\ UNCHANGED <<readerVars, tableVars, endVars, report, sent, inbox, central>>

\* A user process calls Inbox.close on its inbox and goes on running.
Detach(p) ==
    /\ "detach" \in Faults /\ central = "running"
    /\ os[p] = "running" /\ p \in open
    /\ open' = open \ {p}
    /\ UNCHANGED <<clientVars, readerVars, tableVars, endVars,
                   os, status, inbox, central>>

----------------------------------------------------------------------------
(* The reader threads: Inbox.connection_handler, one per client.  They run  *)
(* until central ends, but what they queue once the loop has ended is never *)
(* looked at, and left out.                                                 *)

\* A whole value is read and queued.
ReadValue(p) ==
    /\ central = "running"
    /\ reader[p] = "reading" /\ sock[p] = "open" /\ wire[p] # <<>>
    /\ Head(wire[p]).type \notin {"torn", "garbled"}
    /\ wire' = [wire EXCEPT ![p] = Tail(@)]
    /\ q' = Append(q, Head(wire[p]))
    /\ UNCHANGED <<osVars, tableVars, endVars, report, sent, inbox, central,
                   reader, sock>>

\* A partial frame and then the end of the stream raise NetstringException:
\* the thread ends and the socket stays in the cache, open.
ReadTorn(p) ==
    /\ central = "running"
    /\ reader[p] = "reading" /\ sock[p] = "open" /\ wire[p] # <<>>
    /\ Head(wire[p]).type = "torn"
    /\ reader' = [reader EXCEPT ![p] = "lost"]
    /\ UNCHANGED <<osVars, clientVars, tableVars, endVars, inbox, central,
                   sock, q>>

\* When central is stopped and continued, MSG_WAITALL comes back with the part
\* of the payload that is there: NetstringException, as for a torn message,
\* although the rest is still to come.
ReadShort(p) ==
    /\ "stopped" \in Faults /\ central = "running"
    /\ reader[p] = "reading" /\ sock[p] = "open" /\ wire[p] # <<>>
    /\ reader' = [reader EXCEPT ![p] = "cut"]
    /\ UNCHANGED <<osVars, clientVars, tableVars, endVars, inbox, central,
                   sock, q>>

\* A value that does not load ends the thread.  An UnpicklingError leaves the
\* socket as it is, any other exception closes it.
ReadGarbled(p) ==
    /\ central = "running"
    /\ reader[p] = "reading" /\ sock[p] = "open" /\ wire[p] # <<>>
    /\ Head(wire[p]).type = "garbled"
    /\ reader' = [reader EXCEPT ![p] = "lost"]
    /\ sock' \in {sock, [sock EXCEPT ![p] = "shut"]}
    /\ UNCHANGED <<osVars, clientVars, tableVars, endVars, inbox, central, q>>

\* The end of the stream at a message boundary: close, remove_connection.
\* A thread that was blocked in recv sees it even when a failed send has shut
\* the socket meanwhile.
PeerClosed(p) == p \notin open
EndOfStream(p) == p \notin open /\ wire[p] = <<>>
ReadEof(p) ==
    /\ central = "running"
    /\ reader[p] = "reading" /\ EndOfStream(p)
    /\ sock' = [sock EXCEPT ![p] = "none"]
    /\ reader' = [reader EXCEPT ![p] = "closing"]
    /\ UNCHANGED <<osVars, clientVars, tableVars, endVars, inbox, central, q>>

\* A failed send of the main loop has closed the socket under the thread:
\* its next recv raises, and the thread ends.
ReadBadFd(p) ==
    /\ central = "running"
    /\ reader[p] = "reading" /\ sock[p] = "shut"
    /\ reader' = [reader EXCEPT ![p] = "lost"]
    /\ UNCHANGED <<osVars, clientVars, tableVars, endVars, inbox, central,
                   sock, q>>

\* The last act of the thread: disconnect_notify.
LastWordsTwice(p) == [i \in 1..2 |-> Msg("client-disconnected", p, None)]
LastWords(p) == <<Msg("client-disconnected", p, None)>>
NotifyDisconnect(p) ==
    /\ central = "running"
    /\ reader[p] = "closing"
    /\ reader' = [reader EXCEPT ![p] = "none"]
    /\ q' = q \o LastWords(p)
    /\ UNCHANGED <<osVars, clientVars, tableVars, endVars, inbox, central, sock>>

ReaderStep(p) ==
    \/ ReadValue(p) \/ ReadTorn(p) \/ ReadGarbled(p)
    \/ ReadEof(p) \/ ReadBadFd(p) \/ NotifyDisconnect(p)

----------------------------------------------------------------------------
(* The main loop.                                                           *)

\* Inbox.send of central, which never connects: it raises when the client has
\* left the cache, and a write that fails closes the socket (send_value).
CanSend(p) == sock[p] = "open" /\ p \in open
AfterSendAllShut(S) ==
    [p \in Pid |-> IF p \in S /\ sock[p] = "open" /\ ~(\A r \in S : CanSend(r))
                   THEN "shut" ELSE sock[p]]
AfterSend(S) ==
    [p \in Pid |-> IF p \in S /\ sock[p] = "open" /\ p \notin open
                   THEN "shut" ELSE sock[p]]
Deliver(p, m) == [inbox EXCEPT ![p] = @ \cup {m}]

\* A send whose failure breaks the loop, and the safe_send of central.
MustSend(p) == central' = IF CanSend(p) THEN central ELSE "broken"
SafeSendUncaught(S) ==
    central' = IF \A p \in S : CanSend(p) THEN central ELSE "broken"
SafeSend(S) == UNCHANGED central

Receive(type) ==
    /\ central = "running" /\ q # <<>> /\ Head(q).type = type
    /\ q' = Tail(q)

HandleProcessExit ==
    /\ Receive("process-exit")
    /\ LET addr == Head(q).from IN
       /\ exitVal' = IF addr \in processes
                     THEN [exitVal EXCEPT ![addr] = Head(q).arg]
                     ELSE exitVal
       /\ central' = IF addr \in processes THEN central
                     ELSE "broken"                             \* KeyError
    /\ UNCHANGED <<osVars, clientVars, endVars, inbox, sock, reader,
                   processes, monitors, nextMref>>

\* The exit value central gives out: the reported one, else what join saw.
ExitOfStatus(p) == IF status[p] # None THEN status[p] ELSE exitVal[p]
ExitOf(p) == IF exitVal[p] # None THEN exitVal[p] ELSE status[p]

WatchedBy(p) == {m \in monitors : m.by = p}
Watched(p) == {m \in monitors : m.of = p}
DownsFor(w, p) == {Rep("down", p, m.mref, ExitOf(p)) :
                     m \in {n \in Watched(p) : n.by = w}}

\* A monitor goes when either of its ends does.
MonitorsWithoutOf(p) == {m \in monitors : m.of # p}
MonitorsWithout(p) == {m \in monitors : m.by # p /\ m.of # p}

\* The down messages, with safe_send, then the clean up of both tables.
ForgetNothing(addr) ==
    /\ inbox' = [w \in Pid |-> IF CanSend(w)
                               THEN inbox[w] \cup DownsFor(w, addr)
                               ELSE inbox[w]]
    /\ sock' = AfterSend({m.by : m \in Watched(addr)})
    /\ SafeSend({m.by : m \in Watched(addr)})
    /\ processes' = processes
    /\ exitVal' = [exitVal EXCEPT ![addr] = None]
    /\ monitors' = MonitorsWithout(addr)
ForgetProcess(addr) ==
    /\ inbox' = [w \in Pid |-> IF CanSend(w)
                               THEN inbox[w] \cup DownsFor(w, addr)
                               ELSE inbox[w]]
    /\ sock' = AfterSend({m.by : m \in Watched(addr)})
    /\ SafeSend({m.by : m \in Watched(addr)})
    /\ processes' = processes \ {addr}
    /\ exitVal' = [exitVal EXCEPT ![addr] = None]
    /\ monitors' = MonitorsWithout(addr)

\* The launcher is not joined, and its exit value is None.
LauncherDisconnected ==
    /\ Receive("client-disconnected")
    /\ Head(q).from \in processes /\ IsLauncher(Head(q).from)
    /\ central' = "stopping"
    /\ exitZero' = None
    /\ UNCHANGED <<osVars, clientVars, tableVars, inbox, sock, reader,
                   result, topLevel>>

\* join blocks the loop until the process is dead, reaps it, and raises when
\* it dumped core.  When it was process zero the loop ends, and its entry
\* stays in the table.
ReapProcess(addr) ==
    /\ os[addr] = "zombie"
    /\ os' = [os EXCEPT ![addr] = "free"]
    /\ \/ /\ status[addr] = "dumped"
          /\ central' = "broken"
          /\ UNCHANGED <<inbox, sock, processes, exitVal, monitors, exitZero>>
       \/ /\ status[addr] # "dumped" /\ addr = P0
          /\ exitZero' = ExitOf(addr)
          /\ central' = "stopping"
          /\ UNCHANGED <<inbox, sock, processes, exitVal, monitors>>
       \/ /\ status[addr] # "dumped" /\ addr # P0
          /\ ForgetProcess(addr)
          /\ UNCHANGED exitZero

HandleDisconnected ==
    /\ Receive("client-disconnected")
    /\ ~IsLauncher(Head(q).from)
    /\ IF Head(q).from \in processes
       THEN ReapProcess(Head(q).from)
       ELSE UNCHANGED <<os, inbox, sock, processes, exitVal, monitors,
                        central, exitZero>>
    /\ UNCHANGED <<status, open, clientVars, reader, nextMref,
                   result, topLevel>>

HandleTopLevelExit ==
    /\ Receive("top-level-exit") /\ topLevel
    /\ central' = "stopping"
    /\ UNCHANGED <<osVars, clientVars, tableVars, endVars, inbox, sock, reader>>

\* An unguarded send to the client: when it fails central breaks.
Answer(p, m) ==
    /\ inbox' = IF CanSend(p) THEN Deliver(p, m) ELSE inbox
    /\ MustSend(p)

HandlePing ==
    /\ Receive("ping")
    /\ Answer(Head(q).from, Rep("pong", None, NoMref, None))
    /\ sock' = AfterSend({Head(q).from})
    /\ UNCHANGED <<osVars, clientVars, tableVars, endVars, reader>>

\* spawn_process_internal: fork, attach the socket, start its reader thread.
Fork(new, ret) ==
    /\ os[new] = "free"
    /\ os' = [os EXCEPT ![new] = Started]
    /\ status' = [status EXCEPT ![new] = None]
    /\ open' = open \cup {new}
    /\ report' = [report EXCEPT ![new] = None]
    /\ wire' = [wire EXCEPT ![new] = <<>>]
    /\ reader' = [reader EXCEPT ![new] = "reading"]
    /\ sock' = [AfterSend({ret}) EXCEPT ![new] = "open"]
    /\ processes' = processes \cup {new}
    /\ exitVal' = [exitVal EXCEPT ![new] = None]

\* The reply to a spawn that went through.  When the caller is gone the
\* exception handler sends again, and that send raises out of the loop.
Spawned(new, ret, mref) ==
    /\ Fork(new, ret)
    /\ inbox' = [p \in Pid |->
           IF p = new THEN {}
           ELSE IF p = ret /\ CanSend(ret)
           THEN inbox[p] \cup {Rep("spawned-ok", new, mref, None)}
           ELSE inbox[p]]
    /\ MustSend(ret)

\* The function is not callable, or fork fails.
SpawnFailed(ret) ==
    /\ Answer(ret, Rep("spawn-error", None, NoMref, None))
    /\ sock' = AfterSend({ret})
    /\ UNCHANGED <<os, status, open, report, wire, reader, processes, exitVal,
                   monitors, nextMref>>

HandleSpawn ==
    /\ Receive("spawn")
    /\ LET ret == Head(q).from IN
       \/ /\ \E new \in Pid : Spawned(new, ret, NoMref)
          /\ UNCHANGED <<monitors, nextMref>>
       \/ SpawnFailed(ret)
    /\ UNCHANGED <<sent, endVars>>

AddMonitorEarly(by, of) ==
    /\ nextMref' = nextMref + 1
    /\ monitors' = monitors \cup {[by |-> by, of |-> of, mref |-> nextMref - 1]}
AddMonitor(by, of) ==
    /\ nextMref' = nextMref + 1
    /\ monitors' = monitors \cup {[by |-> by, of |-> of, mref |-> nextMref]}

\* The monitor is in the table before the reply is sent.
HandleSpawnMonitor ==
    /\ Receive("spawn-monitor")
    /\ LET ret == Head(q).from IN
       \/ \E new \in Pid :
            Spawned(new, ret, nextMref) /\ AddMonitor(ret, new)
       \/ SpawnFailed(ret)
    /\ UNCHANGED <<sent, endVars>>

\* lookup_proc_by_name: the registry is never cleaned, so its name resolves
\* whether or not the process is still in the table.  ("_central" resolves to
\* central's own pid, which is refused as an unknown pid is.)
Resolve(nm) == IF nm = LogName THEN Log ELSE nm
Known(nm)   == nm = LogName \/ nm \in processes

ToCallerOnSuccess(ok, to) ==
    IF ok THEN {Rep("have-a-connection", to, NoMref, None)} ELSE {}
ToCaller(ok, to) ==
    IF ok THEN {Rep("have-a-connection", to, NoMref, None)}
          ELSE {Rep("connection-error", to, NoMref, None)}
ToTarget(ok, from) ==
    IF ok THEN {Rep("have-a-connection", from, NoMref, None)} ELSE {}

\* Both sides get a have-a-connection and one end of a new socket pair.
HandleConnect ==
    /\ Receive("connect-to")
    /\ LET from  == Head(q).from
           to    == Resolve(Head(q).arg)
           found == Known(Head(q).arg) /\ Known(from)
           ok    == found /\ CanSend(to)
       IN
       /\ inbox' = [p \in Pid |-> inbox[p]
             \cup (IF p = to THEN ToTarget(ok, from) ELSE {})
             \cup (IF p = from /\ CanSend(from) THEN ToCaller(ok, to) ELSE {})]
       /\ sock' = AfterSend({from} \cup IF found THEN {to} ELSE {})
       /\ MustSend(from)
    /\ UNCHANGED <<osVars, clientVars, tableVars, endVars, reader>>

\* Anything else is logged, which is a send to the logging process whose
\* failure the log handler swallows.
HandleOther ==
    /\ \/ Receive("other")
       \/ Receive("top-level-exit") /\ ~topLevel
    /\ sock' = AfterSend({Log})
    /\ SafeSend({Log})
    /\ UNCHANGED <<osVars, clientVars, tableVars, endVars, inbox, reader>>

MainStep ==
    \/ HandleProcessExit \/ LauncherDisconnected \/ HandleDisconnected
    \/ HandleTopLevelExit \/ HandlePing \/ HandleSpawn \/ HandleSpawnMonitor
    \/ HandleConnect \/ HandleOther

----------------------------------------------------------------------------
(* Stopping.                                                                *)

\* The registry keeps the logging process's pid, alive or not.
ToKill == {p \in processes : ~IsLauncher(p) /\ p # Log}

\* kill_it on the table, then the result; the processes killed stay zombies.
Shutdown ==
    /\ central = "stopping"
    /\ os' = [p \in Pid |-> IF p \in ToKill /\ Alive(p)
                            THEN "zombie" ELSE os[p]]
    /\ status' = [p \in Pid |-> IF p \in ToKill /\ Alive(p)
                                THEN "signal" ELSE status[p]]
    /\ open' = open \ ToKill
    /\ result' = IF topLevel THEN result ELSE exitZero
    /\ central' = "exited"
    /\ UNCHANGED <<clientVars, readerVars, tableVars, inbox, exitZero, topLevel>>

\* yeshup_me in central: it is killed when its parent dies.
LauncherGone ==
    /\ central \in {"running", "stopping"}
    /\ IF topLevel THEN os[P0] # "running" ELSE "launcher" \in Faults
    /\ central' = "killed"
    /\ UNCHANGED <<osVars, clientVars, readerVars, tableVars, endVars, inbox>>

\* yeshup_me in the spawned processes: the kernel signals every child of
\* central that has called it, when central is gone.  The others live on.
CentralGone ==
    /\ CentralDead
    /\ LET children == {p \in Pid : os[p] = "running" /\ ~IsLauncher(p)} IN
       /\ children # {}
       /\ os' = [p \in Pid |-> IF p \in children THEN "zombie" ELSE os[p]]
       /\ status' = [p \in Pid |-> IF p \in children THEN "signal"
                                   ELSE status[p]]
       /\ open' = open \ children
    /\ UNCHANGED <<clientVars, readerVars, tableVars, endVars, inbox, central>>

----------------------------------------------------------------------------
Next ==
    \/ \E p \in Pid :
         \/ Arm(p) \/ Request(p) \/ Report(p) \/ Die(p) \/ TornWrite(p)
         \/ Detach(p) \/ ReaderStep(p) \/ ReadShort(p)
    \/ MainStep
    \/ Shutdown
    \/ LauncherGone
    \/ CentralGone

\* The threads of central and the kernel's signals go on; user processes
\* promise nothing.
Fairness ==
    /\ \A p \in Pid : WF_vars(ReaderStep(p))
    /\ WF_vars(MainStep)
    /\ WF_vars(Shutdown)
    /\ WF_vars(topLevel /\ LauncherGone)
    /\ WF_vars(CentralGone)

Spec == Init /\ [][Next]_vars
FairSpec == Spec /\ Fairness

----------------------------------------------------------------------------
(* Properties.                                                              *)

Queued == {q[i] : i \in DOMAIN q}

\* While the loop runs, the process table holds exactly the pids the kernel
\* still holds for us, running or not yet joined: no child runs outside the
\* table, and no entry names a pid that a later fork may be given (which
\* kill_it would then kill).
TableExact ==
    central = "running" => processes = {p \in Pid : os[p] # "free"}

\* Whatever is queued comes from a process in the table, although pids are
\* reused and the table is cleaned while older messages are still queued: the
\* KeyError in the process-exit handler cannot happen, and "if addr in
\* processes" never fails.
SendersRegistered ==
    central = "running" => \A m \in Queued : m.from \in processes

\* Both ends of every monitor are in the process table, so that a reused pid
\* never inherits the monitors of the process that had it before.
MonitorsLive ==
    \A m \in monitors : m.by \in processes /\ m.of \in processes

\* The inductive invariant behind TableExact, SendersRegistered and
\* MonitorsLive.
\* A client's messages carry its own pid and none is a disconnect; a disconnect
\* is the last message of its process in the queue, and its reader is over;
\* every reader has its process in the table; a process whose reader is over,
\* and not lost, still has its disconnect queued, so that no reader ends without
\* telling the loop, which would never join the process.
WiresOwn ==
    \A p \in Pid : \A i \in 1..Len(wire[p]) :
        wire[p][i].from = p /\ wire[p][i].type # "client-disconnected"
ReadersRegistered == \A p \in Pid : reader[p] # "none" => p \in processes
QueueRegistered == \A i \in 1..Len(q) : q[i].from \in processes
ReaderOver ==
    \A i \in 1..Len(q) :
        q[i].type = "client-disconnected" => reader[q[i].from] = "none"
DisconnectLast ==
    \A i, j \in 1..Len(q) :
        i < j /\ q[i].type = "client-disconnected" => q[j].from # q[i].from
DisconnectQueued ==
    \A p \in processes :
        reader[p] = "none" =>
            \E i \in 1..Len(q) : q[i].type = "client-disconnected" /\ q[i].from = p
TablesAgree ==
    /\ processes = {p \in Pid : os[p] # "free"}
    /\ ReadersRegistered /\ QueueRegistered /\ ReaderOver /\ DisconnectLast
    /\ DisconnectQueued
TableInv ==
    /\ WiresOwn /\ MonitorsLive
    /\ central = "running" => TablesAgree

\* A client that wrote what central cannot load, which has been read.
GivenUp(p) ==
    reader[p] = "lost" /\ wire[p] # <<>> /\ Head(wire[p]).type = "garbled"

\* Central was stopped and continued in the middle of a message of p.
CutShort(p) == reader[p] = "cut" /\ wire[p] # <<>>

Lost(p) == reader[p] \in {"lost", "cut"}

\* A reader is lost to an error only when its client is gone, wrote what central
\* cannot load, or was writing when central was stopped and continued: nothing
\* another client does, and no send of central to a client that is there, makes
\* central stop listening to it.
LostWithReason ==
    central = "running" =>
        \A p \in processes : Lost(p) => p \notin open \/ GivenUp(p) \/ CutShort(p)

\* Every down message a process gets is for a process it was told it monitors,
\* under the reference it was given, whoever had the pid before.
DownMatchesSpawn ==
    \A p \in Pid : \A d \in inbox[p] :
        d.type = "down" =>
            Rep("spawned-ok", d.who, d.mref, None) \in inbox[p]

\* What the process left behind: the value it wrote, else what waitid says.
TrueExit(p) == IF report[p] # None THEN report[p] ELSE status[p]

\* A down message is sent only for a process that is dead, and carries the
\* value that process reported if it reported one, although the report and
\* the end of the stream go through a socket, a thread and a queue.
DownTruthful ==
    [][\A p \in Pid : \A d \in inbox'[p] \ inbox[p] :
         d.type = "down" => os[d.who] = "zombie" /\ d.val = TrueExit(d.who)]_vars

\* The value run_inbox gets is process zero's own.
ResultTruthful ==
    central = "exited" /\ ~topLevel /\ P0 \in processes =>
        result = TrueExit(P0) /\ os[P0] = "free"

\* The loop breaks only while it serves a client that is itself gone or given
\* up, or joins a process that dumped core: the death of a third process, the
\* target of a connect-to or the watcher of a down, never breaks it.
BreaksOnlyOnGoneClient ==
    [][central = "running" /\ central' = "broken" =>
         \/ /\ Head(q).type # "client-disconnected"
            /\ Head(q).from \notin open \/ GivenUp(Head(q).from)
         \/ status[Head(q).from] = "dumped"]_vars

\* A client that closed its inbox and lives on blocks the loop in join.
Blocked == \E p \in processes : os[p] = "running" /\ p \notin open

\* The reader of the process that w was told it monitors under reference r.
ReaderLostOf(w, r) ==
    \E n \in Pid : Rep("spawned-ok", n, r, None) \in inbox[w] /\ Lost(n)

\* The watcher of a process that dies is told, unless it dies itself, the
\* system ends, the loop is blocked, or the reader of one of the two is lost.
DeathReported ==
    \A w \in Pid, r \in 0..(MaxRequests - 1) :
        (\E n \in Pid : [by |-> w, of |-> n, mref |-> r] \in monitors /\ os[n] = "zombie")
        ~> \/ \E d \in inbox[w] : d.type = "down" /\ d.mref = r
           \/ w \notin open \/ central # "running" \/ Blocked
           \/ Lost(w) \/ ReaderLostOf(w, r)

\* A process that asks for a connection to another gets an answer about it, a
\* connection or an error, unless it dies, its reader is lost, the system ends
\* or the loop is blocked: whatever the target does meanwhile.  (Who asks twice
\* for the same one may have had the answer before.)
ConnectAnswered ==
    \A p \in Pid : \A to \in Pid \ {p} :
        (\E i \in DOMAIN wire[p] :
            wire[p][i].type = "connect-to" /\ Resolve(wire[p][i].arg) = to)
        ~> \/ \E m \in inbox[p] :
                 m.type \in {"have-a-connection", "connection-error"} /\ m.who = to
           \/ p \notin open \/ central # "running" \/ Blocked \/ Lost(p)

\* A process that central forked and that had not called yeshup_me when central
\* ended.
Orphan(p) == os[p] = "forked" /\ CentralDead

AllStopped == \A p \in Pid : Alive(p) => IsLauncher(p) \/ Orphan(p)

\* When process zero has died, and its reader is not lost, everything stops,
\* but for the orphans.
SystemStops ==
    ~Alive(P0) ~> AllStopped \/ Lost(P0) \/ Blocked

----------------------------------------------------------------------------
(* What the repository says of this process and the code does not do.       *)

\* occasional.py:274: "central should not break" when a process that is party
\* to a connection has exited in the meantime.
CentralUnbroken == central # "broken"
=============================================================================
