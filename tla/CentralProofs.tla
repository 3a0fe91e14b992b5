--------------------------- MODULE CentralProofs ---------------------------
(****************************************************************************)
(* Theorems about Central, for every set of pids, every number and kind of  *)
(* requests, every way of dying and every fault of the model.  First types, *)
(* the table, the queue and monitors, then what central tells its clients.  *)
(****************************************************************************)
EXTENDS Central, SequenceTheorems, TLAPS

----------------------------------------------------------------------------
(* Types.                                                                   *)

LEMMA MsgType ==
    ASSUME NEW p \in Pid, NEW t \in MessageTypes,
           NEW a \in Pid \cup Reports \cup {None, LogName},
           t = "process-exit" => a \in Reports,
           t = "connect-to" => a \in Pid \cup {LogName}
    PROVE  Msg(t, p, a) \in Message
BY DEF Msg, Message

LEMMA RepType ==
    ASSUME NEW t \in {"pong", "spawned-ok", "spawn-error", "have-a-connection",
                      "connection-error", "down"},
           NEW w \in Pid \cup {None}, NEW r \in Nat \cup {NoMref},
           NEW v \in ExitVals \cup {None}
    PROVE  Rep(t, w, r, v) \in Reply
BY DEF Rep, Reply

LEMMA ConnectReplyType ==
    ASSUME NEW ok, NEW p \in Pid
    PROVE  /\ ToCaller(ok, p) \in SUBSET Reply
           /\ ToTarget(ok, p) \in SUBSET Reply
<1>1. Rep("have-a-connection", p, NoMref, None) \in Reply
  BY RepType
<1>2. Rep("connection-error", p, NoMref, None) \in Reply
  BY RepType
<1> QED
  BY <1>1, <1>2 DEF ToCaller, ToTarget

LEMMA ReceiveType ==
    ASSUME TypeOK, NEW t, Receive(t)
    PROVE  /\ Head(q) \in Message /\ Head(q).from \in Pid
           /\ q' \in Seq(Message)
<1>1. Head(q) \in Message /\ q' \in Seq(Message)
  BY DEF TypeOK, Receive
<1> QED BY <1>1 DEF Message

LEMMA AfterSendType ==
    ASSUME TypeOK, NEW S
    PROVE  AfterSend(S) \in [Pid -> {"none", "open", "shut"}]
BY DEF TypeOK, AfterSend

LEMMA ExitOfType ==
    ASSUME TypeOK, NEW p \in Pid
    PROVE  ExitOf(p) \in ExitVals \cup {None}
BY DEF TypeOK, ExitOf, ExitVals

\* What central delivers when it answers, forks or reports a death.
LEMMA AnswerType ==
    ASSUME TypeOK, NEW p \in Pid, NEW m \in Reply, Answer(p, m)
    PROVE  /\ inbox' \in [Pid -> SUBSET Reply]
           /\ central' \in {"running", "stopping", "exited", "broken", "killed"}
BY DEF TypeOK, Answer, Deliver, MustSend

LEMMA SpawnedType ==
    ASSUME TypeOK, NEW new \in Pid, NEW ret \in Pid,
           NEW r \in Nat \cup {NoMref}, Spawned(new, ret, r)
    PROVE  /\ os' \in [Pid -> {"free", "forked", "running", "zombie"}]
           /\ status' \in [Pid -> OsStatuses \cup {None}]
           /\ open' \in SUBSET Pid
           /\ report' \in [Pid -> Reports \cup {None}]
           /\ wire' \in [Pid -> Seq(Message)]
           /\ inbox' \in [Pid -> SUBSET Reply]
           /\ sock' \in [Pid -> {"none", "open", "shut"}]
           /\ reader' \in [Pid -> {"none", "reading", "closing", "lost", "cut"}]
           /\ central' \in {"running", "stopping", "exited", "broken", "killed"}
           /\ processes' \in SUBSET Pid
           /\ exitVal' \in [Pid -> Reports \cup {None}]
<1>1. Rep("spawned-ok", new, r, None) \in Reply
  BY RepType
<1>2. inbox' \in [Pid -> SUBSET Reply]
  BY <1>1 DEF TypeOK, Spawned
<1>3. central' \in {"running", "stopping", "exited", "broken", "killed"}
  BY DEF TypeOK, Spawned, MustSend
<1>4. sock' \in [Pid -> {"none", "open", "shut"}]
  BY AfterSendType DEF Spawned, Fork
<1>5. Fork(new, ret)
  BY DEF Spawned
<1>6. /\ os' \in [Pid -> {"free", "forked", "running", "zombie"}]
      /\ status' \in [Pid -> OsStatuses \cup {None}]
      /\ open' \in SUBSET Pid
      /\ report' \in [Pid -> Reports \cup {None}]
  BY <1>5 DEF TypeOK, Fork, Started
<1>7. wire' \in [Pid -> Seq(Message)]
  BY <1>5 DEF TypeOK, Fork
<1>8. /\ reader' \in [Pid -> {"none", "reading", "closing", "lost", "cut"}]
      /\ processes' \in SUBSET Pid
      /\ exitVal' \in [Pid -> Reports \cup {None}]
  BY <1>5 DEF TypeOK, Fork
<1> QED
  BY <1>2, <1>3, <1>4, <1>6, <1>7, <1>8

LEMMA SpawnFailedType ==
    ASSUME TypeOK, NEW ret \in Pid, SpawnFailed(ret)
    PROVE  /\ inbox' \in [Pid -> SUBSET Reply]
           /\ sock' \in [Pid -> {"none", "open", "shut"}]
           /\ central' \in {"running", "stopping", "exited", "broken", "killed"}
<1>1. Rep("spawn-error", None, NoMref, None) \in Reply
  BY RepType
<1> QED
  BY <1>1, AnswerType, AfterSendType DEF SpawnFailed

LEMMA ForgetType ==
    ASSUME TypeOK, NEW p \in Pid, ForgetProcess(p)
    PROVE  /\ inbox' \in [Pid -> SUBSET Reply]
           /\ sock' \in [Pid -> {"none", "open", "shut"}]
           /\ central' = central
           /\ processes' \in SUBSET Pid
           /\ exitVal' \in [Pid -> Reports \cup {None}]
           /\ monitors' \in SUBSET Monitor
<1>1. ASSUME NEW w \in Pid PROVE DownsFor(w, p) \in SUBSET Reply
  <2>1. ASSUME NEW m \in Watched(p) PROVE m.mref \in Nat
    BY <2>1 DEF TypeOK, Watched, Monitor
  <2>2. ASSUME NEW m \in Watched(p)
        PROVE  Rep("down", p, m.mref, ExitOf(p)) \in Reply
    BY <2>1, <2>2, RepType, ExitOfType
  <2> QED BY <2>2 DEF DownsFor
<1>2. inbox' \in [Pid -> SUBSET Reply]
  BY <1>1 DEF TypeOK, ForgetProcess
<1>3. sock' \in [Pid -> {"none", "open", "shut"}]
  BY AfterSendType DEF ForgetProcess
<1> QED
  BY <1>2, <1>3 DEF TypeOK, ForgetProcess, SafeSend, MonitorsWithout

\* Every variable keeps its type: TypeOK, the types of the state of _central.
THEOREM TypeCorrect == Spec => []TypeOK
<1> USE CentralAssumption
<1>1. Init => TypeOK
  BY DEF Init, TypeOK, Reports, ExitVals, None, Started
<1>2. TypeOK /\ [Next]_vars => TypeOK'
  <2> SUFFICES ASSUME TypeOK, [Next]_vars PROVE TypeOK'
    OBVIOUS
  <2>1. ASSUME NEW p \in Pid, Request(p) PROVE TypeOK'
    <3>1. PICK m \in Message : Write(p, m)
      <4>1. ASSUME NEW kind \in Kinds, NEW a \in Arguments(kind)
            PROVE  Msg(kind, p, a) \in Message
        BY <4>1, MsgType, CentralAssumption
           DEF Arguments, MessageTypes, RequestKinds
      <4>2. Msg("garbled", p, None) \in Message
        BY MsgType DEF MessageTypes
      <4> QED BY <2>1, <4>1, <4>2 DEF Request
    <3>2. wire' \in [Pid -> Seq(Message)]
      BY <3>1 DEF TypeOK, Write
    <3>3. sent' \in Nat
      BY <2>1 DEF TypeOK, Request
    <3> QED
      BY <2>1, <3>2, <3>3 DEF TypeOK, Request, osVars, readerVars, tableVars,
         endVars
  <2>2. ASSUME NEW p \in Pid, Report(p) PROVE TypeOK'
    <3>1. PICK v \in Returns : /\ report' = [report EXCEPT ![p] = v]
                              /\ Write(p, Msg("process-exit", p, v))
      BY <2>2 DEF Report
    <3>2. v \in Reports /\ Msg("process-exit", p, v) \in Message
      BY MsgType, CentralAssumption DEF MessageTypes
    <3> QED
      BY <2>2, <3>1, <3>2 DEF TypeOK, Report, Write, osVars, readerVars,
         tableVars, endVars
  <2>3. ASSUME NEW p \in Pid, Die(p) PROVE TypeOK'
    BY <2>3 DEF TypeOK, Die, Dead, clientVars, readerVars, tableVars, endVars
  <2>4. ASSUME NEW p \in Pid, TornWrite(p) PROVE TypeOK'
    <3>1. Msg("torn", p, None) \in Message
      BY MsgType DEF MessageTypes
    <3> QED
      BY <2>4, <3>1 DEF TypeOK, TornWrite, Dead, Write, readerVars, tableVars,
         endVars, OsStatuses
  <2>5. ASSUME NEW p \in Pid, Arm(p) \/ Detach(p) PROVE TypeOK'
    BY <2>5 DEF TypeOK, Arm, Detach, clientVars, readerVars, tableVars, endVars
  <2>6. ASSUME NEW p \in Pid, ReadValue(p) PROVE TypeOK'
    BY <2>6 DEF TypeOK, ReadValue, osVars, tableVars, endVars
  <2>7. ASSUME NEW p \in Pid,
               \/ ReadTorn(p) \/ ReadShort(p) \/ ReadGarbled(p)
               \/ ReadEof(p) \/ ReadBadFd(p)
        PROVE  TypeOK'
    <3>1. /\ UNCHANGED <<osVars, clientVars, tableVars, endVars, inbox, central, q>>
          /\ \E r \in {"closing", "lost", "cut"} : reader' = [reader EXCEPT ![p] = r]
          /\ \/ sock' = sock
             \/ \E x \in {"none", "shut"} : sock' = [sock EXCEPT ![p] = x]
      BY <2>7 DEF ReadTorn, ReadShort, ReadGarbled, ReadEof, ReadBadFd
    <3>2. reader' \in [Pid -> {"none", "reading", "closing", "lost", "cut"}]
      BY <3>1 DEF TypeOK
    <3>3. sock' \in [Pid -> {"none", "open", "shut"}]
      BY <3>1 DEF TypeOK
    <3> QED
      BY <3>1, <3>2, <3>3 DEF TypeOK, osVars, clientVars, tableVars, endVars
  <2>8. ASSUME NEW p \in Pid, NotifyDisconnect(p) PROVE TypeOK'
    <3>1. Msg("client-disconnected", p, None) \in Message
      BY MsgType DEF MessageTypes
    <3>2. q' \in Seq(Message)
      BY <2>8, <3>1, ConcatProperties DEF TypeOK, NotifyDisconnect, LastWords
    <3> QED
      BY <2>8, <3>2 DEF TypeOK, NotifyDisconnect, osVars, clientVars,
         tableVars, endVars
  <2>9. CASE HandleProcessExit
    <3>1. Head(q) \in Message /\ Head(q).from \in Pid /\ q' \in Seq(Message)
      BY <2>9, ReceiveType DEF HandleProcessExit
    <3>2. Head(q).arg \in Reports
      BY <2>9, <3>1 DEF Message, HandleProcessExit, Receive
    <3> QED
      BY <2>9, <3>1, <3>2 DEF TypeOK, HandleProcessExit, osVars, clientVars,
         endVars
  <2>10. CASE LauncherDisconnected
    BY <2>10, ReceiveType DEF TypeOK, LauncherDisconnected, osVars, clientVars,
       tableVars
  <2>11. CASE HandleDisconnected
    <3> DEFINE addr == Head(q).from
    <3>1. addr \in Pid /\ q' \in Seq(Message)
      BY <2>11, ReceiveType DEF HandleDisconnected
    <3>2. CASE addr \notin processes
      BY <2>11, <3>1, <3>2 DEF TypeOK, HandleDisconnected, clientVars
    <3>3. CASE addr \in processes
      <4>1. ReapProcess(addr)
        BY <2>11, <3>3 DEF HandleDisconnected
      <4>2. os' \in [Pid -> {"free", "forked", "running", "zombie"}]
        BY <4>1 DEF TypeOK, ReapProcess
      <4>3. /\ inbox' \in [Pid -> SUBSET Reply]
            /\ sock' \in [Pid -> {"none", "open", "shut"}]
            /\ central' \in {"running", "stopping", "exited", "broken", "killed"}
            /\ processes' \in SUBSET Pid
            /\ exitVal' \in [Pid -> Reports \cup {None}]
            /\ monitors' \in SUBSET Monitor
            /\ exitZero' \in ExitVals \cup {None}
        BY <3>1, <4>1, ForgetType, ExitOfType DEF TypeOK, ReapProcess
      <4> QED
        BY <2>11, <3>1, <4>2, <4>3 DEF TypeOK, HandleDisconnected, clientVars
    <3> QED BY <3>2, <3>3
  <2>12. CASE HandleTopLevelExit
    BY <2>12, ReceiveType DEF TypeOK, HandleTopLevelExit, osVars, clientVars,
       tableVars, endVars
  <2>13. CASE HandlePing
    <3>1. Head(q).from \in Pid /\ q' \in Seq(Message)
      BY <2>13, ReceiveType DEF HandlePing
    <3>2. Rep("pong", None, NoMref, None) \in Reply
      BY RepType
    <3> QED
      BY <2>13, <3>1, <3>2, AnswerType, AfterSendType DEF TypeOK, HandlePing,
         osVars, clientVars, tableVars, endVars
  <2>14. CASE HandleSpawn
    <3>1. Head(q).from \in Pid /\ q' \in Seq(Message)
      BY <2>14, ReceiveType DEF HandleSpawn
    <3>2. CASE SpawnFailed(Head(q).from)
      BY <2>14, <3>1, <3>2, SpawnFailedType
         DEF TypeOK, HandleSpawn, SpawnFailed, endVars
    <3>3. CASE /\ \E new \in Pid : Spawned(new, Head(q).from, NoMref)
               /\ UNCHANGED <<monitors, nextMref>>
      BY <2>14, <3>1, <3>3, SpawnedType DEF TypeOK, HandleSpawn, endVars
    <3> QED BY <2>14, <3>2, <3>3 DEF HandleSpawn
  <2>15. CASE HandleSpawnMonitor
    <3>1. Head(q).from \in Pid /\ q' \in Seq(Message)
      BY <2>15, ReceiveType DEF HandleSpawnMonitor
    <3>2. CASE SpawnFailed(Head(q).from)
      BY <2>15, <3>1, <3>2, SpawnFailedType
         DEF TypeOK, HandleSpawnMonitor, SpawnFailed, endVars
    <3>3. ASSUME NEW new \in Pid, Spawned(new, Head(q).from, nextMref),
                 AddMonitor(Head(q).from, new)
          PROVE  TypeOK'
      <4>1. nextMref' \in Nat /\ monitors' \in SUBSET Monitor
        BY <3>1, <3>3 DEF TypeOK, AddMonitor, Monitor
      <4>2. nextMref \in Nat \cup {NoMref}
        BY DEF TypeOK
      <4> QED
        BY <2>15, <3>1, <3>3, <4>1, <4>2, SpawnedType
           DEF TypeOK, HandleSpawnMonitor, endVars
    <3> QED BY <2>15, <3>2, <3>3 DEF HandleSpawnMonitor
  <2>16. CASE HandleConnect
    <3> DEFINE from == Head(q).from
               to   == Resolve(Head(q).arg)
               found == Known(Head(q).arg) /\ Known(from)
               ok    == found /\ CanSend(to)
    <3>1. from \in Pid /\ Head(q) \in Message /\ q' \in Seq(Message)
      BY <2>16, ReceiveType DEF HandleConnect
    <3>2. to \in Pid
      BY <2>16, <3>1, CentralAssumption
         DEF Message, HandleConnect, Receive, Resolve
    <3>3. ToCaller(ok, to) \in SUBSET Reply
      <4> HIDE DEF ok, to, from
      <4> QED BY <3>2, ConnectReplyType
    <3>4. ToTarget(ok, from) \in SUBSET Reply
      <4> HIDE DEF ok, to, from
      <4> QED BY <3>1, ConnectReplyType
    <3>5. inbox' \in [Pid -> SUBSET Reply]
      <4>1. inbox' = [p \in Pid |-> inbox[p]
               \cup (IF p = to THEN ToTarget(ok, from) ELSE {})
               \cup (IF p = from /\ CanSend(from)
                     THEN ToCaller(ok, to) ELSE {})]
        BY <2>16 DEF HandleConnect
      <4> HIDE DEF ok, to, from
      <4> QED BY <3>3, <3>4, <4>1 DEF TypeOK
    <3>6. sock' \in [Pid -> {"none", "open", "shut"}]
      BY <2>16, AfterSendType DEF HandleConnect
    <3>7. central' \in {"running", "stopping", "exited", "broken", "killed"}
      BY <2>16 DEF TypeOK, HandleConnect, MustSend
    <3> QED
      BY <2>16, <3>1, <3>5, <3>6, <3>7 DEF TypeOK, HandleConnect, osVars,
         clientVars, tableVars, endVars
  <2>17. CASE HandleOther
    BY <2>17, ReceiveType, AfterSendType DEF TypeOK, HandleOther, SafeSend,
       osVars, clientVars, tableVars, endVars
  <2>18. CASE Shutdown
    BY <2>18 DEF TypeOK, Shutdown, ToKill, OsStatuses, clientVars, readerVars,
       tableVars
  <2>19. CASE LauncherGone
    BY <2>19 DEF TypeOK, LauncherGone, osVars, clientVars, readerVars,
       tableVars, endVars
  <2>20. CASE CentralGone
    BY <2>20 DEF TypeOK, CentralGone, OsStatuses, clientVars, readerVars,
       tableVars, endVars
  <2>21. CASE UNCHANGED vars
    BY <2>21 DEF TypeOK, vars
  <2> QED
    BY <2>1, <2>2, <2>3, <2>4, <2>5, <2>6, <2>7, <2>8, <2>9, <2>10, <2>11,
       <2>12, <2>13, <2>14, <2>15, <2>16, <2>17, <2>18, <2>19, <2>20, <2>21
       DEF Next, ReaderStep, MainStep
<1> QED BY <1>1, <1>2, PTL DEF Spec

----------------------------------------------------------------------------
(* The table, the readers and the queue agree.                              *)

\* The disconnect of p is still queued when the loop has taken something else.
LEMMA Remains ==
    ASSUME TypeOK, DisconnectQueued, q # <<>>, q' = Tail(q),
           NEW p \in processes, reader[p] = "none",
           Head(q).type # "client-disconnected" \/ Head(q).from # p
    PROVE  \E i \in 1..Len(q') : q'[i].type = "client-disconnected" /\ q'[i].from = p
<1>1. q \in Seq(Message) /\ Head(q) = q[1]
  BY DEF TypeOK
<1>2. PICK i \in 1..Len(q) : q[i].type = "client-disconnected" /\ q[i].from = p
  BY DEF DisconnectQueued
<1>3. i # 1
  BY <1>1, <1>2
<1>4. i - 1 \in 1..Len(q') /\ q'[i - 1] = q[i]
  BY <1>1, <1>2, <1>3
<1> QED BY <1>2, <1>4

\* A handler of the main loop that touches no table keeps them in agreement.
LEMMA ConsumeKeeps ==
    ASSUME TypeOK, TablesAgree, NEW t, t # "client-disconnected", Receive(t),
           UNCHANGED <<os, reader, processes>>
    PROVE  TablesAgree'
<1>1. /\ q \in Seq(Message) /\ q # <<>> /\ q' = Tail(q)
  BY DEF TypeOK, Receive
<1>2. \A i \in 1..Len(q') : i + 1 \in 1..Len(q) /\ q'[i] = q[i + 1]
  BY <1>1
<1>3. QueueRegistered' /\ ReaderOver'
  BY <1>2 DEF TablesAgree, QueueRegistered, ReaderOver
<1>4. DisconnectLast'
  <2> SUFFICES ASSUME NEW i \in 1..Len(q'), NEW j \in 1..Len(q'), i < j,
                      q'[i].type = "client-disconnected"
               PROVE  q'[j].from # q'[i].from
    BY DEF DisconnectLast
  <2>1. i + 1 < j + 1
    OBVIOUS
  <2> QED BY <1>2, <2>1 DEF TablesAgree, DisconnectLast
<1>5. DisconnectQueued'
  <2> SUFFICES ASSUME NEW p \in processes, reader[p] = "none"
               PROVE  \E i \in 1..Len(q') :
                         q'[i].type = "client-disconnected" /\ q'[i].from = p
    BY DEF DisconnectQueued
  <2> QED BY Remains DEF TablesAgree, Receive
<1> QED BY <1>3, <1>4, <1>5 DEF TablesAgree, ReadersRegistered

\* A fork takes a pid that no table, reader or queued message mentions.
LEMMA ForkKeeps ==
    ASSUME TypeOK, TablesAgree, NEW t, t # "client-disconnected", Receive(t),
           NEW new \in Pid, NEW ret, Fork(new, ret)
    PROVE  TablesAgree'
<1>1. /\ q \in Seq(Message) /\ q # <<>> /\ q' = Tail(q)
  BY DEF TypeOK, Receive
<1>2. \A i \in 1..Len(q') : i + 1 \in 1..Len(q) /\ q'[i] = q[i + 1]
  BY <1>1
<1>3. /\ new \notin processes /\ processes' = processes \cup {new}
      /\ os' = [os EXCEPT ![new] = Started] /\ Started # "free"
      /\ reader' = [reader EXCEPT ![new] = "reading"]
  BY DEF TablesAgree, Fork, Started
<1>4. processes' = {p \in Pid : os'[p] # "free"}
  BY <1>3 DEF TypeOK, TablesAgree
<1>5. ReadersRegistered'
  BY <1>3 DEF TypeOK, TablesAgree, ReadersRegistered
<1>6. \A i \in 1..Len(q') : q'[i].from \in processes /\ q'[i].from # new
  BY <1>2, <1>3 DEF TablesAgree, QueueRegistered
<1>7. QueueRegistered'
  BY <1>3, <1>6 DEF QueueRegistered
<1>8. ReaderOver'
  <2>1. \A i \in 1..Len(q') : reader'[q'[i].from] = reader[q'[i].from]
    BY <1>3, <1>6 DEF TypeOK
  <2> QED BY <1>2, <2>1 DEF TablesAgree, ReaderOver
<1>9. DisconnectLast'
  <2> SUFFICES ASSUME NEW i \in 1..Len(q'), NEW j \in 1..Len(q'), i < j,
                      q'[i].type = "client-disconnected"
               PROVE  q'[j].from # q'[i].from
    BY DEF DisconnectLast
  <2>1. i + 1 < j + 1
    OBVIOUS
  <2> QED BY <1>2, <2>1 DEF TablesAgree, DisconnectLast
<1>10. DisconnectQueued'
  <2> SUFFICES ASSUME NEW p \in processes', reader'[p] = "none"
               PROVE  \E i \in 1..Len(q') :
                         q'[i].type = "client-disconnected" /\ q'[i].from = p
    BY DEF DisconnectQueued
  <2>1. p \in processes /\ reader[p] = "none"
    BY <1>3 DEF TypeOK
  <2> QED BY <1>1, <2>1, Remains DEF TablesAgree, Receive
<1> QED BY <1>4, <1>5, <1>7, <1>8, <1>9, <1>10 DEF TablesAgree

\* A process leaves the table when its disconnect, its last message, is taken.
LEMMA ForgetKeeps ==
    ASSUME TypeOK, TablesAgree, Receive("client-disconnected"),
           Head(q).from \in processes, os' = [os EXCEPT ![Head(q).from] = "free"],
           processes' = processes \ {Head(q).from}, UNCHANGED reader
    PROVE  TablesAgree'
<1> DEFINE addr == Head(q).from
<1>1. /\ q \in Seq(Message) /\ q # <<>> /\ q' = Tail(q)
      /\ 1 \in 1..Len(q) /\ q[1].type = "client-disconnected" /\ q[1].from = addr
  BY DEF TypeOK, Receive
<1>2. \A i \in 1..Len(q') : i + 1 \in 1..Len(q) /\ q'[i] = q[i + 1] /\ 1 < i + 1
  BY <1>1
<1>3. processes' = {p \in Pid : os'[p] # "free"}
  BY DEF TypeOK, TablesAgree
<1>4. ReadersRegistered'
  BY <1>1 DEF TypeOK, TablesAgree, ReadersRegistered, ReaderOver
<1>5. \A i \in 1..Len(q') : q'[i].from # addr
  BY <1>1, <1>2 DEF TablesAgree, DisconnectLast
<1>6. QueueRegistered'
  BY <1>2, <1>5 DEF TablesAgree, QueueRegistered
<1>7. ReaderOver'
  BY <1>2 DEF TablesAgree, ReaderOver
<1>8. DisconnectLast'
  <2> SUFFICES ASSUME NEW i \in 1..Len(q'), NEW j \in 1..Len(q'), i < j,
                      q'[i].type = "client-disconnected"
               PROVE  q'[j].from # q'[i].from
    BY DEF DisconnectLast
  <2>1. i + 1 < j + 1
    OBVIOUS
  <2> QED BY <1>2, <2>1 DEF TablesAgree, DisconnectLast
<1>9. DisconnectQueued'
  <2> SUFFICES ASSUME NEW p \in processes', reader'[p] = "none"
               PROVE  \E i \in 1..Len(q') :
                         q'[i].type = "client-disconnected" /\ q'[i].from = p
    BY DEF DisconnectQueued
  <2> QED BY <1>1, Remains DEF TablesAgree
<1> QED BY <1>3, <1>4, <1>6, <1>7, <1>8, <1>9 DEF TablesAgree

\* What a reader queues is from its own process, and a disconnect is queued by
\* a reader that is over.
LEMMA QueueKeeps ==
    ASSUME TypeOK, TablesAgree, NEW p \in Pid, NEW m, m.from = p,
           reader[p] # "none", reader' = [reader EXCEPT ![p] = reader'[p]],
           m.type = "client-disconnected" <=> reader'[p] = "none",
           q' = Append(q, m), UNCHANGED <<os, processes>>
    PROVE  TablesAgree'
<1>1. /\ q \in Seq(Message) /\ Len(q') = Len(q) + 1 /\ q'[Len(q')] = m
      /\ \A i \in 1..Len(q') : i # Len(q') => i \in 1..Len(q) /\ q'[i] = q[i]
  BY DEF TypeOK
<1>2. p \in processes
  BY DEF TablesAgree, ReadersRegistered
<1>3. ReadersRegistered'
  BY <1>2 DEF TypeOK, TablesAgree, ReadersRegistered
<1>4. QueueRegistered'
  BY <1>1, <1>2 DEF TablesAgree, QueueRegistered
<1>5. \A i \in 1..Len(q) : q[i].type = "client-disconnected" => q[i].from # p
  BY DEF TablesAgree, ReaderOver
<1>6. ReaderOver'
  <2> SUFFICES ASSUME NEW i \in 1..Len(q'), q'[i].type = "client-disconnected"
               PROVE  reader'[q'[i].from] = "none"
    BY DEF ReaderOver
  <2>1. CASE i = Len(q')
    BY <1>1, <2>1
  <2>2. CASE i # Len(q')
    <3>1. i \in 1..Len(q) /\ q'[i] = q[i] /\ q[i].from # p
      BY <1>1, <1>5, <2>2
    <3>2. reader[q[i].from] = "none" /\ q[i].from \in Pid
      BY <3>1 DEF TypeOK, Message, TablesAgree, ReaderOver
    <3> QED BY <3>1, <3>2 DEF TypeOK
  <2> QED BY <2>1, <2>2
<1>7. DisconnectLast'
  <2> SUFFICES ASSUME NEW i \in 1..Len(q'), NEW j \in 1..Len(q'), i < j,
                      q'[i].type = "client-disconnected"
               PROVE  q'[j].from # q'[i].from
    BY DEF DisconnectLast
  <2>1. i # Len(q') /\ i \in 1..Len(q) /\ q'[i] = q[i]
    BY <1>1
  <2>2. CASE j = Len(q')
    BY <1>1, <1>5, <2>1, <2>2
  <2>3. CASE j # Len(q')
    BY <1>1, <2>1, <2>3 DEF TablesAgree, DisconnectLast
  <2> QED BY <2>2, <2>3
<1>8. DisconnectQueued'
  <2> SUFFICES ASSUME NEW r \in processes, reader'[r] = "none"
               PROVE  \E i \in 1..Len(q') :
                         q'[i].type = "client-disconnected" /\ q'[i].from = r
    BY DEF DisconnectQueued
  <2>1. CASE r = p
    BY <1>1, <2>1
  <2>2. CASE r # p
    <3>1. reader[r] = "none"
      BY <2>2 DEF TypeOK
    <3>2. PICK i \in 1..Len(q) : q[i].type = "client-disconnected" /\ q[i].from = r
      BY <3>1 DEF TablesAgree, DisconnectQueued
    <3>3. i \in 1..Len(q') /\ q'[i] = q[i]
      BY <1>1
    <3> QED BY <3>2, <3>3
  <2> QED BY <2>1, <2>2
<1> QED BY <1>3, <1>4, <1>6, <1>7, <1>8 DEF TablesAgree

\* Other steps leave the queue alone, and end no reader without a word.
LEMMA OthersKeep ==
    ASSUME TypeOK, TablesAgree, UNCHANGED <<processes, q>>,
           \A p \in Pid : os'[p] = "free" <=> os[p] = "free",
           \A p \in Pid : reader'[p] = "none" <=> reader[p] = "none"
    PROVE  TablesAgree'
<1>1. processes' = {p \in Pid : os'[p] # "free"} /\ ReadersRegistered'
  BY DEF TablesAgree, ReadersRegistered
<1>2. \A i \in 1..Len(q) : q[i].from \in Pid
  BY DEF TypeOK, Message
<1>3. QueueRegistered' /\ ReaderOver' /\ DisconnectLast' /\ DisconnectQueued'
  BY <1>2 DEF TypeOK, TablesAgree, QueueRegistered, ReaderOver, DisconnectLast,
     DisconnectQueued
<1> QED BY <1>1, <1>3 DEF TablesAgree

\* What a client writes carries its own pid, and is never a disconnect.
LEMMA WriteKeeps ==
    ASSUME TypeOK, WiresOwn, NEW p \in Pid, NEW m \in Message, Write(p, m),
           m.from = p, m.type # "client-disconnected"
    PROVE  WiresOwn'
<1> SUFFICES ASSUME NEW r \in Pid, NEW i \in 1..Len(wire'[r])
             PROVE  /\ wire'[r][i].from = r
                    /\ wire'[r][i].type # "client-disconnected"
  BY DEF WiresOwn
<1>1. /\ wire \in [Pid -> Seq(Message)]
      /\ wire' = [wire EXCEPT ![p] = Append(wire[p], m)]
  BY DEF TypeOK, Write
<1>2. CASE r # p
  BY <1>1, <1>2 DEF WiresOwn
<1>3. CASE r = p
  <2>1. wire'[r] = Append(wire[p], m) /\ wire[p] \in Seq(Message)
    BY <1>1, <1>3
  <2>2. \/ i \in 1..Len(wire[p]) /\ wire'[r][i] = wire[p][i]
        \/ i = Len(wire[p]) + 1 /\ wire'[r][i] = m
    <3> DEFINE s == wire[p]
    <3>1. s \in Seq(Message) /\ i \in 1..Len(Append(s, m))
      BY <2>1
    <3> HIDE DEF s
    <3>2. \/ i \in 1..Len(s) /\ Append(s, m)[i] = s[i]
          \/ i = Len(s) + 1 /\ Append(s, m)[i] = m
      BY <3>1
    <3> QED BY <2>1, <3>2 DEF s
  <2> QED BY <1>3, <2>2 DEF WiresOwn
<1> QED BY <1>2, <1>3

LEMMA ForkWires ==
    ASSUME TypeOK, WiresOwn, NEW new \in Pid, wire' = [wire EXCEPT ![new] = <<>>]
    PROVE  WiresOwn'
BY DEF TypeOK, WiresOwn

----------------------------------------------------------------------------
\* The table, the readers and the queue agree at every step of the loop, the
\* readers and the clients: TableInv, the inductive invariant.
THEOREM TableInvariant == Spec => []TableInv
<1> USE CentralAssumption
<1>1. Init => TableInv
  BY DEF Init, TableInv, TablesAgree, WiresOwn, MonitorsLive, ReadersRegistered,
     QueueRegistered, ReaderOver, DisconnectLast, DisconnectQueued, Started
<1>2. TypeOK /\ TypeOK' /\ TableInv /\ [Next]_vars => TableInv'
  <2> SUFFICES ASSUME TypeOK, TypeOK', TableInv, [Next]_vars
               PROVE  TableInv'
    OBVIOUS
  <2>1. WiresOwn /\ MonitorsLive /\ (central = "running" => TablesAgree)
    BY DEF TableInv
  <2>2. ASSUME NEW p \in Pid, Request(p) PROVE TableInv'
    <3>1. WiresOwn'
      <4>1. CASE Write(p, Msg("garbled", p, None))
        BY <2>1, <4>1, MsgType, WriteKeeps DEF Msg, MessageTypes
      <4>2. ASSUME NEW kind \in Kinds, NEW a \in Arguments(kind),
                   Write(p, Msg(kind, p, a))
            PROVE  WiresOwn'
        <5>1. kind # "client-disconnected"
          BY CentralAssumption DEF RequestKinds
        <5>2. Msg(kind, p, a) \in Message
          BY MsgType, CentralAssumption DEF Arguments, MessageTypes, RequestKinds
        <5> QED BY <2>1, <4>2, <5>1, <5>2, WriteKeeps DEF Msg
      <4> QED BY <2>2, <4>1, <4>2 DEF Request
    <3>2. TablesAgree'
      BY <2>1, <2>2, OthersKeep
         DEF Request, CanWrite, osVars, readerVars, tableVars
    <3> QED
      BY <2>1, <2>2, <3>1, <3>2 DEF TableInv, MonitorsLive, Request, tableVars
  <2>3. ASSUME NEW p \in Pid, Report(p) PROVE TableInv'
    <3>1. WiresOwn'
      <4>1. PICK v \in Returns : Write(p, Msg("process-exit", p, v))
        BY <2>3 DEF Report
      <4>2. Msg("process-exit", p, v) \in Message
        BY MsgType, CentralAssumption DEF MessageTypes
      <4> QED BY <2>1, <4>1, <4>2, WriteKeeps DEF Msg
    <3>2. TablesAgree'
      BY <2>1, <2>3, OthersKeep
         DEF Report, CanWrite, osVars, readerVars, tableVars
    <3> QED
      BY <2>1, <2>3, <3>1, <3>2 DEF TableInv, MonitorsLive, Report, tableVars
  <2>4. ASSUME NEW p \in Pid, Arm(p) \/ Die(p) \/ Detach(p) PROVE TableInv'
    <3>1. central' = "running" => TablesAgree'
      BY <2>1, <2>4, OthersKeep
         DEF TypeOK, Arm, Die, Detach, Dead, Alive, readerVars, tableVars
    <3> QED
      BY <2>1, <2>4, <3>1 DEF TableInv, WiresOwn, MonitorsLive, Arm, Die, Detach,
         clientVars, tableVars
  <2>5. ASSUME NEW p \in Pid, TornWrite(p) PROVE TableInv'
    <3>1. WiresOwn'
      <4>1. Msg("torn", p, None) \in Message
        BY MsgType DEF MessageTypes
      <4> QED BY <2>1, <2>5, <4>1, WriteKeeps DEF TornWrite, Msg
    <3>2. TablesAgree'
      BY <2>1, <2>5, OthersKeep
         DEF TypeOK, TornWrite, CanWrite, Dead, Alive, readerVars, tableVars
    <3> QED
      BY <2>1, <2>5, <3>1, <3>2 DEF TableInv, MonitorsLive, TornWrite, tableVars
  <2>6. ASSUME NEW p \in Pid, ReadValue(p) PROVE TableInv'
    <3> DEFINE m == Head(wire[p])
    <3>1. wire[p] \in Seq(Message) /\ wire[p] # <<>> /\ m = wire[p][1]
          /\ 1 \in 1..Len(wire[p])
      BY <2>6 DEF TypeOK, ReadValue
    <3>2. m.from = p /\ m.type # "client-disconnected"
      BY <2>1, <3>1 DEF WiresOwn
    <3>3. WiresOwn'
      <4>1. \A i \in 1..Len(Tail(wire[p])) :
               i + 1 \in 1..Len(wire[p]) /\ Tail(wire[p])[i] = wire[p][i + 1]
        BY <3>1
      <4>2. wire' = [wire EXCEPT ![p] = Tail(wire[p])]
        BY <2>6 DEF ReadValue
      <4> QED BY <2>1, <4>1, <4>2 DEF TypeOK, WiresOwn
    <3>4. TablesAgree'
      <4>1. /\ reader[p] = "reading" /\ central = "running"
            /\ q' = Append(q, m) /\ UNCHANGED <<os, processes, reader>>
        BY <2>6 DEF ReadValue, osVars, tableVars
      <4>2. reader' = [reader EXCEPT ![p] = reader'[p]]
        BY <4>1 DEF TypeOK
      <4> HIDE DEF m
      <4> QED BY <2>1, <3>2, <4>1, <4>2, QueueKeeps
    <3> QED
      BY <2>1, <2>6, <3>3, <3>4 DEF TableInv, MonitorsLive, ReadValue, tableVars
  <2>7. ASSUME NEW p \in Pid,
               \/ ReadTorn(p) \/ ReadShort(p) \/ ReadGarbled(p)
               \/ ReadEof(p) \/ ReadBadFd(p)
        PROVE  TableInv'
    <3>1. TablesAgree'
      BY <2>1, <2>7, OthersKeep DEF TypeOK, ReadTorn, ReadShort, ReadGarbled,
         ReadEof, ReadBadFd, osVars, tableVars
    <3> QED
      BY <2>1, <2>7, <3>1 DEF TableInv, WiresOwn, MonitorsLive, ReadTorn,
         ReadShort, ReadGarbled, ReadEof, ReadBadFd, clientVars, tableVars
  <2>8. ASSUME NEW p \in Pid, NotifyDisconnect(p) PROVE TableInv'
    <3> DEFINE m == Msg("client-disconnected", p, None)
    <3>1. q' = Append(q, m)
      BY <2>8 DEF TypeOK, NotifyDisconnect, LastWords
    <3>2. m.from = p /\ m.type = "client-disconnected"
      BY DEF Msg
    <3>3. TablesAgree'
      <4>1. /\ reader[p] = "closing" /\ central = "running"
            /\ reader' = [reader EXCEPT ![p] = "none"]
            /\ UNCHANGED <<os, processes>>
        BY <2>8 DEF NotifyDisconnect, osVars, tableVars
      <4>2. reader'[p] = "none"
        BY <4>1 DEF TypeOK
      <4> HIDE DEF m
      <4> QED BY <2>1, <3>1, <3>2, <4>1, <4>2, QueueKeeps
    <3> QED
      BY <2>1, <2>8, <3>3 DEF TableInv, WiresOwn, MonitorsLive,
         NotifyDisconnect, clientVars, tableVars
  <2>9. CASE HandleProcessExit
    <3>1. TablesAgree'
      BY <2>1, <2>9, ConsumeKeeps DEF HandleProcessExit, Receive, osVars
    <3> QED
      BY <2>1, <2>9, <3>1 DEF TableInv, WiresOwn, MonitorsLive,
         HandleProcessExit, clientVars
  <2>10. CASE LauncherDisconnected
    BY <2>1, <2>10 DEF TableInv, WiresOwn, MonitorsLive, LauncherDisconnected,
       clientVars, tableVars
  <2>11. CASE HandleDisconnected
    <3> DEFINE addr == Head(q).from
    <3>1. TablesAgree /\ Receive("client-disconnected")
      BY <2>1, <2>11 DEF HandleDisconnected, Receive
    <3>2. addr \in processes /\ ReapProcess(addr)
      <4>1. q # <<>> /\ q \in Seq(Message)
        BY <3>1 DEF TypeOK, Receive
      <4>2. 1 \in 1..Len(q) /\ q[1] = Head(q)
        BY <4>1
      <4> QED BY <2>11, <3>1, <4>2
              DEF TablesAgree, QueueRegistered, HandleDisconnected
    <3>3. WiresOwn'
      BY <2>1, <2>11 DEF WiresOwn, HandleDisconnected, clientVars
    <3>4. CASE central' # "running"
      <4>1. UNCHANGED <<processes, monitors>>
        BY <3>1, <3>2, <3>4 DEF Receive, ReapProcess, ForgetProcess, SafeSend
      <4> QED BY <2>1, <3>3, <3>4, <4>1 DEF TableInv, MonitorsLive
    <3>5. CASE central' = "running"
      <4>1. ForgetProcess(addr)
        BY <3>2, <3>5 DEF ReapProcess
      <4>2. MonitorsLive'
        BY <2>1, <4>1 DEF MonitorsLive, ForgetProcess, MonitorsWithout
      <4>3. TablesAgree'
        BY <2>11, <3>1, <3>2, <4>1, ForgetKeeps
           DEF ForgetProcess, ReapProcess, HandleDisconnected
      <4> QED BY <3>3, <4>2, <4>3 DEF TableInv
    <3> QED BY <3>4, <3>5
  <2>12. CASE HandleTopLevelExit
    BY <2>1, <2>12 DEF TableInv, WiresOwn, MonitorsLive, HandleTopLevelExit,
       clientVars, tableVars
  <2>13. CASE HandlePing \/ HandleConnect \/ HandleOther
    <3>1. /\ central = "running"
          /\ UNCHANGED <<os, reader, processes, wire, monitors>>
          /\ \E t : t # "client-disconnected" /\ Receive(t)
      BY <2>13 DEF HandlePing, HandleConnect, HandleOther, Receive, osVars,
         clientVars, tableVars
    <3>2. TablesAgree'
      BY <2>1, <3>1, ConsumeKeeps
    <3> QED BY <2>1, <3>1, <3>2 DEF TableInv, WiresOwn, MonitorsLive
  <2>14. CASE HandleSpawn \/ HandleSpawnMonitor
    <3> DEFINE ret == Head(q).from
    <3>1. PICK t : t # "client-disconnected" /\ Receive(t)
      BY <2>14 DEF HandleSpawn, HandleSpawnMonitor
    <3>2. TablesAgree
      BY <2>1, <3>1 DEF Receive
    <3>3. CASE SpawnFailed(ret)
      <4>1. TablesAgree'
        BY <3>1, <3>2, <3>3, ConsumeKeeps DEF SpawnFailed
      <4> QED
        BY <2>1, <3>3, <4>1 DEF TableInv, WiresOwn, MonitorsLive, SpawnFailed
    <3>4. ASSUME NEW new \in Pid, Fork(new, ret),
                 monitors' = monitors \/ AddMonitor(ret, new)
          PROVE  TableInv'
      <4>1. WiresOwn'
        BY <2>1, <3>4, ForkWires DEF Fork
      <4>2. TablesAgree'
        BY <3>1, <3>2, <3>4, ForkKeeps
      <4>3. ret \in processes
        <5>1. q # <<>> /\ q \in Seq(Message)
          BY <3>1 DEF TypeOK, Receive
        <5>2. 1 \in 1..Len(q) /\ q[1] = Head(q)
          BY <5>1
        <5> QED BY <3>2, <5>2 DEF TablesAgree, QueueRegistered
      <4>4. MonitorsLive'
        BY <2>1, <3>4, <4>3 DEF MonitorsLive, AddMonitor, Fork
      <4> QED BY <4>1, <4>2, <4>4 DEF TableInv
    <3> QED
      BY <2>14, <3>3, <3>4 DEF HandleSpawn, HandleSpawnMonitor, Spawned
  <2>15. CASE Shutdown \/ LauncherGone \/ CentralGone
    BY <2>1, <2>15 DEF TableInv, WiresOwn, MonitorsLive, Shutdown, LauncherGone,
       CentralGone, CentralDead, clientVars, tableVars
  <2>16. CASE UNCHANGED vars
    BY <2>1, <2>16 DEF TableInv, TablesAgree, WiresOwn, MonitorsLive,
       ReadersRegistered, QueueRegistered, ReaderOver, DisconnectLast,
       DisconnectQueued, vars
  <2> QED
    BY <2>2, <2>3, <2>4, <2>5, <2>6, <2>7, <2>8, <2>9, <2>10, <2>11, <2>12,
       <2>13, <2>14, <2>15, <2>16 DEF Next, ReaderStep, MainStep
<1> QED BY <1>1, <1>2, TypeCorrect, PTL DEF Spec

\* The process table is exactly the set of pids the kernel still holds for
\* central, so that kill_it never reaches a pid that was given to a stranger.
THEOREM TableExactCorrect == Spec => []TableExact
<1>1. TableInv => TableExact
  BY DEF TableInv, TablesAgree, TableExact
<1> QED BY <1>1, TableInvariant, PTL

\* Whatever the main loop takes from its queue comes from a process in the
\* table: the process-exit handler cannot raise KeyError.
THEOREM SendersRegisteredCorrect == Spec => []SendersRegistered
<1>1. TypeOK /\ TableInv => SendersRegistered
  BY DEF TypeOK, TableInv, TablesAgree, QueueRegistered, SendersRegistered,
     Queued
<1> QED BY <1>1, TypeCorrect, TableInvariant, PTL

\* Both ends of every monitor are in the table: a reused pid inherits none.
THEOREM MonitorsLiveCorrect == Spec => []MonitorsLive
<1>1. TableInv => MonitorsLive
  BY DEF TableInv
<1> QED BY <1>1, TableInvariant, PTL

----------------------------------------------------------------------------
(* Down messages match the monitors a process was told of and carry the     *)
(* exit value the process left, so does the result, and central loses       *)
(* readers and breaks its loop only over clients that are gone.             *)

\* The sender of the message that is handled is in the table.
LEMMA SenderKnown ==
    ASSUME TypeOK, TableInv, NEW t, Receive(t)
    PROVE  /\ TablesAgree /\ Head(q) \in Message /\ Head(q).from \in processes
           /\ q # <<>> /\ q \in Seq(Message) /\ 1 \in 1..Len(q) /\ q[1] = Head(q)
           /\ \A i \in 1..Len(q') : i + 1 \in 1..Len(q) /\ q'[i] = q[i + 1]
<1>1. TablesAgree
  BY DEF TableInv, Receive
<1>2. /\ q # <<>> /\ q \in Seq(Message) /\ 1 \in 1..Len(q) /\ q[1] = Head(q)
      /\ Head(q) \in Message /\ q' = Tail(q)
  BY DEF TypeOK, Receive
<1>3. \A i \in 1..Len(q') : i + 1 \in 1..Len(q) /\ q'[i] = q[i + 1]
  BY <1>2
<1> QED BY <1>1, <1>2, <1>3 DEF TablesAgree, QueueRegistered

\* The pid a fork takes is not in the table.
LEMMA ForkFresh ==
    ASSUME TypeOK, TableInv, central = "running", NEW new \in Pid, NEW ret, Fork(new, ret)
    PROVE  /\ new \notin processes
           /\ \A i \in 1..Len(q) : q[i].from # new
           /\ \A m \in monitors : m.by # new /\ m.of # new
<1>1. new \notin processes /\ TablesAgree
  BY DEF Fork, TableInv, TablesAgree
<1> QED BY <1>1 DEF TableInv, TablesAgree, QueueRegistered, MonitorsLive

----------------------------------------------------------------------------
(* Down messages match monitors.                                            *)

\* Who has a monitor was told so, under the monitor's reference.
MonitorsTold ==
    central = "running" =>
        \A m \in monitors : Rep("spawned-ok", m.of, m.mref, None) \in inbox[m.by]
Told == MonitorsTold /\ DownMatchesSpawn

\* Replies that are no down messages.
LEMMA GrowTold ==
    ASSUME TypeOK, Told, UNCHANGED monitors, central' = "running" => central = "running",
           \A p \in Pid : /\ inbox[p] \subseteq inbox'[p]
                          /\ \A d \in inbox'[p] \ inbox[p] : d.type # "down"
    PROVE  Told'
<1>1. MonitorsTold'
  BY DEF Told, MonitorsTold, TypeOK, Monitor
<1>2. DownMatchesSpawn'
  <2> SUFFICES ASSUME NEW p \in Pid, NEW d \in inbox'[p], d.type = "down"
               PROVE  Rep("spawned-ok", d.who, d.mref, None) \in inbox'[p]
    BY DEF DownMatchesSpawn
  <2>1. d \in inbox[p]
    OBVIOUS
  <2> QED BY <2>1 DEF Told, DownMatchesSpawn
<1> QED BY <1>1, <1>2 DEF Told

LEMMA AnswerTold ==
    ASSUME TypeOK, Told, NEW p \in Pid, NEW m, m.type # "down", Answer(p, m),
           UNCHANGED monitors
    PROVE  Told'
<1>1. \A r \in Pid : /\ inbox[r] \subseteq inbox'[r]
                     /\ \A d \in inbox'[r] \ inbox[r] : d.type # "down"
  BY DEF TypeOK, Answer, Deliver
<1>2. central' = "running" => central = "running"
  BY DEF Answer, MustSend
<1> QED BY <1>1, <1>2, GrowTold

\* A process that is spawned has got nothing, and its watcher, if the loop goes
\* on, has got the reference.
LEMMA SpawnedTold ==
    ASSUME TypeOK, TableInv, Told, central = "running",
           NEW new \in Pid, NEW ret \in processes, NEW r, Spawned(new, ret, r),
           monitors' \in SUBSET Monitor,
           \A m \in monitors' :
               m \in monitors \/ (m.by = ret /\ m.of = new /\ m.mref = r)
    PROVE  Told'
<1> DEFINE ok == Rep("spawned-ok", new, r, None)
<1>1. /\ new # ret /\ ret \in Pid
      /\ \A m \in monitors : m.by # new
  BY ForkFresh DEF Spawned, TypeOK
<1>2. /\ inbox'[new] = {}
      /\ \A p \in Pid \ {new} : /\ inbox[p] \subseteq inbox'[p]
                                /\ \A d \in inbox'[p] \ inbox[p] : d = ok
      /\ CanSend(ret) => ok \in inbox'[ret]
  <2> HIDE DEF ok
  <2>1. inbox' = [p \in Pid |->
           IF p = new THEN {}
           ELSE IF p = ret /\ CanSend(ret) THEN inbox[p] \cup {ok} ELSE inbox[p]]
    BY DEF Spawned, ok
  <2> QED BY <1>1, <2>1
<1>3. central' = "running" => CanSend(ret)
  BY DEF Spawned, MustSend
<1>4. MonitorsTold'
  <2> SUFFICES ASSUME central' = "running", NEW m \in monitors'
               PROVE  Rep("spawned-ok", m.of, m.mref, None) \in inbox'[m.by]
    BY DEF MonitorsTold
  <2>1. CASE m \in monitors
    <3>1. m.by \in Pid \ {new}
      BY <1>1, <2>1 DEF TypeOK, Monitor
    <3> QED BY <1>2, <2>1, <3>1 DEF Told, MonitorsTold
  <2>2. CASE m.by = ret /\ m.of = new /\ m.mref = r
    BY <1>2, <1>3, <2>2
  <2> QED BY <2>1, <2>2
<1>5. ok.type # "down"
  BY DEF Rep
<1>6. DownMatchesSpawn'
  <2> SUFFICES ASSUME NEW p \in Pid, NEW d \in inbox'[p], d.type = "down"
               PROVE  Rep("spawned-ok", d.who, d.mref, None) \in inbox'[p]
    BY DEF DownMatchesSpawn
  <2> HIDE DEF ok
  <2>1. p \in Pid \ {new} /\ d \in inbox[p]
    BY <1>2, <1>5
  <2> QED BY <1>2, <2>1 DEF Told, DownMatchesSpawn
<1> QED BY <1>4, <1>6 DEF Told

\* The down messages for p go to those that monitored it.
LEMMA ForgetTold ==
    ASSUME TypeOK, Told, central = "running", NEW p \in Pid, ForgetProcess(p)
    PROVE  Told'
<1>1. \A w \in Pid :
        inbox[w] \subseteq inbox'[w] /\ inbox'[w] \subseteq inbox[w] \cup DownsFor(w, p)
  BY DEF TypeOK, ForgetProcess
<1>2. monitors' \subseteq monitors
  BY DEF ForgetProcess, MonitorsWithout
<1>3. MonitorsTold'
  BY <1>1, <1>2 DEF Told, MonitorsTold, TypeOK, Monitor
<1>4. DownMatchesSpawn'
  <2> SUFFICES ASSUME NEW w \in Pid, NEW d \in inbox'[w], d.type = "down"
               PROVE  Rep("spawned-ok", d.who, d.mref, None) \in inbox'[w]
    BY DEF DownMatchesSpawn
  <2>1. CASE d \in inbox[w]
    BY <1>1, <2>1 DEF Told, DownMatchesSpawn
  <2>2. CASE d \in DownsFor(w, p)
    <3>1. PICK m \in monitors : /\ m.of = p /\ m.by = w
                                /\ d = Rep("down", p, m.mref, ExitOf(p))
      BY <2>2 DEF DownsFor, Watched
    <3>2. d.who = m.of /\ d.mref = m.mref
      BY <3>1 DEF Rep
    <3> QED BY <1>1, <3>1, <3>2 DEF Told, MonitorsTold
  <2> QED BY <1>1, <2>1, <2>2
<1> QED BY <1>3, <1>4 DEF Told

\* A connection is announced to both sides, and nothing else.
LEMMA ConnectInbox ==
    ASSUME TypeOK, HandleConnect
    PROVE  \A p \in Pid : /\ inbox[p] \subseteq inbox'[p]
                          /\ \A d \in inbox'[p] \ inbox[p] : d.type # "down"
<1> DEFINE from == Head(q).from
           to   == Resolve(Head(q).arg)
           ok   == (Known(Head(q).arg) /\ Known(from)) /\ CanSend(to)
           more(p) == (IF p = to THEN ToTarget(ok, from) ELSE {})
                      \cup (IF p = from /\ CanSend(from) THEN ToCaller(ok, to) ELSE {})
<1>1. \A b, p : /\ \A d \in ToTarget(b, p) : d.type # "down"
                /\ \A d \in ToCaller(b, p) : d.type # "down"
  BY DEF ToTarget, ToCaller, Rep
<1>2. inbox' = [p \in Pid |-> inbox[p]
             \cup (IF p = to THEN ToTarget(ok, from) ELSE {})
             \cup (IF p = from /\ CanSend(from) THEN ToCaller(ok, to) ELSE {})]
  BY DEF HandleConnect
<1> HIDE DEF ok, to, from
<1>3. \A p \in Pid : \A d \in more(p) : d.type # "down"
  BY <1>1
<1>4. \A p \in Pid : inbox'[p] = inbox[p] \cup more(p)
  BY <1>2
<1> QED BY <1>3, <1>4

LEMMA NextTold ==
    ASSUME TypeOK, TypeOK', TableInv, Told, [Next]_vars
    PROVE  Told'
<1>1. CASE UNCHANGED <<inbox, monitors>> /\ (central' = "running" => central = "running")
  BY <1>1, GrowTold
<1>2. ASSUME NEW p \in Pid,
             \/ Arm(p) \/ Request(p) \/ Report(p) \/ Die(p) \/ TornWrite(p)
             \/ Detach(p) \/ ReaderStep(p) \/ ReadShort(p)
      PROVE  UNCHANGED <<inbox, monitors, central>>
  BY <1>2 DEF Arm, ReadShort, Request, Report, Die, TornWrite, Detach, ReaderStep, ReadValue,
     ReadTorn, ReadGarbled, ReadEof, ReadBadFd, NotifyDisconnect, tableVars
<1>3. CASE \/ HandleProcessExit \/ LauncherDisconnected \/ HandleTopLevelExit
           \/ HandleOther \/ Shutdown \/ LauncherGone \/ CentralGone \/ UNCHANGED vars
  <2>1. UNCHANGED <<inbox, monitors>> /\ (central' = "running" => central = "running")
    BY <1>3 DEF HandleProcessExit, LauncherDisconnected, HandleTopLevelExit,
       HandleOther, SafeSend, Shutdown, LauncherGone, CentralGone, tableVars, vars
  <2> QED BY <1>1, <2>1
<1>4. CASE HandlePing
  <2>1. Head(q).from \in Pid /\ UNCHANGED monitors
    BY <1>4, ReceiveType DEF HandlePing, tableVars
  <2>2. Rep("pong", None, NoMref, None).type # "down"
    BY DEF Rep
  <2> QED BY <1>4, <2>1, <2>2, AnswerTold DEF HandlePing
<1>5. CASE HandleConnect
  <2>1. UNCHANGED monitors /\ (central' = "running" => central = "running")
    BY <1>5 DEF HandleConnect, MustSend, tableVars
  <2> QED BY <1>5, <2>1, ConnectInbox, GrowTold
<1>6. CASE HandleSpawn \/ HandleSpawnMonitor
  <2> DEFINE ret == Head(q).from
  <2>1. central = "running" /\ ret \in processes /\ ret \in Pid
    <3>1. \E t : Receive(t)
      BY <1>6 DEF HandleSpawn, HandleSpawnMonitor
    <3> QED BY <3>1, SenderKnown DEF Receive, TypeOK
  <2>2. CASE SpawnFailed(ret)
    <3>1. Rep("spawn-error", None, NoMref, None).type # "down"
      BY DEF Rep
    <3> QED BY <2>1, <2>2, <3>1, AnswerTold DEF SpawnFailed
  <2>3. ASSUME NEW new \in Pid, Spawned(new, ret, NoMref), UNCHANGED monitors
        PROVE  Told'
    <3> HIDE DEF ret
    <3>1. monitors' \in SUBSET Monitor
      BY DEF TypeOK
    <3> QED BY <2>1, <2>3, <3>1, SpawnedTold
  <2>4. ASSUME NEW new \in Pid, Spawned(new, ret, nextMref), AddMonitor(ret, new)
        PROVE  Told'
    <3> HIDE DEF ret
    <3>1. monitors' \in SUBSET Monitor
      BY DEF TypeOK
    <3>2. \A m \in monitors' : m \in monitors \/ (m.by = ret /\ m.of = new /\ m.mref = nextMref)
      BY <2>4 DEF AddMonitor
    <3> QED BY <2>1, <2>4, <3>1, <3>2, SpawnedTold
  <2> QED BY <1>6, <2>2, <2>3, <2>4 DEF HandleSpawn, HandleSpawnMonitor
<1>7. CASE HandleDisconnected
  <2> DEFINE addr == Head(q).from
  <2>1. central = "running" /\ addr \in Pid /\ addr \in processes
    BY <1>7, SenderKnown DEF HandleDisconnected, Receive, TypeOK
  <2>2. ReapProcess(addr)
    BY <1>7, <2>1 DEF HandleDisconnected
  <2>3. CASE ForgetProcess(addr)
    <3> HIDE DEF addr
    <3> QED BY <2>1, <2>3, ForgetTold
  <2>4. CASE UNCHANGED <<inbox, monitors>>
    BY <1>1, <2>1, <2>4
  <2> QED BY <2>2, <2>3, <2>4 DEF ReapProcess
<1> QED BY <1>1, <1>2, <1>3, <1>4, <1>5, <1>6, <1>7 DEF Next, MainStep

\* Every down message a process gets is for a process it was told it monitors,
\* under the reference it was given: the monitor is in the table before the reply
\* is sent, and a pid that is used again inherits none.
THEOREM DownMatchesSpawnCorrect == Spec => []DownMatchesSpawn
<1>1. Init => Told
  BY DEF Init, Told, MonitorsTold, DownMatchesSpawn
<1>2. TypeOK /\ TypeOK' /\ TableInv /\ Told /\ [Next]_vars => Told'
  BY NextTold
<1>3. Told => DownMatchesSpawn
  BY DEF Told
<1> QED BY <1>1, <1>2, <1>3, TypeCorrect, TableInvariant, PTL DEF Spec

----------------------------------------------------------------------------
(* Clients that central has lost are gone.                                  *)

\* Who has torn a message is gone; central has lost the reader of a process,
\* closed its socket or taken it out of the cache only when the process is gone,
\* or given up; a reader that was cut short has left something unread.
TornGone ==
    \A p \in Pid : \A i \in 1..Len(wire[p]) : wire[p][i].type = "torn" => p \notin open
ShutGone == \A p \in Pid : sock[p] = "shut" => p \notin open \/ GivenUp(p)
LostGone == \A p \in Pid : reader[p] = "lost" => p \notin open \/ GivenUp(p)
LeftGone == \A p \in processes : sock[p] = "none" => p \notin open
CutShorts == \A p \in Pid : reader[p] = "cut" => CutShort(p)
Gone     == TornGone /\ ShutGone /\ LostGone /\ LeftGone /\ CutShorts

\* Elements of a stream with one more message, or one less.
LEMMA Longer ==
    ASSUME NEW w \in Seq(Message), NEW m \in Message
    PROVE  /\ Append(w, m) # <<>> /\ Len(Append(w, m)) = Len(w) + 1
           /\ Append(w, m)[Len(w) + 1] = m
           /\ \A i \in 1..Len(w) : Append(w, m)[i] = w[i]
           /\ \A i \in 1..Len(Append(w, m)) :
                 (i \in 1..Len(w) /\ Append(w, m)[i] = w[i]) \/ Append(w, m)[i] = m
           /\ w # <<>> => Head(Append(w, m)) = Head(w)
<1>1. /\ Append(w, m) # <<>> /\ Len(Append(w, m)) = Len(w) + 1
      /\ Append(w, m)[Len(w) + 1] = m
      /\ \A i \in 1..Len(w) : Append(w, m)[i] = w[i]
  OBVIOUS
<1>2. ASSUME NEW i \in 1..Len(Append(w, m))
      PROVE  (i \in 1..Len(w) /\ Append(w, m)[i] = w[i]) \/ Append(w, m)[i] = m
  BY <1>1
<1>3. w # <<>> => Head(Append(w, m)) = Head(w)
  BY <1>1
<1> QED BY <1>1, <1>2, <1>3

LEMMA Shorter ==
    ASSUME NEW w \in Seq(Message), w # <<>>
    PROVE  /\ Head(w) = w[1] /\ 1 \in 1..Len(w)
           /\ \A i \in 1..Len(Tail(w)) : i + 1 \in 1..Len(w) /\ Tail(w)[i] = w[i + 1]
           /\ \A i \in 1..Len(w) : i # 1 => i - 1 \in 1..Len(Tail(w)) /\ Tail(w)[i - 1] = w[i]
<1>1. Head(w) = w[1] /\ 1 \in 1..Len(w)
  OBVIOUS
<1>2. \A i \in 1..Len(Tail(w)) : i + 1 \in 1..Len(w) /\ Tail(w)[i] = w[i + 1]
  OBVIOUS
<1>3. \A i \in 1..Len(w) : i # 1 => i - 1 \in 1..Len(Tail(w)) /\ Tail(w)[i - 1] = w[i]
  OBVIOUS
<1> QED BY <1>1, <1>2, <1>3

\* A client writes m, and dies when it tears it.
LEMMA WriteGone ==
    ASSUME TypeOK, Gone, NEW p \in Pid, NEW m \in Message, Write(p, m),
           m.type = "torn" => p \notin open', open' \subseteq open,
           UNCHANGED <<sock, reader, processes>>
    PROVE  Gone'
<1>1. /\ wire' = [wire EXCEPT ![p] = Append(wire[p], m)] /\ wire[p] \in Seq(Message)
      /\ wire \in [Pid -> Seq(Message)]
  BY DEF TypeOK, Write
<1>2. \A r \in Pid \ {p} : wire'[r] = wire[r]
  BY <1>1
<1> DEFINE w == wire[p]
<1>3. wire'[p] = Append(w, m) /\ w \in Seq(Message)
  BY <1>1
<1> HIDE DEF w
<1>4. /\ \A i \in 1..Len(wire'[p]) :
            (i \in 1..Len(w) /\ wire'[p][i] = w[i]) \/ wire'[p][i] = m
      /\ wire'[p] # <<>> /\ (w # <<>> => Head(wire'[p]) = Head(w))
  BY <1>3, Longer
<1>5. TornGone'
  <2> SUFFICES ASSUME NEW r \in Pid, NEW i \in 1..Len(wire'[r]), wire'[r][i].type = "torn"
               PROVE  r \notin open'
    BY DEF TornGone
  <2>1. CASE r = p
    BY <1>4, <2>1 DEF Gone, TornGone, w
  <2>2. CASE r # p
    BY <1>2, <2>2 DEF Gone, TornGone
  <2> QED BY <2>1, <2>2
<1>6. ASSUME NEW r \in Pid, GivenUp(r) PROVE GivenUp(r)'
  <2>1. CASE r = p
    BY <1>4, <1>6, <2>1 DEF GivenUp, w
  <2>2. CASE r # p
    BY <1>2, <1>6, <2>2 DEF GivenUp
  <2> QED BY <2>1, <2>2
<1>7. ShutGone' /\ LostGone' /\ LeftGone'
  BY <1>6 DEF Gone, ShutGone, LostGone, LeftGone
<1>8. CutShorts'
  BY <1>2, <1>4 DEF Gone, CutShorts, CutShort
<1> QED BY <1>5, <1>7, <1>8 DEF Gone

\* Steps that write nothing, read nothing and lose nobody.
LEMMA QuietGone ==
    ASSUME TypeOK, Gone, UNCHANGED <<wire, reader>>, open' \subseteq open,
           processes' \subseteq processes,
           \A p \in Pid : sock'[p] = sock[p] \/ (sock'[p] = "shut" /\ p \notin open)
    PROVE  Gone'
<1>1. processes \subseteq Pid
  BY DEF TypeOK
<1> QED BY <1>1 DEF Gone, TornGone, ShutGone, LostGone, LeftGone, GivenUp,
        CutShorts, CutShort

\* A send shuts the sockets of clients that are gone.
LEMMA AfterSendGone ==
    ASSUME TypeOK, NEW S, NEW p \in Pid
    PROVE  AfterSend(S)[p] = sock[p] \/ (AfterSend(S)[p] = "shut" /\ p \notin open)
BY DEF AfterSend

LEMMA ForkGone ==
    ASSUME TypeOK, Gone, NEW new \in Pid, NEW ret, Fork(new, ret)
    PROVE  Gone'
<1>1. /\ wire' = [wire EXCEPT ![new] = <<>>] /\ open' = open \cup {new}
      /\ reader' = [reader EXCEPT ![new] = "reading"] /\ processes' = processes \cup {new}
      /\ sock' = [AfterSend({ret}) EXCEPT ![new] = "open"]
  BY DEF Fork
<1>2. AfterSend({ret}) \in [Pid -> {"none", "open", "shut"}]
  BY AfterSendType
<1>3. \A p \in Pid \ {new} :
        /\ wire'[p] = wire[p] /\ reader'[p] = reader[p] /\ (p \in open' <=> p \in open)
        /\ sock'[p] = sock[p] \/ (sock'[p] = "shut" /\ p \notin open)
  BY <1>1, <1>2, AfterSendGone DEF TypeOK
<1>4. wire'[new] = <<>> /\ reader'[new] = "reading" /\ sock'[new] = "open"
  BY <1>1, <1>2 DEF TypeOK
<1>5. processes \subseteq Pid
  BY DEF TypeOK
<1>6. TornGone'
  <2>1. ASSUME NEW p \in Pid, NEW i \in 1..Len(wire'[p]), wire'[p][i].type = "torn"
        PROVE  p \notin open'
    <3>1. p # new
      BY <1>4
    <3> QED BY <1>3, <2>1, <3>1 DEF Gone, TornGone
  <2> QED BY <2>1 DEF TornGone
<1>7. ShutGone' /\ LostGone' /\ CutShorts'
  BY <1>3, <1>4 DEF Gone, ShutGone, LostGone, GivenUp, CutShorts, CutShort
<1>8. LeftGone'
  BY <1>1, <1>3, <1>4, <1>5 DEF Gone, LeftGone
<1> QED BY <1>6, <1>7, <1>8 DEF Gone

\* A reader that is lost has met a torn or garbled message, or a closed socket,
\* or was cut short.
LEMMA ReaderGone ==
    ASSUME TypeOK, Gone, NEW p \in Pid, ReaderStep(p) \/ ReadShort(p)
    PROVE  Gone'
<1>1. /\ wire \in [Pid -> Seq(Message)] /\ sock \in [Pid -> {"none", "open", "shut"}]
      /\ reader \in [Pid -> {"none", "reading", "closing", "lost", "cut"}]
      /\ processes \subseteq Pid
  BY DEF TypeOK
<1>2. UNCHANGED <<open, processes>>
  BY DEF ReaderStep, ReadValue, ReadTorn, ReadShort, ReadGarbled, ReadEof,
     ReadBadFd, NotifyDisconnect, osVars, tableVars
<1>3. CASE ReadValue(p)
  <2>1. /\ wire' = [wire EXCEPT ![p] = Tail(wire[p])] /\ wire[p] # <<>>
        /\ reader[p] = "reading" /\ sock[p] = "open" /\ UNCHANGED <<reader, sock>>
    BY <1>3 DEF ReadValue
  <2>2. \A i \in 1..Len(wire'[p]) : i + 1 \in 1..Len(wire[p]) /\ wire'[p][i] = wire[p][i + 1]
    BY <1>1, <2>1
  <2>3. \A r \in Pid \ {p} : wire'[r] = wire[r]
    BY <1>1, <2>1
  <2>4. TornGone'
    BY <1>2, <2>2, <2>3 DEF Gone, TornGone
  <2>5. ShutGone' /\ LostGone' /\ LeftGone' /\ CutShorts'
    BY <1>2, <2>1, <2>3 DEF Gone, ShutGone, LostGone, LeftGone, GivenUp,
       CutShorts, CutShort
  <2> QED BY <2>4, <2>5 DEF Gone
<1>4. CASE ReadTorn(p) \/ ReadBadFd(p)
  <2>1. /\ reader' = [reader EXCEPT ![p] = "lost"] /\ UNCHANGED <<wire, sock>>
        /\ reader[p] = "reading"
    BY <1>4 DEF ReadTorn, ReadBadFd, clientVars
  <2>2. p \notin open
    <3>1. CASE ReadTorn(p)
      <4>1. wire[p] \in Seq(Message) /\ wire[p] # <<>> /\ Head(wire[p]).type = "torn"
        BY <1>1, <3>1 DEF ReadTorn
      <4>2. 1 \in 1..Len(wire[p]) /\ wire[p][1].type = "torn"
        BY <4>1
      <4> QED BY <4>2 DEF Gone, TornGone
    <3>2. CASE ReadBadFd(p)
      BY <3>2 DEF ReadBadFd, Gone, ShutGone, GivenUp
    <3> QED BY <1>4, <3>1, <3>2
  <2>3. TornGone' /\ LeftGone'
    BY <1>2, <2>1 DEF Gone, TornGone, LeftGone
  <2>4. ShutGone' /\ LostGone' /\ CutShorts'
    BY <1>1, <1>2, <2>1, <2>2 DEF Gone, ShutGone, LostGone, GivenUp, CutShorts,
       CutShort
  <2> QED BY <2>3, <2>4 DEF Gone
<1>5. CASE ReadGarbled(p)
  <2>1. /\ reader' = [reader EXCEPT ![p] = "lost"] /\ sock[p] = "open"
        /\ sock' = sock \/ sock' = [sock EXCEPT ![p] = "shut"]
        /\ UNCHANGED wire /\ wire[p] # <<>> /\ Head(wire[p]).type = "garbled"
    BY <1>5 DEF ReadGarbled, clientVars
  <2>2. GivenUp(p)'
    BY <1>1, <2>1 DEF GivenUp
  <2>3. \A r \in Pid \ {p} : sock'[r] = sock[r] /\ reader'[r] = reader[r]
    BY <1>1, <2>1
  <2>4. TornGone'
    BY <1>2, <2>1 DEF Gone, TornGone
  <2>5. ShutGone' /\ LostGone' /\ CutShorts'
    BY <1>1, <1>2, <2>1, <2>2, <2>3 DEF Gone, ShutGone, LostGone, GivenUp,
       CutShorts, CutShort
  <2>6. LeftGone'
    BY <1>1, <1>2, <2>1, <2>3 DEF Gone, LeftGone
  <2> QED BY <2>4, <2>5, <2>6 DEF Gone
<1>6. CASE ReadEof(p) \/ NotifyDisconnect(p)
  <2>1. /\ UNCHANGED wire /\ reader[p] # "lost" /\ reader'[p] \notin {"lost", "cut"}
        /\ \A r \in Pid \ {p} : sock'[r] = sock[r] /\ reader'[r] = reader[r]
        /\ sock'[p] = sock[p] \/ (sock'[p] = "none" /\ p \notin open)
    BY <1>1, <1>6 DEF ReadEof, NotifyDisconnect, clientVars, EndOfStream
  <2>2. TornGone'
    BY <1>2, <2>1 DEF Gone, TornGone
  <2>3. ShutGone' /\ LostGone' /\ CutShorts'
    BY <1>2, <2>1 DEF Gone, ShutGone, LostGone, GivenUp, CutShorts, CutShort
  <2>4. LeftGone'
    BY <1>1, <1>2, <2>1 DEF Gone, LeftGone
  <2> QED BY <2>2, <2>3, <2>4 DEF Gone
<1>7. CASE ReadShort(p)
  <2>1. /\ reader' = [reader EXCEPT ![p] = "cut"] /\ UNCHANGED <<wire, sock>>
        /\ wire[p] # <<>>
    BY <1>7 DEF ReadShort, clientVars
  <2>2. \A r \in Pid : reader'[r] = reader[r] \/ (r = p /\ reader'[r] = "cut")
    BY <1>1, <2>1
  <2>3. TornGone' /\ LeftGone'
    BY <1>2, <2>1 DEF Gone, TornGone, LeftGone
  <2>4. ShutGone'
    <3>1. ASSUME NEW r \in Pid, GivenUp(r) PROVE GivenUp(r)'
      <4>1. r # p
        BY <1>7, <3>1 DEF GivenUp, ReadShort
      <4> QED BY <2>1, <2>2, <3>1, <4>1 DEF GivenUp
    <3> QED BY <1>2, <2>1, <3>1 DEF Gone, ShutGone
  <2>5. LostGone' /\ CutShorts'
    BY <1>2, <2>1, <2>2 DEF Gone, LostGone, GivenUp, CutShorts, CutShort
  <2> QED BY <2>3, <2>4, <2>5 DEF Gone
<1> QED BY <1>3, <1>4, <1>5, <1>6, <1>7 DEF ReaderStep

LEMMA NextGone ==
    ASSUME TypeOK, Gone, [Next]_vars
    PROVE  Gone'
<1>1. ASSUME NEW p \in Pid, Request(p) PROVE Gone'
  <2>1. PICK m \in Message : Write(p, m) /\ m.type # "torn"
    <3>1. ASSUME NEW kind \in Kinds, NEW a \in Arguments(kind)
          PROVE  Msg(kind, p, a) \in Message /\ Msg(kind, p, a).type # "torn"
      <4>1. kind # "torn"
        BY CentralAssumption DEF RequestKinds
      <4> QED BY <4>1, MsgType, CentralAssumption DEF Arguments, MessageTypes, RequestKinds, Msg
    <3>2. Msg("garbled", p, None) \in Message /\ Msg("garbled", p, None).type # "torn"
      BY MsgType DEF MessageTypes, Msg
    <3> QED BY <1>1, <3>1, <3>2 DEF Request
  <2> QED BY <1>1, <2>1, WriteGone DEF Request, osVars, readerVars, tableVars
<1>2. ASSUME NEW p \in Pid, Report(p) PROVE Gone'
  <2>1. PICK v \in Returns : Write(p, Msg("process-exit", p, v))
    BY <1>2 DEF Report
  <2>2. Msg("process-exit", p, v) \in Message /\ Msg("process-exit", p, v).type # "torn"
    BY MsgType, CentralAssumption DEF MessageTypes, Msg
  <2> QED BY <1>2, <2>1, <2>2, WriteGone DEF Report, osVars, readerVars, tableVars
<1>3. ASSUME NEW p \in Pid, TornWrite(p) PROVE Gone'
  <2>1. Msg("torn", p, None) \in Message
    BY MsgType DEF MessageTypes
  <2> QED BY <1>3, <2>1, WriteGone DEF TornWrite, Dead, readerVars, tableVars
<1>4. CASE /\ UNCHANGED <<wire, reader, sock>> /\ open' \subseteq open
           /\ processes' \subseteq processes
  BY <1>4, QuietGone
<1>5. ASSUME NEW p \in Pid, Arm(p) \/ Die(p) \/ Detach(p) PROVE Gone'
  <2>1. UNCHANGED <<wire, reader, sock>> /\ open' \subseteq open /\ processes' \subseteq processes
    BY <1>5 DEF Arm, Die, Detach, Dead, clientVars, readerVars, tableVars
  <2> QED BY <1>4, <2>1
<1>6. CASE \/ HandleProcessExit \/ LauncherDisconnected \/ HandleTopLevelExit
           \/ Shutdown \/ LauncherGone \/ CentralGone \/ UNCHANGED vars
  <2>1. UNCHANGED <<wire, reader, sock>> /\ open' \subseteq open /\ processes' \subseteq processes
    BY <1>6 DEF HandleProcessExit, LauncherDisconnected, HandleTopLevelExit,
       Shutdown, LauncherGone, CentralGone, clientVars, readerVars, tableVars,
       osVars, vars
  <2> QED BY <1>4, <2>1
<1>7. CASE HandlePing \/ HandleConnect \/ HandleOther
  <2>1. /\ UNCHANGED <<wire, reader, open, processes>>
        /\ \E S : sock' = AfterSend(S)
    BY <1>7 DEF HandlePing, HandleConnect, HandleOther, clientVars, osVars, tableVars
  <2> QED BY <2>1, AfterSendGone, QuietGone
<1>8. CASE HandleSpawn \/ HandleSpawnMonitor
  <2>1. CASE SpawnFailed(Head(q).from)
    <3>1. /\ UNCHANGED <<wire, reader, open, processes>>
          /\ \E S : sock' = AfterSend(S)
      BY <2>1 DEF SpawnFailed
    <3> QED BY <3>1, AfterSendGone, QuietGone
  <2>2. ASSUME NEW new \in Pid, Fork(new, Head(q).from) PROVE Gone'
    BY <2>2, ForkGone
  <2> QED BY <1>8, <2>1, <2>2 DEF HandleSpawn, HandleSpawnMonitor, Spawned
<1>9. CASE HandleDisconnected
  <2>1. UNCHANGED <<wire, reader, open>>
    BY <1>9 DEF HandleDisconnected, clientVars
  <2>2. CASE UNCHANGED <<sock, processes>>
    BY <1>4, <2>1, <2>2
  <2>3. CASE ForgetProcess(Head(q).from)
    <3>1. processes' \subseteq processes /\ \E S : sock' = AfterSend(S)
      BY <2>3 DEF ForgetProcess
    <3> QED BY <2>1, <3>1, AfterSendGone, QuietGone
  <2> QED BY <1>9, <2>2, <2>3 DEF HandleDisconnected, ReapProcess
<1> QED BY <1>1, <1>2, <1>3, <1>5, <1>6, <1>7, <1>8, <1>9, ReaderGone DEF Next, MainStep

LEMMA AlwaysGone == Spec => []Gone
<1>1. Init => Gone
  <2> SUFFICES ASSUME Init PROVE Gone OBVIOUS
  <2>1. processes \subseteq Pid
    BY CentralAssumption DEF Init
  <2>2. TornGone
    BY DEF Init, TornGone
  <2>3. ShutGone /\ LostGone /\ LeftGone /\ CutShorts
    BY <2>1 DEF Init, ShutGone, LostGone, LeftGone, CutShorts
  <2> QED BY <2>2, <2>3 DEF Gone
<1>2. TypeOK /\ Gone /\ [Next]_vars => Gone'
  BY NextGone
<1> QED BY <1>1, <1>2, TypeCorrect, PTL DEF Spec

\* Central stops listening only to clients that are gone, that wrote what it
\* cannot load, or that were writing when it was stopped and continued: a failed
\* send shuts the socket of a client that is gone only.
THEOREM LostWithReasonCorrect == Spec => []LostWithReason
<1>1. TypeOK /\ Gone => LostWithReason
  BY DEF TypeOK, Gone, LostGone, CutShorts, LostWithReason, Lost
<1> QED BY <1>1, TypeCorrect, AlwaysGone, PTL

\* The loop breaks over the client it serves, when that is gone or given up, or
\* over a core dump: over nobody else's death.
THEOREM BreaksOnlyCorrect == Spec => BreaksOnlyOnGoneClient
<1> DEFINE from == Head(q).from
           Excused == \/ /\ Head(q).type # "client-disconnected"
                         /\ from \notin open \/ GivenUp(from)
                      \/ status[from] = "dumped"
<1>1. ASSUME TypeOK, TableInv, Gone, [Next]_vars, central = "running", central' = "broken"
      PROVE  Excused
  <2>1. ASSUME NEW t, t # "client-disconnected", Receive(t), MustSend(from)
        PROVE  Excused
    <3>1. from \in processes /\ from \in Pid /\ Head(q).type = t
      BY <1>1, <2>1, SenderKnown DEF Receive, TypeOK
    <3>2. ~CanSend(from)
      BY <1>1, <2>1 DEF MustSend
    <3>3. sock[from] \in {"none", "open", "shut"}
      BY <1>1, <3>1 DEF TypeOK
    <3>4. from \notin open \/ GivenUp(from)
      BY <1>1, <3>1, <3>2, <3>3 DEF CanSend, Gone, ShutGone, LeftGone
    <3> QED BY <2>1, <3>1, <3>4
  <2>2. CASE HandleProcessExit
    <3>1. from \in processes
      BY <1>1, <2>2, SenderKnown DEF HandleProcessExit
    <3> QED BY <1>1, <2>2, <3>1 DEF HandleProcessExit
  <2>3. CASE HandlePing
    BY <2>1, <2>3 DEF HandlePing, Answer
  <2>4. CASE HandleSpawn
    BY <2>1, <2>4 DEF HandleSpawn, Spawned, SpawnFailed, Answer
  <2>5. CASE HandleSpawnMonitor
    BY <2>1, <2>5 DEF HandleSpawnMonitor, Spawned, SpawnFailed, Answer
  <2>6. CASE HandleConnect
    BY <2>1, <2>6 DEF HandleConnect
  <2>7. CASE HandleDisconnected
    <3>1. from \in processes
      BY <1>1, <2>7, SenderKnown DEF HandleDisconnected
    <3> QED BY <1>1, <2>7, <3>1 DEF HandleDisconnected, ReapProcess, ForgetProcess, SafeSend
  <2>8. CASE \/ LauncherDisconnected \/ HandleTopLevelExit \/ HandleOther
             \/ Shutdown \/ LauncherGone \/ CentralGone \/ UNCHANGED vars
    BY <1>1, <2>8 DEF LauncherDisconnected, HandleTopLevelExit, HandleOther, SafeSend,
       Shutdown, LauncherGone, CentralGone, vars
  <2>9. ASSUME NEW p \in Pid,
               \/ Arm(p) \/ Request(p) \/ Report(p) \/ Die(p) \/ TornWrite(p)
               \/ Detach(p) \/ ReaderStep(p) \/ ReadShort(p)
        PROVE  FALSE
    BY <1>1, <2>9 DEF Arm, ReadShort, Request, Report, Die, TornWrite, Detach, ReaderStep, ReadValue,
       ReadTorn, ReadGarbled, ReadEof, ReadBadFd, NotifyDisconnect
  <2> QED BY <1>1, <2>2, <2>3, <2>4, <2>5, <2>6, <2>7, <2>8, <2>9 DEF Next, MainStep
<1>2. TypeOK /\ TableInv /\ Gone /\ [Next]_vars =>
        [central = "running" /\ central' = "broken" => Excused]_vars
  BY <1>1
<1> QED BY <1>2, TypeCorrect, TableInvariant, AlwaysGone, PTL DEF Spec, BreaksOnlyOnGoneClient

----------------------------------------------------------------------------
(* Exit values are those the processes left.                                *)

\* An exit value that is written, in the table or queued is the one reported.
WireTrue ==
    \A p \in Pid : \A i \in 1..Len(wire[p]) :
        wire[p][i].type = "process-exit" => wire[p][i].arg = report[p]
TableTrue == \A p \in Pid : exitVal[p] # None => exitVal[p] = report[p]
QueueTrue ==
    \A i \in 1..Len(q) : q[i].type = "process-exit" => q[i].arg = report[q[i].from]

\* It is in one of these until the process has been joined, and a reader that is
\* over has left nothing unread.
Kept(p) ==
    \/ exitVal[p] # None
    \/ \E i \in 1..Len(q) : q[i].type = "process-exit" /\ q[i].from = p
    \/ \E i \in 1..Len(wire[p]) : wire[p][i].type = "process-exit"
ReportsKept == \A p \in processes : report[p] # None => Kept(p)
ReadOut ==
    \A p \in processes :
        reader[p] \in {"closing", "none"} => p \notin open /\ wire[p] = <<>>

Written == WireTrue /\ TableTrue
Pending == QueueTrue /\ ReportsKept /\ ReadOut
Exits   == Written /\ (central = "running" => Pending)

\* What central passes on, when the disconnect of a process is its turn.
LEMMA ExitTrue ==
    ASSUME TypeOK, TableInv, Exits, Receive("client-disconnected"),
           Head(q).from \in processes
    PROVE  ExitOf(Head(q).from) = TrueExit(Head(q).from)
<1> DEFINE addr == Head(q).from
<1>1. /\ TablesAgree /\ q \in Seq(Message) /\ 1 \in 1..Len(q) /\ q[1] = Head(q)
      /\ Head(q).type = "client-disconnected" /\ addr \in Pid /\ Exits /\ Pending
  BY SenderKnown DEF Receive, TypeOK, Exits
<1>2. wire[addr] = <<>>
  BY <1>1 DEF TablesAgree, ReaderOver, Pending, ReadOut
<1>3. ASSUME NEW i \in 1..Len(q), q[i].from = addr PROVE q[i].type # "process-exit"
  <2>1. i = 1 \/ 1 < i
    BY <1>1
  <2> QED BY <1>1, <1>3, <2>1 DEF TablesAgree, DisconnectLast
<1>4. report[addr] # None => exitVal[addr] # None
  BY <1>1, <1>2, <1>3 DEF Pending, ReportsKept, Kept
<1>5. exitVal[addr] # None => exitVal[addr] = report[addr]
  BY <1>1 DEF Exits, Written, TableTrue
<1> QED BY <1>4, <1>5 DEF ExitOf, TrueExit

\* A client writes m, which reports its exit value, or does not.
LEMMA WriteExits ==
    ASSUME TypeOK, TypeOK', TableInv, Exits, central = "running", NEW p \in Pid, p \in open,
           NEW m \in Message, Write(p, m), m.from = p,
           \/ m.type # "process-exit" /\ report' = report
           \/ /\ m.type = "process-exit" /\ report[p] = None
              /\ report' = [report EXCEPT ![p] = m.arg],
           open' \subseteq open, UNCHANGED <<q, exitVal, processes, reader>>
    PROVE  Exits'
<1> DEFINE w == wire[p]
<1>1. w \in Seq(Message) /\ wire'[p] = Append(w, m) /\ \A r \in Pid \ {p} : wire'[r] = wire[r]
  BY DEF TypeOK, Write
<1> HIDE DEF w
<1>2. /\ Len(wire'[p]) = Len(w) + 1 /\ wire'[p][Len(w) + 1] = m
      /\ \A i \in 1..Len(w) : wire'[p][i] = w[i]
      /\ \A i \in 1..Len(wire'[p]) :
            (i \in 1..Len(w) /\ wire'[p][i] = w[i]) \/ wire'[p][i] = m
  BY <1>1, Longer
<1>3. Len(w) \in Nat /\ Len(w) + 1 \in 1..Len(wire'[p]) /\ 1..Len(w) \subseteq 1..Len(wire'[p])
  BY <1>1, <1>2
<1>4. /\ \A r \in Pid \ {p} : report'[r] = report[r]
      /\ report[p] # None => report'[p] = report[p] /\ m.type # "process-exit"
      /\ m.type = "process-exit" => report'[p] = m.arg /\ report[p] = None
  BY DEF TypeOK
<1>5. None \notin Reports
  BY DEF None, Reports
<1>6. \A x \in Message : x.type = "process-exit" => x.arg # None
  BY <1>5 DEF Message
<1>7. Pending /\ TablesAgree /\ processes \subseteq Pid
  BY DEF Exits, TableInv, TypeOK
<1>8. WireTrue'
  <2> SUFFICES ASSUME NEW r \in Pid, NEW i \in 1..Len(wire'[r]),
                      wire'[r][i].type = "process-exit"
               PROVE  wire'[r][i].arg = report'[r]
    BY DEF WireTrue
  <2>1. CASE r # p
    BY <1>1, <1>4, <2>1 DEF Exits, Written, WireTrue
  <2>2. CASE r = p /\ i \in 1..Len(w) /\ wire'[p][i] = w[i]
    <3>1. w[i] \in Message
      BY <1>1, <2>2
    <3>2. w[i].arg = report[p]
      BY <2>2 DEF Exits, Written, WireTrue, w
    <3> QED BY <1>4, <1>6, <2>2, <3>1, <3>2
  <2>3. CASE r = p /\ wire'[p][i] = m
    BY <1>4, <2>3
  <2> QED BY <1>2, <2>1, <2>2, <2>3
<1>9. TableTrue'
  BY <1>4 DEF Exits, Written, TableTrue, TypeOK
<1>10. QueueTrue'
  <2> SUFFICES ASSUME NEW i \in 1..Len(q), q[i].type = "process-exit"
               PROVE  q[i].arg = report'[q[i].from]
    BY DEF QueueTrue
  <2>1. q[i] \in Message /\ q[i].from \in Pid /\ q[i].arg = report[q[i].from]
    BY <1>7 DEF TypeOK, Message, Pending, QueueTrue
  <2> QED BY <1>4, <1>6, <2>1
<1>11. ReportsKept'
  <2> SUFFICES ASSUME NEW r \in processes, report'[r] # None PROVE Kept(r)'
    BY DEF ReportsKept
  <2>1. CASE r # p
    BY <1>1, <1>4, <1>7, <2>1 DEF Pending, ReportsKept, Kept
  <2>2. CASE r = p /\ m.type = "process-exit"
    BY <1>2, <1>3, <2>2 DEF Kept
  <2>3. CASE r = p /\ m.type # "process-exit"
    <3>1. Kept(p)
      BY <1>7, <2>3 DEF Pending, ReportsKept
    <3> QED BY <1>2, <1>3, <2>3, <3>1 DEF Kept, w
  <2> QED BY <2>1, <2>2, <2>3
<1>12. ReadOut'
  BY <1>1, <1>7 DEF Pending, ReadOut
<1> QED BY <1>8, <1>9, <1>10, <1>11, <1>12 DEF Exits, Written, Pending

\* Steps after which the loop does not go on, or that change none of this.
LEMMA StopExits ==
    ASSUME Exits, UNCHANGED <<wire, report, exitVal>>, central' # "running"
    PROVE  Exits'
BY DEF Exits, Written, WireTrue, TableTrue

LEMMA QuietExits ==
    ASSUME TypeOK, Exits, UNCHANGED <<wire, report, exitVal, q, processes, reader>>,
           open' \subseteq open, central' = "running" => central = "running"
    PROVE  Exits'
BY DEF Exits, Written, WireTrue, TableTrue, Pending, QueueTrue, ReportsKept, Kept, ReadOut

\* A value moves from a stream into the queue.
LEMMA ReadValueExits ==
    ASSUME TypeOK, TypeOK', TableInv, Exits, NEW p \in Pid, ReadValue(p)
    PROVE  Exits'
<1> DEFINE w == wire[p]
           m == Head(w)
<1>1. /\ w \in Seq(Message) /\ w # <<>> /\ q \in Seq(Message)
      /\ wire'[p] = Tail(w) /\ \A r \in Pid \ {p} : wire'[r] = wire[r]
      /\ q' = Append(q, m) /\ reader[p] = "reading" /\ central = "running"
      /\ UNCHANGED <<report, exitVal, processes, reader, open, central>>
      /\ Pending /\ processes \subseteq Pid
  BY DEF TypeOK, ReadValue, osVars, tableVars, Exits
<1> HIDE DEF w
<1>2. /\ m = w[1] /\ 1 \in 1..Len(w)
      /\ \A i \in 1..Len(wire'[p]) : i + 1 \in 1..Len(w) /\ wire'[p][i] = w[i + 1]
      /\ \A i \in 1..Len(w) : i # 1 => i - 1 \in 1..Len(wire'[p]) /\ wire'[p][i - 1] = w[i]
  BY <1>1, Shorter
<1>3. m \in Message
  BY <1>1, <1>2
<1>4. m.type = "process-exit" => m.arg = report[p]
  BY <1>2 DEF TableInv, WiresOwn, Exits, Written, WireTrue, w
<1>5. m.from = p
  BY <1>2 DEF TableInv, WiresOwn, w
<1> HIDE DEF m
<1>6. /\ Len(q') = Len(q) + 1 /\ q'[Len(q) + 1] = m /\ Len(q) \in Nat
      /\ \A i \in 1..Len(q) : q'[i] = q[i]
      /\ \A i \in 1..Len(q') : (i \in 1..Len(q) /\ q'[i] = q[i]) \/ q'[i] = m
  BY <1>1, <1>3, Longer
<1>7. Len(q) + 1 \in 1..Len(q') /\ 1..Len(q) \subseteq 1..Len(q')
  BY <1>6
<1>8. WireTrue' /\ TableTrue'
  <2>1. ASSUME NEW i \in 1..Len(w), w[i].type = "process-exit" PROVE w[i].arg = report[p]
    BY <2>1 DEF Exits, Written, WireTrue, w
  <2>2. ASSUME NEW r \in Pid, NEW i \in 1..Len(wire'[r]), wire'[r][i].type = "process-exit"
        PROVE  wire'[r][i].arg = report[r]
    <3>1. CASE r # p
      BY <1>1, <2>2, <3>1 DEF Exits, Written, WireTrue
    <3>2. CASE r = p
      BY <1>2, <2>1, <2>2, <3>2
    <3> QED BY <3>1, <3>2
  <2>3. WireTrue'
    BY <1>1, <2>2 DEF WireTrue
  <2>4. TableTrue'
    BY <1>1 DEF Exits, Written, TableTrue
  <2> QED BY <2>3, <2>4
<1>9. QueueTrue'
  <2> SUFFICES ASSUME NEW i \in 1..Len(q'), q'[i].type = "process-exit"
               PROVE  q'[i].arg = report[q'[i].from]
    BY <1>1 DEF QueueTrue
  <2> QED BY <1>1, <1>4, <1>5, <1>6 DEF Pending, QueueTrue
<1>10. ReportsKept'
  <2> SUFFICES ASSUME NEW r \in processes, report[r] # None PROVE Kept(r)'
    BY <1>1 DEF ReportsKept
  <2>1. Kept(r)
    BY <1>1 DEF Pending, ReportsKept
  <2>2. CASE exitVal[r] # None
    BY <1>1, <2>2 DEF Kept
  <2>3. CASE \E i \in 1..Len(q) : q[i].type = "process-exit" /\ q[i].from = r
    BY <1>6, <1>7, <2>3 DEF Kept
  <2>4. ASSUME NEW i \in 1..Len(wire[r]), wire[r][i].type = "process-exit"
        PROVE  Kept(r)'
    <3>1. CASE r # p
      BY <1>1, <2>4, <3>1 DEF Kept
    <3>2. CASE r = p /\ i = 1
      <4>1. m.type = "process-exit"
        BY <1>2, <2>4, <3>2 DEF w
      <4> QED BY <1>5, <1>6, <1>7, <3>2, <4>1 DEF Kept
    <3>3. CASE r = p /\ i # 1
      <4>1. i - 1 \in 1..Len(wire'[p]) /\ wire'[p][i - 1].type = "process-exit"
        BY <1>2, <2>4, <3>3 DEF w
      <4> QED BY <3>3, <4>1 DEF Kept
    <3> QED BY <3>1, <3>2, <3>3
  <2> QED BY <2>1, <2>2, <2>3, <2>4 DEF Kept
<1>11. ReadOut'
  BY <1>1 DEF Pending, ReadOut
<1> QED BY <1>8, <1>9, <1>10, <1>11 DEF Exits, Written, Pending

\* A reader comes to its end: at the end of the stream there is nothing left.
LEMMA ReaderExits ==
    ASSUME TypeOK, Exits, NEW p \in Pid,
           \/ ReadTorn(p) \/ ReadShort(p) \/ ReadGarbled(p)
           \/ ReadEof(p) \/ ReadBadFd(p)
    PROVE  Exits'
<1>1. /\ UNCHANGED <<wire, report, exitVal, q, processes, open, central>>
      /\ \A r \in Pid \ {p} : reader'[r] = reader[r]
      /\ reader'[p] \in {"lost", "cut"} \/ (p \notin open /\ wire[p] = <<>>)
      /\ processes \subseteq Pid
  BY DEF TypeOK, ReadTorn, ReadShort, ReadGarbled, ReadEof, ReadBadFd, EndOfStream, osVars,
     clientVars, tableVars
<1>2. ReadOut => ReadOut'
  BY <1>1 DEF ReadOut
<1> QED BY <1>1, <1>2 DEF Exits, Written, WireTrue, TableTrue, Pending, QueueTrue,
        ReportsKept, Kept

LEMMA NotifyExits ==
    ASSUME TypeOK, Exits, NEW p \in Pid, NotifyDisconnect(p)
    PROVE  Exits'
<1> DEFINE m == Msg("client-disconnected", p, None)
<1>1. /\ UNCHANGED <<wire, report, exitVal, processes, open, central>>
      /\ \A r \in Pid \ {p} : reader'[r] = reader[r]
      /\ reader[p] = "closing" /\ central = "running" /\ processes \subseteq Pid
      /\ q' = Append(q, m) /\ q \in Seq(Message)
  BY DEF TypeOK, NotifyDisconnect, LastWords, osVars, clientVars, tableVars
<1>2. m \in Message /\ m.type # "process-exit"
  BY MsgType DEF MessageTypes, Msg
<1> HIDE DEF m
<1>3. /\ Len(q') = Len(q) + 1 /\ Len(q) \in Nat /\ \A i \in 1..Len(q) : q'[i] = q[i]
      /\ \A i \in 1..Len(q') : (i \in 1..Len(q) /\ q'[i] = q[i]) \/ q'[i] = m
  BY <1>1, <1>2, Longer
<1>4. 1..Len(q) \subseteq 1..Len(q')
  BY <1>3
<1>5. WireTrue' /\ TableTrue' /\ Pending
  BY <1>1 DEF Exits, Written, WireTrue, TableTrue
<1>6. QueueTrue'
  <2> SUFFICES ASSUME NEW i \in 1..Len(q'), q'[i].type = "process-exit"
               PROVE  q'[i].arg = report[q'[i].from]
    BY <1>1 DEF QueueTrue
  <2> QED BY <1>2, <1>3, <1>5 DEF Pending, QueueTrue
<1>7. ReportsKept'
  <2> SUFFICES ASSUME NEW r \in processes, Kept(r) PROVE Kept(r)'
    BY <1>1, <1>5 DEF Pending, ReportsKept
  <2> QED BY <1>1, <1>3, <1>4 DEF Kept
<1>8. ReadOut'
  BY <1>1, <1>5 DEF Pending, ReadOut
<1> QED BY <1>5, <1>6, <1>7, <1>8 DEF Exits, Written, Pending

\* The loop takes a message; if it is an exit value it goes into the table.
LEMMA ConsumeExits ==
    ASSUME TypeOK, TypeOK', TableInv, Exits, NEW t, Receive(t),
           UNCHANGED <<wire, report, processes, reader, open>>,
           \/ t # "process-exit" /\ exitVal' = exitVal
           \/ t = "process-exit" /\ exitVal' = [exitVal EXCEPT ![Head(q).from] = Head(q).arg]
    PROVE  Exits'
<1> DEFINE m == Head(q)
<1>1. /\ m = q[1] /\ 1 \in 1..Len(q) /\ m.type = t /\ m \in Message /\ m.from \in Pid
      /\ \A i \in 1..Len(q') : i + 1 \in 1..Len(q) /\ q'[i] = q[i + 1]
      /\ Pending /\ processes \subseteq Pid
  BY SenderKnown DEF Exits, Receive, TypeOK
<1>2. \A i \in 1..Len(q) : i # 1 => i - 1 \in 1..Len(q') /\ q'[i - 1] = q[i]
  BY SenderKnown, Shorter DEF Receive
<1>3. t = "process-exit" => m.arg = report[m.from] /\ m.arg # None
  <2>1. t = "process-exit" => m.arg \in Reports
    BY <1>1 DEF Message
  <2> QED BY <1>1, <2>1 DEF Pending, QueueTrue, Reports, None
<1> HIDE DEF m
<1>4. \A p \in Pid : \/ exitVal'[p] = exitVal[p]
                     \/ t = "process-exit" /\ p = m.from /\ exitVal'[p] = m.arg
  BY <1>1 DEF TypeOK, m
<1>5. t = "process-exit" => exitVal'[m.from] = m.arg
  BY <1>1 DEF TypeOK, m
<1>6. WireTrue' /\ TableTrue'
  BY <1>3, <1>4 DEF Exits, Written, WireTrue, TableTrue
<1>7. QueueTrue' /\ ReadOut'
  BY <1>1 DEF Pending, QueueTrue, ReadOut
<1>8. ReportsKept'
  <2> SUFFICES ASSUME NEW p \in processes, Kept(p), report[p] # None PROVE Kept(p)'
    BY <1>1 DEF Pending, ReportsKept
  <2>1. CASE exitVal[p] # None
    BY <1>1, <1>3, <1>4, <2>1 DEF Kept
  <2>2. ASSUME NEW i \in 1..Len(q), q[i].type = "process-exit", q[i].from = p
        PROVE  Kept(p)'
    <3>1. CASE i = 1
      BY <1>1, <1>3, <1>5, <2>2, <3>1 DEF Kept
    <3>2. CASE i # 1
      BY <1>2, <2>2, <3>2 DEF Kept
    <3> QED BY <3>1, <3>2
  <2>3. CASE \E i \in 1..Len(wire[p]) : wire[p][i].type = "process-exit"
    BY <2>3 DEF Kept
  <2> QED BY <2>1, <2>2, <2>3 DEF Kept
<1> QED BY <1>6, <1>7, <1>8 DEF Exits, Written, Pending

\* A process that is forked has left nothing yet, nor has the pid's last owner
\* left anything for it.
LEMMA ForkExits ==
    ASSUME TypeOK, TypeOK', TableInv, Exits, NEW t, t # "process-exit", Receive(t),
           NEW new \in Pid, NEW ret, Fork(new, ret)
    PROVE  Exits'
<1>1. /\ new \notin processes /\ \A i \in 1..Len(q) : q[i].from # new
      /\ central = "running" /\ Pending /\ processes \subseteq Pid
  BY ForkFresh DEF Receive, Exits, TypeOK
<1>2. /\ Head(q) = q[1] /\ 1 \in 1..Len(q) /\ Head(q).type = t
      /\ \A i \in 1..Len(q') : i + 1 \in 1..Len(q) /\ q'[i] = q[i + 1]
      /\ \A i \in 1..Len(q) : i # 1 => i - 1 \in 1..Len(q') /\ q'[i - 1] = q[i]
  BY SenderKnown, Shorter DEF Receive
<1>3. /\ report'[new] = None /\ wire'[new] = <<>> /\ exitVal'[new] = None
      /\ reader'[new] = "reading"
      /\ processes' = processes \cup {new} /\ open' = open \cup {new}
      /\ \A p \in Pid \ {new} : /\ report'[p] = report[p] /\ wire'[p] = wire[p]
                                /\ exitVal'[p] = exitVal[p] /\ reader'[p] = reader[p]
  BY DEF Fork, TypeOK
<1>4. WireTrue'
  <2> SUFFICES ASSUME NEW p \in Pid, NEW i \in 1..Len(wire'[p]),
                      wire'[p][i].type = "process-exit"
               PROVE  wire'[p][i].arg = report'[p]
    BY DEF WireTrue
  <2>1. p # new
    BY <1>3
  <2> QED BY <1>3, <2>1 DEF Exits, Written, WireTrue
<1>5. TableTrue'
  BY <1>3 DEF Exits, Written, TableTrue
<1>6. QueueTrue'
  <2> SUFFICES ASSUME NEW i \in 1..Len(q'), q'[i].type = "process-exit"
               PROVE  q'[i].arg = report'[q'[i].from]
    BY DEF QueueTrue
  <2>1. i + 1 \in 1..Len(q) /\ q'[i] = q[i + 1] /\ q'[i].from # new /\ q'[i].from \in Pid
    BY <1>1, <1>2 DEF TablesAgree, TableInv, QueueRegistered
  <2> QED BY <1>1, <1>3, <2>1 DEF Pending, QueueTrue
<1>7. ReportsKept'
  <2> SUFFICES ASSUME NEW p \in processes', report'[p] # None PROVE Kept(p)'
    BY DEF ReportsKept
  <2>1. p # new /\ p \in processes /\ p \in Pid
    BY <1>1, <1>3
  <2>2. Kept(p)
    BY <1>1, <1>3, <2>1 DEF Pending, ReportsKept
  <2>3. CASE \E i \in 1..Len(q) : q[i].type = "process-exit" /\ q[i].from = p
    <3>1. PICK i \in 1..Len(q) : q[i].type = "process-exit" /\ q[i].from = p
      BY <2>3
    <3>2. i # 1
      BY <1>2, <3>1
    <3> QED BY <1>2, <3>1, <3>2 DEF Kept
  <2>4. CASE exitVal[p] # None \/ \E i \in 1..Len(wire[p]) : wire[p][i].type = "process-exit"
    BY <1>3, <2>1, <2>4 DEF Kept
  <2> QED BY <2>2, <2>3, <2>4 DEF Kept
<1>8. ReadOut'
  BY <1>1, <1>3 DEF Pending, ReadOut
<1> QED BY <1>4, <1>5, <1>6, <1>7, <1>8 DEF Exits, Written, Pending

\* The process that leaves the table has nothing queued any more.
LEMMA ForgetExits ==
    ASSUME TypeOK, TypeOK', TableInv, Exits, NEW t, Receive(t), t # "process-exit",
           NEW addr \in Pid, ForgetProcess(addr), UNCHANGED <<wire, report, reader, open>>
    PROVE  Exits'
<1>1. /\ Head(q) = q[1] /\ 1 \in 1..Len(q) /\ Head(q).type = t
      /\ \A i \in 1..Len(q') : i + 1 \in 1..Len(q) /\ q'[i] = q[i + 1]
      /\ \A i \in 1..Len(q) : i # 1 => i - 1 \in 1..Len(q') /\ q'[i - 1] = q[i]
      /\ Pending /\ processes \subseteq Pid
  BY SenderKnown, Shorter DEF Receive, Exits, TypeOK
<1>2. /\ processes' = processes \ {addr} /\ exitVal'[addr] = None
      /\ \A p \in Pid \ {addr} : exitVal'[p] = exitVal[p]
  BY DEF ForgetProcess, TypeOK
<1>3. WireTrue' /\ TableTrue'
  BY <1>2 DEF Exits, Written, WireTrue, TableTrue
<1>4. QueueTrue' /\ ReadOut'
  BY <1>1, <1>2 DEF Pending, QueueTrue, ReadOut
<1>5. ReportsKept'
  <2> SUFFICES ASSUME NEW p \in processes', report[p] # None PROVE Kept(p)'
    BY DEF ReportsKept
  <2>1. p \in Pid \ {addr} /\ Kept(p)
    BY <1>1, <1>2 DEF Pending, ReportsKept
  <2>2. CASE \E i \in 1..Len(q) : q[i].type = "process-exit" /\ q[i].from = p
    <3>1. PICK i \in 1..Len(q) : q[i].type = "process-exit" /\ q[i].from = p
      BY <2>2
    <3>2. i # 1
      BY <1>1, <3>1
    <3> QED BY <1>1, <3>1, <3>2 DEF Kept
  <2>3. CASE exitVal[p] # None \/ \E i \in 1..Len(wire[p]) : wire[p][i].type = "process-exit"
    BY <1>2, <2>1, <2>3 DEF Kept
  <2> QED BY <2>1, <2>2, <2>3 DEF Kept
<1> QED BY <1>3, <1>4, <1>5 DEF Exits, Written, Pending

LEMMA NextExits ==
    ASSUME TypeOK, TypeOK', TableInv, Exits, [Next]_vars
    PROVE  Exits'
<1>1. ASSUME NEW p \in Pid, Request(p) PROVE Exits'
  <2>1. PICK m \in Message : Write(p, m) /\ m.type # "process-exit" /\ m.from = p
    <3>1. ASSUME NEW kind \in Kinds, NEW a \in Arguments(kind)
          PROVE  /\ Msg(kind, p, a) \in Message
                 /\ Msg(kind, p, a).type # "process-exit" /\ Msg(kind, p, a).from = p
      <4>1. kind # "process-exit"
        BY CentralAssumption DEF RequestKinds
      <4> QED BY <4>1, MsgType, CentralAssumption DEF Arguments, MessageTypes, RequestKinds, Msg
    <3>2. /\ Msg("garbled", p, None) \in Message /\ Msg("garbled", p, None).from = p
          /\ Msg("garbled", p, None).type # "process-exit"
      BY MsgType DEF MessageTypes, Msg
    <3> QED BY <1>1, <3>1, <3>2 DEF Request
  <2> QED BY <1>1, <2>1, WriteExits DEF Request, CanWrite, osVars, readerVars, tableVars
<1>2. ASSUME NEW p \in Pid, Report(p) PROVE Exits'
  <2>1. PICK v \in Returns : /\ report' = [report EXCEPT ![p] = v]
                             /\ Write(p, Msg("process-exit", p, v))
    BY <1>2 DEF Report
  <2>2. /\ Msg("process-exit", p, v) \in Message /\ Msg("process-exit", p, v).from = p
        /\ Msg("process-exit", p, v).type = "process-exit"
        /\ Msg("process-exit", p, v).arg = v
    BY MsgType, CentralAssumption DEF MessageTypes, Msg
  <2> QED BY <1>2, <2>1, <2>2, WriteExits DEF Report, CanWrite, osVars, readerVars, tableVars
<1>3. ASSUME NEW p \in Pid, TornWrite(p) PROVE Exits'
  <2>1. /\ Msg("torn", p, None) \in Message /\ Msg("torn", p, None).from = p
        /\ Msg("torn", p, None).type # "process-exit"
    BY MsgType DEF MessageTypes, Msg
  <2> QED BY <1>3, <2>1, WriteExits DEF TornWrite, CanWrite, Dead, readerVars, tableVars
<1>4. ASSUME NEW p \in Pid, Arm(p) \/ Die(p) \/ Detach(p) PROVE Exits'
  BY <1>4, QuietExits DEF Arm, Die, Detach, Dead, clientVars, readerVars, tableVars
<1>5. ASSUME NEW p \in Pid, ReaderStep(p) \/ ReadShort(p) PROVE Exits'
  BY <1>5, ReadValueExits, ReaderExits, NotifyExits DEF ReaderStep
<1>6. CASE UNCHANGED vars
  BY <1>6, QuietExits DEF vars
<1>7. CASE \/ LauncherDisconnected \/ HandleTopLevelExit \/ Shutdown \/ LauncherGone
           \/ CentralGone
  <2>1. UNCHANGED <<wire, report, exitVal>> /\ central' # "running"
    BY <1>7 DEF LauncherDisconnected, HandleTopLevelExit, Shutdown, LauncherGone,
       CentralGone, CentralDead, clientVars, tableVars
  <2> QED BY <2>1, StopExits
<1>8. CASE HandleProcessExit
  <2>1. Head(q).from \in processes
    BY <1>8, SenderKnown DEF HandleProcessExit
  <2> QED BY <1>8, <2>1, ConsumeExits DEF HandleProcessExit, osVars, clientVars
<1>9. CASE HandlePing \/ HandleConnect \/ HandleOther
  <2>1. /\ UNCHANGED <<wire, report, processes, reader, open, exitVal>>
        /\ \E t : t # "process-exit" /\ Receive(t)
    BY <1>9 DEF HandlePing, HandleConnect, HandleOther, clientVars, osVars, tableVars
  <2> QED BY <2>1, ConsumeExits
<1>10. CASE HandleSpawn \/ HandleSpawnMonitor
  <2>1. PICK t : t # "process-exit" /\ Receive(t)
    BY <1>10 DEF HandleSpawn, HandleSpawnMonitor
  <2>2. CASE SpawnFailed(Head(q).from)
    BY <2>1, <2>2, ConsumeExits DEF SpawnFailed
  <2>3. ASSUME NEW new \in Pid, Fork(new, Head(q).from) PROVE Exits'
    BY <2>1, <2>3, ForkExits
  <2> QED BY <1>10, <2>2, <2>3 DEF HandleSpawn, HandleSpawnMonitor, Spawned
<1>11. CASE HandleDisconnected
  <2> DEFINE addr == Head(q).from
  <2>1. /\ Receive("client-disconnected") /\ addr \in Pid /\ addr \in processes
        /\ UNCHANGED <<wire, report, reader, open>> /\ ReapProcess(addr)
    BY <1>11, SenderKnown DEF HandleDisconnected, TypeOK, clientVars
  <2>2. CASE ForgetProcess(addr)
    <3> HIDE DEF addr
    <3> QED BY <2>1, <2>2, ForgetExits
  <2>3. CASE UNCHANGED exitVal /\ central' # "running"
    BY <2>1, <2>3, StopExits
  <2> QED BY <2>1, <2>2, <2>3 DEF ReapProcess
<1> QED BY <1>1, <1>2, <1>3, <1>4, <1>5, <1>6, <1>7, <1>8, <1>9, <1>10, <1>11
        DEF Next, MainStep

LEMMA AlwaysExits == Spec => []Exits
<1>1. Init => Exits
  <2> SUFFICES ASSUME Init PROVE Exits OBVIOUS
  <2>1. processes \subseteq Pid
    BY CentralAssumption DEF Init
  <2>2. Written /\ QueueTrue
    BY DEF Init, Written, WireTrue, TableTrue, QueueTrue
  <2>3. ReportsKept /\ ReadOut
    BY <2>1 DEF Init, ReportsKept, ReadOut
  <2> QED BY <2>2, <2>3 DEF Exits, Pending
<1>2. TypeOK /\ TypeOK' /\ TableInv /\ Exits /\ [Next]_vars => Exits'
  BY NextExits
<1> QED BY <1>1, <1>2, TypeCorrect, TableInvariant, PTL DEF Spec

\* Down messages are sent only when a disconnect is handled.
LEMMA DownsOnly ==
    ASSUME TypeOK, TableInv, [Next]_vars, NEW w \in Pid,
           NEW d \in inbox'[w] \ inbox[w], d.type = "down"
    PROVE  /\ HandleDisconnected /\ Head(q).from \in processes
           /\ ForgetProcess(Head(q).from) /\ os[Head(q).from] = "zombie"
<1>1. CASE UNCHANGED inbox
  BY <1>1
<1>2. ASSUME NEW p \in Pid,
             \/ Arm(p) \/ Request(p) \/ Report(p) \/ Die(p) \/ TornWrite(p)
             \/ Detach(p) \/ ReaderStep(p) \/ ReadShort(p)
      PROVE  UNCHANGED inbox
  BY <1>2 DEF Arm, ReadShort, Request, Report, Die, TornWrite, Detach, ReaderStep, ReadValue,
     ReadTorn, ReadGarbled, ReadEof, ReadBadFd, NotifyDisconnect
<1>3. CASE \/ HandleProcessExit \/ LauncherDisconnected \/ HandleTopLevelExit
           \/ HandleOther \/ Shutdown \/ LauncherGone \/ CentralGone \/ UNCHANGED vars
  <2>1. UNCHANGED inbox
    BY <1>3 DEF HandleProcessExit, LauncherDisconnected, HandleTopLevelExit,
       HandleOther, Shutdown, LauncherGone, CentralGone, vars
  <2> QED BY <2>1
<1>4. ASSUME NEW p \in Pid, NEW m, m.type # "down", Answer(p, m) PROVE FALSE
  BY <1>4 DEF TypeOK, Answer, Deliver
<1>5. CASE HandlePing
  <2>1. Head(q).from \in Pid
    BY <1>5, ReceiveType DEF HandlePing
  <2>2. Rep("pong", None, NoMref, None).type # "down"
    BY DEF Rep
  <2> QED BY <1>4, <1>5, <2>1, <2>2 DEF HandlePing
<1>6. CASE HandleConnect
  BY <1>6, ConnectInbox
<1>7. CASE HandleSpawn \/ HandleSpawnMonitor
  <2>1. Head(q).from \in Pid
    BY <1>7, ReceiveType DEF HandleSpawn, HandleSpawnMonitor
  <2>2. CASE SpawnFailed(Head(q).from)
    <3>1. Rep("spawn-error", None, NoMref, None).type # "down"
      BY DEF Rep
    <3> QED BY <1>4, <2>1, <2>2, <3>1 DEF SpawnFailed
  <2>3. ASSUME NEW new \in Pid, NEW r, Spawned(new, Head(q).from, r) PROVE FALSE
    <3> DEFINE ret == Head(q).from
               ok == Rep("spawned-ok", new, r, None)
    <3>1. ok.type # "down"
      BY DEF Rep
    <3>2. inbox' = [p \in Pid |->
             IF p = new THEN {}
             ELSE IF p = ret /\ CanSend(ret) THEN inbox[p] \cup {ok} ELSE inbox[p]]
      BY <2>3 DEF Spawned
    <3> HIDE DEF ok, ret
    <3> QED BY <3>1, <3>2
  <2> QED BY <1>7, <2>2, <2>3 DEF HandleSpawn, HandleSpawnMonitor
<1>8. CASE HandleDisconnected
  <2>1. Head(q).from \in processes
    BY <1>8, SenderKnown DEF HandleDisconnected
  <2>2. ReapProcess(Head(q).from)
    BY <1>8, <2>1 DEF HandleDisconnected
  <2> QED BY <1>1, <1>8, <2>1, <2>2 DEF ReapProcess
<1> QED BY <1>1, <1>2, <1>3, <1>5, <1>6, <1>7, <1>8 DEF Next, MainStep

\* A down message is sent only for a process that is dead, and carries the value
\* it reported if it reported one: the report went through its stream and the
\* queue before the disconnect did.
THEOREM DownTruthfulCorrect == Spec => DownTruthful
<1>1. ASSUME TypeOK, TableInv, Exits, [Next]_vars, NEW w \in Pid,
             NEW d \in inbox'[w] \ inbox[w], d.type = "down"
      PROVE  os[d.who] = "zombie" /\ d.val = TrueExit(d.who)
  <2> DEFINE addr == Head(q).from
  <2>1. /\ Receive("client-disconnected") /\ addr \in processes
        /\ ForgetProcess(addr) /\ os[addr] = "zombie"
    BY <1>1, DownsOnly DEF HandleDisconnected
  <2>2. ExitOf(addr) = TrueExit(addr)
    BY <1>1, <2>1, ExitTrue
  <2> HIDE DEF addr
  <2>3. d \in DownsFor(w, addr)
    BY <1>1, <2>1 DEF ForgetProcess, TypeOK
  <2>4. d.who = addr /\ d.val = ExitOf(addr)
    BY <2>3 DEF DownsFor, Rep
  <2> QED BY <2>1, <2>2, <2>4
<1>2. TypeOK /\ TableInv /\ Exits /\ [Next]_vars =>
        [\A p \in Pid : \A d \in inbox'[p] \ inbox[p] :
            d.type = "down" => os[d.who] = "zombie" /\ d.val = TrueExit(d.who)]_vars
  BY <1>1
<1> QED BY <1>2, TypeCorrect, TableInvariant, AlwaysExits, PTL DEF Spec, DownTruthful

\* What process zero has left, once the loop is over.
Left(v) == ~topLevel /\ P0 \in processes => v = TrueExit(P0) /\ os[P0] = "free"
Lefts ==
    /\ central = "stopping" => Left(exitZero)
    /\ central = "exited" => Left(result)

LEMMA NextLefts ==
    ASSUME TypeOK, TableInv, Exits, Lefts, [Next]_vars
    PROVE  Lefts'
<1>1. CASE central' \in {"running", "broken", "killed"}
  BY <1>1 DEF Lefts
<1>2. CASE LauncherDisconnected \/ HandleTopLevelExit
  BY <1>2 DEF LauncherDisconnected, HandleTopLevelExit, IsLauncher, endVars, Lefts, Left
<1>3. CASE Shutdown
  <2>1. /\ central = "stopping" /\ central' = "exited" /\ UNCHANGED <<topLevel, processes, report>>
        /\ ~topLevel => result' = exitZero
    BY <1>3 DEF Shutdown, clientVars, tableVars
  <2>2. os[P0] = "free" => os'[P0] = "free" /\ status'[P0] = status[P0]
    BY <1>3, CentralAssumption DEF Shutdown, Alive
  <2> QED BY <2>1, <2>2 DEF Lefts, Left, TrueExit
<1>4. CASE CentralGone
  <2>1. UNCHANGED <<central, topLevel, processes, report, exitZero, result>>
    BY <1>4 DEF CentralGone, clientVars, tableVars, endVars
  <2>2. os[P0] = "free" => os'[P0] = "free" /\ status'[P0] = status[P0]
    BY <1>4, CentralAssumption DEF CentralGone
  <2> QED BY <2>1, <2>2 DEF Lefts, Left, TrueExit
<1>5. CASE UNCHANGED vars
  BY <1>5 DEF vars, Lefts, Left, TrueExit
<1>6. CASE HandleDisconnected
  <2> DEFINE addr == Head(q).from
  <2>1. /\ Receive("client-disconnected") /\ addr \in processes /\ ReapProcess(addr)
        /\ UNCHANGED <<status, report, topLevel>> /\ central = "running"
    BY <1>6, SenderKnown DEF HandleDisconnected, Receive, clientVars
  <2>2. CASE addr = P0 /\ exitZero' = ExitOf(addr) /\ central' = "stopping"
    <3>1. exitZero' = TrueExit(P0)
      BY <2>1, <2>2, ExitTrue
    <3>2. os'[P0] = "free"
      BY <2>1, <2>2, CentralAssumption DEF ReapProcess, TypeOK
    <3> QED BY <2>1, <2>2, <3>1, <3>2 DEF Lefts, Left, TrueExit
  <2>3. CASE central' # "stopping" /\ central' # "exited"
    BY <2>3 DEF Lefts
  <2> QED BY <2>1, <2>2, <2>3 DEF ReapProcess, ForgetProcess, SafeSend
<1>7. ASSUME NEW p \in Pid,
             \/ Request(p) \/ Report(p) \/ Die(p) \/ TornWrite(p) \/ Detach(p)
             \/ ReaderStep(p) \/ ReadShort(p)
      PROVE  central' = "running"
  BY <1>7 DEF ReadShort, Request, Report, Die, TornWrite, Detach, CanWrite, ReaderStep, ReadValue,
     ReadTorn, ReadGarbled, ReadEof, ReadBadFd, NotifyDisconnect
<1>8. CASE HandleProcessExit \/ HandlePing \/ HandleSpawn \/ HandleSpawnMonitor
           \/ HandleConnect \/ HandleOther \/ LauncherGone
  <2>1. central' \in {"running", "broken", "killed"}
    BY <1>8 DEF HandleProcessExit, HandlePing, HandleSpawn, HandleSpawnMonitor,
       HandleConnect, HandleOther, LauncherGone, Receive, Answer, MustSend, SafeSend,
       Spawned, SpawnFailed
  <2> QED BY <1>1, <2>1
<1>9. ASSUME NEW p \in Pid, Arm(p) PROVE Lefts'
  <2>1. /\ UNCHANGED <<status, central, topLevel, processes, report, exitZero, result>>
        /\ os[P0] = "free" => os'[P0] = "free"
    BY <1>9 DEF Arm, TypeOK, clientVars, tableVars, endVars
  <2> QED BY <2>1 DEF Lefts, Left, TrueExit
<1> QED BY <1>1, <1>2, <1>3, <1>4, <1>5, <1>6, <1>7, <1>8, <1>9 DEF Next, MainStep

\* The value run_inbox gets is the one process zero left, which has been joined.
THEOREM ResultTruthfulCorrect == Spec => []ResultTruthful
<1>1. Init => Lefts
  BY DEF Init, Lefts, Left
<1>2. TypeOK /\ TableInv /\ Exits /\ Lefts /\ [Next]_vars => Lefts'
  BY NextLefts
<1>3. Lefts => ResultTruthful
  BY DEF Lefts, Left, ResultTruthful
<1> QED BY <1>1, <1>2, <1>3, TypeCorrect, TableInvariant, AlwaysExits, PTL DEF Spec
=============================================================================
