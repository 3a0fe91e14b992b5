------------------------------- MODULE Launch -------------------------------
(****************************************************************************)
(* How a process starts another and learns how it ended (occ/spawn.py,      *)
(* occ/yeshup.py, run_inbox in occasional.py): a socket pair and a fork,    *)
(* the parent-death signal, the report written before the exit, and a       *)
(* parent that joins first and reads the report afterwards.                 *)
(****************************************************************************)
EXTENDS Integers, Sequences

CONSTANTS
    Proc, Root,     \* the pids, and the process that runs already
    Capacity,       \* what a socket buffer holds
    Sizes,          \* how large a report may be, in the same unit
    Codes,          \* the integers f may exit with
    Signals, Core,  \* what may kill a process, and what makes it dump core
    MaxWaits        \* bound: how often a process is waited for

ASSUME LaunchAssumption ==
    /\ Proc \subseteq Nat /\ Root \in Proc /\ Capacity \in Nat \ {0} /\ Sizes \subseteq Nat \ {0}
    /\ Codes \subseteq Int /\ Signals \subseteq Nat \ {0} /\ Core \subseteq Signals
    /\ MaxWaits \in Nat

VARIABLES
    stage,      \* where each process is
    parent,     \* who forked it
    central,    \* those started by run_inbox; the others by spawn_with_socket
    holds,      \* the processes whose end of their socket pair p holds open
    doomed,     \* those to which the kernel has sent the parent-death signal
    missed,     \* those whose parent died before they called yeshup_me
    ended,      \* how f ended
    size, sent, \* the size of the report, and how much of it is written
    status,     \* what waitid tells: the exit code, or minus the signal
    server,     \* the parent's end of the socket pair, server_s
    waits,      \* whom p is waiting for; itself: nobody
    answers     \* what the waits for p have returned

kinVars  == <<parent, central, missed>>
endVars  == <<ended, size, sent>>
waitVars == <<server, waits, answers>>
vars     == <<stage, kinVars, holds, doomed, endVars, status, waitVars>>

Loadable == {"value", "error"}
Reported == Loadable \cup {"unloadable"}
Endings  == Reported \cup {"none", "code", "raised"}
Answers  == Loadable \cup {"exit 0", "exit code", "signal", "raised"}

TypeOK ==
    /\ stage \in [Proc -> {"free", "forked", "running", "joining", "reading",
                           "reporting", "exiting", "zombie", "reaped"}]
    /\ parent \in [Proc -> Proc] /\ waits \in [Proc -> Proc]
    /\ central \subseteq Proc /\ doomed \subseteq Proc /\ missed \subseteq Proc
    /\ holds \in [Proc -> SUBSET Proc]
    /\ ended \in [Proc -> Endings \cup {"not"}]
    /\ size \in [Proc -> Nat] /\ sent \in [Proc -> Nat] /\ status \in [Proc -> Int]
    /\ server \in [Proc -> {"fresh", "read", "closed"}]
    /\ answers \in [Proc -> Seq(Answers)]

Init ==
    /\ stage = [p \in Proc |-> IF p = Root THEN "running" ELSE "free"]
    /\ parent = [p \in Proc |-> p] /\ waits = [p \in Proc |-> p]
    /\ central = {} /\ doomed = {} /\ missed = {}
    /\ holds = [p \in Proc |-> {}]
    /\ ended = [p \in Proc |-> "not"]
    /\ size = [p \in Proc |-> 0] /\ sent = [p \in Proc |-> 0]
    /\ status = [p \in Proc |-> 0]
    /\ server = [p \in Proc |-> "fresh"]
    /\ answers = [p \in Proc |-> <<>>]

Dead(p)     == stage[p] \in {"zombie", "reaped"}
Alive(p)    == stage[p] # "free" /\ ~Dead(p)
Goto(p, at) == stage' = [stage EXCEPT ![p] = at]

----------------------------------------------------------------------------
(* Starting.                                                                *)

\* fork copies every descriptor; the parent closes its copy of the child's end
\* (detach_close), the child keeps those of its forebears.  Pids are given in
\* order.
InheritUnclosed(p, c) == [holds EXCEPT ![c] = holds[p] \cup {c}, ![p] = @ \cup {c}]
Inherit(p, c) == [holds EXCEPT ![c] = holds[p] \cup {c}]

Fork(p, c) ==
    /\ stage[p] = "running" /\ stage[c] = "free"
    /\ \A d \in Proc : stage[d] = "free" => c <= d
    /\ Goto(c, "forked")
    /\ parent' = [parent EXCEPT ![c] = p]
    /\ \E cs \in {{}, {c}} : (p # Root => cs = {}) /\ central' = central \cup cs
    /\ holds' = Inherit(p, c)
    /\ UNCHANGED <<missed, doomed, endVars, status, waitVars>>

\* yeshup_me: from now on the death of the parent is a signal.  Whether the
\* parent still lives is not looked at.
Arm(c) ==
    /\ stage[c] = "forked"
    /\ Goto(c, "running")
    /\ UNCHANGED <<kinVars, holds, doomed, endVars, status, waitVars>>

----------------------------------------------------------------------------
(* Ending.                                                                  *)

\* spawned_process_wrapper reports what f returns or gives to spawn_exit, and
\* an exception; None is not reported, and SystemExit passes through.  Central
\* reports how process zero ended, or nothing.  "raised" is what neither
\* reports: a SystemExit that is no integer, a report that cannot be pickled,
\* an exception in central.  "unloadable" is a value or an error that pickles
\* and does not unpickle.
CodeOf(how, n) == CASE how = "code" -> n [] how = "raised" -> 1 [] OTHER -> 0

Finish(p) ==
    /\ stage[p] = "running" /\ p # Root
    /\ \E how \in Endings, code \in Codes, n \in Sizes :
         /\ ended' = [ended EXCEPT ![p] = how]
         /\ size' = [size EXCEPT ![p] = IF how \in Reported THEN n ELSE 0]
         /\ status' = [status EXCEPT ![p] = CodeOf(how, code)]
    /\ Goto(p, "reporting")
    /\ UNCHANGED <<kinVars, holds, doomed, sent, waitVars>>

\* The parent does not read before it has joined: what the buffer cannot hold
\* waits.
SendSome(p) ==
    /\ stage[p] = "reporting" /\ sent[p] < size[p] /\ sent[p] < Capacity
    /\ sent' = [sent EXCEPT ![p] = @ + 1]
    /\ UNCHANGED <<stage, kinVars, holds, doomed, ended, size, status, waitVars>>

\* A process is gone: its descriptors are closed, and its armed children get
\* the parent-death signal.
Children(p) == {c \in Proc \ {p} : parent[c] = p /\ Alive(c)}
Unarmed(p)  == {c \in Children(p) : stage[c] = "forked"}
SignalledNone(p) == {}
Signalled(p) == Children(p) \ Unarmed(p)

Gone(p, st) ==
    /\ Goto(p, "zombie")
    /\ status' = [status EXCEPT ![p] = st]
    /\ holds' = [holds EXCEPT ![p] = {}]
    /\ doomed' = doomed \cup Signalled(p)
    /\ missed' = missed \cup Unarmed(p)
    /\ UNCHANGED <<parent, central, endVars, waitVars>>

\* os._exit: the kernel keeps eight bits of the code.
SentAny(p) == sent[p] > 0 \/ size[p] = 0
SentAll(p) == sent[p] = size[p]
Exit(p) == stage[p] = "reporting" /\ SentAll(p) /\ Gone(p, status[p] % 256)

Kill(p) == Alive(p) /\ \E s \in Signals : Gone(p, -s)
\* The parent-death signal is delivered; it is SIGKILL, 9.
Hangup(p) == Alive(p) /\ p \in doomed /\ Gone(p, -9)

----------------------------------------------------------------------------
(* wait_spawn, and run_inbox.                                               *)

StartWait(p, c) ==
    /\ stage[p] = "running" /\ p \notin central
    /\ c # p /\ parent[c] = p /\ stage[c] # "free"
    /\ Len(answers[c]) < IF c \in central THEN 1 ELSE MaxWaits
    /\ waits' = [waits EXCEPT ![p] = c]
    /\ Goto(p, "joining")
    /\ UNCHANGED <<kinVars, holds, doomed, endVars, status, server, answers>>

Return(p, c, a, at) ==
    /\ answers' = [answers EXCEPT ![c] = Append(@, a)]
    /\ stage' = [stage EXCEPT ![p] = "running", ![c] = at]
    /\ waits' = [waits EXCEPT ![p] = p]

\* join: waitid, or the exit code kept from an earlier join.  It raises on a
\* core dump.
Dumped(c) == -status[c] \in Core
Join(p) ==
    LET c == waits[p] IN
    /\ stage[p] = "joining" /\ Dead(c)
    /\ IF Dumped(c)
       THEN Return(p, c, "raised", "reaped")
       ELSE /\ stage' = [stage EXCEPT ![p] = "reading", ![c] = "reaped"]
            /\ UNCHANGED <<waits, answers>>
    /\ UNCHANGED <<kinVars, holds, doomed, endVars, status, server>>

\* get_process_exitval; run_inbox has no use for it and raises instead.  (Central
\* itself waits for its processes in the way of module Central.)
ExitValueUnsigned(c) == IF status[c] <= 0 THEN "exit 0" ELSE "exit code"
ExitValue(c) ==
    CASE c \in central -> "raised"
      [] c \notin central /\ status[c] = 0 -> "exit 0"
      [] c \notin central /\ status[c] > 0 -> "exit code"
      [] c \notin central /\ status[c] < 0 -> "signal"

\* receive_value: the report, or half a report and then the end, or the end,
\* upon which the socket is closed; a closed socket raises.  The end is there
\* when nobody holds the other side any more.  A report that does not unpickle
\* raises, and the socket stays open on an UnpicklingError only.
Read(p) ==
    LET c == waits[p]
        unread == server[c] = "fresh" /\ sent[c] > 0
        eof == \A h \in Proc : c \notin holds[h]
        Leave(a, srv) == Return(p, c, a, "reaped")
                         /\ server' = [server EXCEPT ![c] = srv]
    IN
    /\ stage[p] = "reading"
    /\ \/ unread /\ sent[c] = size[c] /\ ended[c] \in Loadable /\ Leave(ended[c], "read")
       \/ /\ unread /\ sent[c] = size[c] /\ ended[c] = "unloadable"
          /\ \E srv \in {"read", "closed"} : Leave("raised", srv)
       \/ unread /\ sent[c] < size[c] /\ eof /\ Leave("raised", "read")
       \/ ~unread /\ server[c] # "closed" /\ eof /\ Leave(ExitValue(c), "closed")
       \/ server[c] = "closed" /\ Leave("raised", "closed")
    /\ UNCHANGED <<kinVars, holds, doomed, endVars, status>>

----------------------------------------------------------------------------
Work(p) == Arm(p) \/ SendSome(p) \/ Exit(p) \/ Join(p) \/ Read(p)

Next ==
    \E p \in Proc :
        \/ Work(p) \/ Finish(p) \/ Kill(p) \/ Hangup(p)
        \/ \E c \in Proc : Fork(p, c) \/ StartWait(p, c)

\* A process goes on with what the code makes it do, and the kernel delivers
\* its signals; f may run for ever, and nobody has to fork, wait or kill.
Fairness == \A p \in Proc : WF_vars(Work(p)) /\ WF_vars(Hangup(p))

Spec     == Init /\ [][Next]_vars
FairSpec == Spec /\ Fairness

----------------------------------------------------------------------------
(* Properties.                                                              *)

Good(a) == a \in {"value", "exit 0"}
Before(c, i, as) == \E j \in 1..(i - 1) : answers[c][j] \in as

\* "ok" is said of a process only if it did not fail: f returned or exited
\* with a code whose low eight bits are zero, and all of the report, if there
\* is one, was written.  An earlier wait may have taken the report of an error
\* away, or raised over one that does not unpickle, for a process that reports
\* an error exits with 0.
OkIsTruthful ==
    \A c \in Proc : \A i \in DOMAIN answers[c] :
        Good(answers[c][i]) =>
            \/ ended[c] \in {"none", "value"} /\ sent[c] = size[c]
            \/ ended[c] = "code" /\ status[c] = 0
            \/ Before(c, i, {"error"})
            \/ ended[c] = "unloadable" /\ Before(c, i, {"raised"})

\* A wait raises for no other reason than a report that does not unpickle, a
\* death by signal in the middle of the report or with a core dump, a wait that
\* came before, or, for run_inbox, a central that ended without a report.
RaisesWithReason ==
    \A c \in Proc : \A i \in DOMAIN answers[c] :
        answers[c][i] = "raised" =>
            \/ ended[c] = "unloadable" /\ sent[c] = size[c]
            \/ status[c] < 0 /\ sent[c] < size[c]
            \/ Dumped(c)
            \/ Before(c, i, Answers)
            \/ c \in central /\ ended[c] \notin Reported
            \/ c \in central /\ sent[c] < size[c]

\* Who is above p, as far as processes go.
Above[p \in Proc, n \in 0..10] ==
    IF n = 0 THEN {p} ELSE {p} \cup Above[parent[p], n - 1]
UnderMissed(p) == Above[p, 3] \cap missed # {}

\* When the first process dies the whole tree under it dies, signal by signal;
\* what is left descends from one that had not yet called yeshup_me when its
\* parent died.
TreeDies == Dead(Root) ~> \A p \in Proc : Alive(p) => UnderMissed(p)

\* Whoever waits for a process that is dead or past its f gets an answer.
\* There are two exceptions: a report the buffer cannot hold, for the parent
\* joins before it reads; and a descendant that missed its parent's death and
\* keeps the socket open.
Waiting(p) == stage[p] \in {"joining", "reading"}
WaitReturns ==
    \A p \in Proc :
        Waiting(p) /\ (ended[waits[p]] # "not" \/ Dead(waits[p]))
            ~> \/ ~Waiting(p)
               \/ size[waits[p]] > Capacity
               \/ \E h \in Proc : waits[p] \in holds[h] /\ UnderMissed(h)

----------------------------------------------------------------------------
(* What the repository says of run_inbox and the code does not do.          *)

\* occasional.py:626-628: "the return valueof the start call is the exit value
\* of the f process" and "start blocks until f exits".
StartReturns ==
    \A p \in Proc :
        Waiting(p) /\ waits[p] \in central /\ ended[waits[p]] = "value" ~> ~Waiting(p)
=============================================================================
