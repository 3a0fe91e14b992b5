------------------------------ MODULE TestRun ------------------------------
(****************************************************************************)
(* A run of the test framework (test_framework/test_framework.py): the main *)
(* loop of do_test_run, a worker process for each test case with its alarm  *)
(* and its connection, and the threads that read the connections.           *)
(****************************************************************************)
EXTENDS Integers, Sequences, FiniteSets

CONSTANTS
    NumCases,   \* the test cases, in the order of the iterator
    MaxJobs     \* bound: num_jobs is at most this

ASSUME TestRunAssumption == NumCases \in Nat /\ MaxJobs \in Nat

Case == 1..NumCases

VARIABLES
    jobs,       \* num_jobs; 0 stands for a negative one too
    phase,      \* of the main loop: start, loop, done
    pos,        \* the next test case
    running,    \* num_running
    in_queue,   \* what the main loop reads
    at,         \* where the worker of each test case is
    alarm,      \* the workers whose alarm is set
    open,       \* its connection has not been closed by a failed send
    sent,       \* what is written on its connection and not read
    helper,     \* and on that of a process the test case has started
    failed,     \* what went wrong in the test case
    recorded,   \* the test cases with a failed assertion in the database
    ended,      \* the test cases closed in the database
    mishap      \* the alarm hit something else than the test, or it was killed

workVars == <<at, alarm, open, sent, helper, failed, mishap>>
mainVars == <<jobs, phase, pos, running, recorded, ended>>
vars     == <<mainVars, in_queue, workVars>>

Fail(t) == [case |-> t, what |-> "fail"]
End(t)  == [case |-> t, what |-> "end"]
Finish  == [case |-> 0, what |-> "finish"]

TypeOK ==
    /\ phase \in {"start", "loop", "done"}
    /\ jobs \in 0..MaxJobs /\ pos \in 1..(NumCases + 1) /\ running \in 0..jobs
    /\ in_queue \in Seq([case : Case, what : {"fail", "end"}] \cup {Finish})
    /\ at \in [Case -> {"none", "body", "assert", "except", "finally", "dead"}]
    /\ alarm \subseteq Case
    /\ open \in [Case -> BOOLEAN]
    /\ sent \in [Case -> Seq({"fail", "end"})] /\ helper \in [Case -> Seq({"fail"})]
    /\ failed \in [Case -> SUBSET {"assertion", "helper", "exception", "timeout"}]
    /\ recorded \subseteq Case /\ ended \subseteq Case /\ mishap \subseteq Case

Init ==
    /\ jobs \in 0..MaxJobs /\ phase = "start" /\ pos = 1 /\ running = 0 /\ in_queue = <<>>
    /\ at = [t \in Case |-> "none"] /\ alarm = {}
    /\ open = [t \in Case |-> TRUE]
    /\ sent = [t \in Case |-> <<>>] /\ helper = [t \in Case |-> <<>>]
    /\ failed = [t \in Case |-> {}]
    /\ recorded = {} /\ ended = {} /\ mishap = {}

Goto(t, where) == at' = [at EXCEPT ![t] = where]
Blame(t, why)  == failed' = [failed EXCEPT ![t] = @ \cup {why}]

----------------------------------------------------------------------------
(* The worker: testcase_worker_wrapper.                                     *)

\* An assertion that fails, made by the test or by a process it has started
\* and waited for, whose handle has a connection of its own.
StartAssert(t) ==
    /\ at[t] = "body" /\ failed[t] = {}
    /\ Goto(t, "assert") /\ Blame(t, "assertion")
    /\ UNCHANGED <<mainVars, in_queue, alarm, open, sent, helper, mishap>>
SendAssert(t) ==
    /\ at[t] = "assert"
    /\ Goto(t, "body")
    /\ sent' = [sent EXCEPT ![t] = Append(@, "fail")]
    /\ UNCHANGED <<mainVars, in_queue, alarm, open, helper, failed, mishap>>
HelperAssert(t) ==
    /\ at[t] = "body" /\ failed[t] = {}
    /\ helper' = [helper EXCEPT ![t] = Append(@, "fail")]
    /\ Blame(t, "helper")
    /\ UNCHANGED <<mainVars, in_queue, at, alarm, open, sent, mishap>>

\* The test returns, and the alarm is turned off, or it raises.
Return(t) ==
    /\ at[t] = "body"
    /\ Goto(t, "finally") /\ alarm' = alarm \ {t}
    /\ UNCHANGED <<mainVars, in_queue, open, sent, helper, failed, mishap>>
Raise(t) ==
    /\ at[t] = "body"
    /\ Goto(t, "except") /\ Blame(t, "exception")
    /\ UNCHANGED <<mainVars, in_queue, alarm, open, sent, helper, mishap>>

\* TimeoutException is raised wherever the worker is.  In the test a bare except,
\* as there is in Socket.close, may swallow it.  In a send it closes the
\* connection.  In the handler of an exception it ends the handler: if x is set
\* the outer handler reports nothing, if not it reports a timeout.  In the
\* finally clause it ends the worker.
Alarm(t) ==
    /\ t \in alarm
    /\ alarm' = alarm \ {t}
    /\ \/ at[t] \in {"body", "assert"} /\ Goto(t, "except") /\ Blame(t, "timeout")
       \/ at[t] = "body" /\ UNCHANGED <<at, failed>>
       \/ at[t] = "except" /\ (Goto(t, "finally") \/ UNCHANGED at) /\ UNCHANGED failed
       \/ at[t] = "finally" /\ Goto(t, "dead") /\ UNCHANGED failed
    /\ \/ at[t] # "assert" /\ UNCHANGED open
       \/ at[t] # "body" /\ open' = [open EXCEPT ![t] = FALSE]
    /\ mishap' = IF at[t] = "body" THEN mishap ELSE mishap \cup {t}
    /\ UNCHANGED <<mainVars, in_queue, sent, helper>>

\* h.fail in the handlers; on a closed connection that raises too.
Report(t) ==
    /\ at[t] = "except"
    /\ \/ open[t] /\ Goto(t, "finally") /\ UNCHANGED alarm
          /\ sent' = [sent EXCEPT ![t] = Append(@, "fail")]
       \/ ~open[t] /\ Goto(t, "dead") /\ alarm' = alarm \ {t} /\ UNCHANGED sent
    /\ UNCHANGED <<mainVars, in_queue, open, helper, failed, mishap>>

SendEnd(t) ==
    /\ at[t] = "finally"
    /\ sent' = IF open[t] THEN [sent EXCEPT ![t] = Append(@, "end")] ELSE sent
    /\ Goto(t, "dead") /\ alarm' = alarm \ {t}
    /\ UNCHANGED <<mainVars, in_queue, open, helper, failed, mishap>>

\* The test kills its process, or something else does.
Kill(t) ==
    /\ at[t] \notin {"none", "dead"}
    /\ Goto(t, "dead") /\ alarm' = alarm \ {t} /\ mishap' = mishap \cup {t}
    /\ UNCHANGED <<mainVars, in_queue, open, sent, helper, failed>>

Work(t) == SendAssert(t) \/ Report(t) \/ SendEnd(t) \/ Alarm(t)

QueuedFirst(x) == <<x>> \o in_queue
Queued(x) == Append(in_queue, x)

\* test_server_handle: one thread for each connection.
Serve(t) ==
    /\ \/ /\ sent[t] # <<>>
          /\ sent' = [sent EXCEPT ![t] = Tail(@)] /\ UNCHANGED helper
          /\ in_queue' = Queued(IF Head(sent[t]) = "end" THEN End(t) ELSE Fail(t))
       \/ /\ helper[t] # <<>>
          /\ helper' = [helper EXCEPT ![t] = Tail(@)] /\ UNCHANGED sent
          /\ in_queue' = Queued(Fail(t))
    /\ UNCHANGED <<mainVars, at, alarm, open, failed, mishap>>

----------------------------------------------------------------------------
(* The main process: do_test_run.                                           *)

\* launch_task, which answers None when there are no more; n is num_running.
More == pos <= NumCases
LaunchTask(n) ==
    IF More
    THEN /\ pos' = pos + 1 /\ running' = n + 1
         /\ Goto(pos, "body") /\ alarm' = alarm \cup {pos}
    ELSE running' = n /\ UNCHANGED <<pos, at, alarm>>

StartWorker ==
    /\ phase = "start" /\ More /\ pos <= jobs
    /\ LaunchTask(running)
    /\ UNCHANGED <<jobs, phase, recorded, ended, in_queue, open, sent, helper, failed, mishap>>
StartLoop ==
    /\ phase = "start" /\ (pos > jobs \/ ~More)
    /\ phase' = "loop"
    /\ in_queue' = Append(in_queue, Finish)
    /\ UNCHANGED <<jobs, pos, running, recorded, ended, workVars>>

EndsEarly == running = 1
EndsWithNoneLeft == ~More /\ running = 0
LastEnds == ~More /\ running = 1
NothingRuns == running = 0

HandleMessage ==
    LET x == Head(in_queue) IN
    /\ phase = "loop" /\ in_queue # <<>>
    /\ in_queue' = Tail(in_queue)
    /\ \/ /\ x.what = "end"
          /\ ended' = ended \cup {x.case}
          /\ phase' = IF LastEnds THEN "done" ELSE "loop"
          /\ LaunchTask(running - 1)
          /\ UNCHANGED recorded
       \/ /\ x.what = "finish"
          /\ phase' = IF NothingRuns THEN "done" ELSE "loop"
          /\ UNCHANGED <<pos, running, recorded, ended, at, alarm>>
       \/ /\ x.what = "fail"
          /\ recorded' = recorded \cup {x.case}
          /\ UNCHANGED <<phase, pos, running, ended, at, alarm>>
    /\ UNCHANGED <<jobs, open, sent, helper, failed, mishap>>

MainStep == StartWorker \/ StartLoop \/ HandleMessage

Next ==
    \/ MainStep
    \/ \E t \in Case :
         \/ Work(t) \/ Serve(t) \/ Kill(t)
         \/ StartAssert(t) \/ HelperAssert(t) \/ Return(t) \/ Raise(t)

\* The main loop, the threads of the server and the workers outside the test go
\* on, and the alarm goes off; a test need not end by itself.
Spec     == Init /\ [][Next]_vars
FairSpec == Spec /\ WF_vars(MainStep)
            /\ \A t \in Case : WF_vars(Work(t)) /\ WF_vars(Serve(t))

----------------------------------------------------------------------------
(* Properties.                                                              *)

\* num_running counts the workers whose end has not been handled, and when the
\* run is over every test case has been run to its end, or, with no jobs, none.
CountsWorkers ==
    /\ running = Cardinality({t \in Case : t < pos /\ t \notin ended})
    /\ phase = "done" => ended = IF jobs = 0 THEN {} ELSE Case

\* When a test case is closed, its failure is in the database, whether it was
\* an assertion, an exception or a timeout.  The exceptions: the alarm went off
\* outside the test, or the failure is that of another process, whose
\* connection has a thread of its own.
FailuresRecorded ==
    \A t \in ended : t \in recorded \cup mishap \/ failed[t] \subseteq {"helper"}

\* A test that has swallowed its alarm and goes on has no other.
Unlimited(t) == at[t] = "body" /\ t \notin alarm

\* The run ends, whatever the tests do, unless a worker is killed, the alarm goes
\* off while the worker writes an assertion or handles an exception, or a test
\* swallows it.
RunEnds == <>(phase = "done" \/ mishap # {} \/ \E t \in Case : Unlimited(t))
=============================================================================
