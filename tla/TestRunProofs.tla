---------------------------- MODULE TestRunProofs ----------------------------
(****************************************************************************)
(* Theorems about TestRun, for every number of test cases and of jobs: the  *)
(* types, and that num_running counts the workers whose end is to come.     *)
(****************************************************************************)
EXTENDS TestRun, FiniteSetTheorems, SequenceTheorems, TLAPS

Letter == [case : Case, what : {"fail", "end"}] \cup {Finish}

\* The test cases that run, or whose end has not been handled.
Active == {t \in Case : t < pos /\ t \notin ended}

\* A worker says once that it has ended, as the last thing it does: the message
\* is on its connection, or in the queue, or handled.
SentLast ==
    \A t \in Case : \A i \in 1..Len(sent[t]) :
        sent[t][i] = "end" =>
            /\ i = Len(sent[t]) /\ at[t] = "dead" /\ t \notin ended
            /\ \A j \in 1..Len(in_queue) : in_queue[j] # End(t)
QueuedOnce ==
    \A t \in Case : \A i \in 1..Len(in_queue) :
        in_queue[i] = End(t) =>
            /\ at[t] = "dead" /\ t \notin ended
            /\ \A j \in 1..Len(in_queue) : in_queue[j] = End(t) => j = i
EndedDead == \A t \in ended : at[t] = "dead"
Unstarted == \A t \in Case : t >= pos => at[t] = "none"

\* While workers are started nothing is handled; then one runs as long as there
\* are test cases left, unless there are no jobs, and then none is ever started.
Phases ==
    /\ phase = "start" => running = pos - 1 /\ pos <= jobs + 1 /\ ended = {}
    /\ phase = "loop" /\ More /\ jobs # 0 => running >= 1
    /\ jobs = 0 => pos = 1

Ends == SentLast /\ QueuedOnce /\ EndedDead /\ Unstarted
Inv  == TypeOK /\ Ends /\ Phases /\ CountsWorkers

----------------------------------------------------------------------------
(* Facts about the data.                                                    *)

LEMMA CaseFinite ==
    /\ NumCases \in Nat /\ IsFiniteSet(Case)
    /\ \A S \in SUBSET Case : IsFiniteSet(S) /\ Cardinality(S) \in Nat
<1>1. NumCases \in Nat
  BY TestRunAssumption
<1>2. IsFiniteSet(Case)
  BY <1>1, FS_Interval DEF Case
<1>3. ASSUME NEW S \in SUBSET Case
      PROVE  IsFiniteSet(S) /\ Cardinality(S) \in Nat
  BY <1>2, FS_Subset, FS_CardinalityType
<1> QED BY <1>1, <1>2, <1>3

\* The messages of a test case are not those of another, nor the main loop's.
LEMMA Letters ==
    /\ Finish \in Letter
    /\ \A t \in Case : End(t) \in Letter /\ Fail(t) \in Letter
    /\ \A t \in Case : End(t).what = "end" /\ End(t).case = t
    /\ \A t, u \in Case : Fail(u) # End(t) /\ Finish # End(t)
    /\ \A t, u \in Case : End(t) = End(u) => t = u
    /\ \A x \in Letter : x.what = "end" => x.case \in Case /\ x = End(x.case)
    /\ \A x \in Letter : x.what = "fail" => x.case \in Case
BY DEF Letter, Finish, End, Fail, Case

\* What appending to, and taking from, the queue of the main loop changes.
LEMMA Appended ==
    ASSUME NEW S, NEW s \in Seq(S), NEW e \in S, NEW t, t = Append(s, e)
    PROVE  /\ t \in Seq(S) /\ Len(t) = Len(s) + 1 /\ Len(s) \in Nat
           /\ \A i \in 1..Len(t) : (i \in 1..Len(s) /\ t[i] = s[i]) \/ (i = Len(t) /\ t[i] = e)
           /\ \A i \in 1..Len(s) : i \in 1..Len(t) /\ t[i] = s[i]
<1>1. /\ t \in Seq(S) /\ Len(t) = Len(s) + 1 /\ Len(s) \in Nat
      /\ \A i \in 1..Len(s) : t[i] = s[i]
      /\ t[Len(s) + 1] = e
  BY AppendProperties, LenProperties
<1> QED BY <1>1

LEMMA Taken ==
    ASSUME NEW S, NEW s \in Seq(S), s # <<>>, NEW t, t = Tail(s)
    PROVE  /\ t \in Seq(S) /\ Len(s) = Len(t) + 1 /\ Len(t) \in Nat
           /\ Head(s) = s[1] /\ Head(s) \in S
           /\ \A i \in 1..Len(t) : i + 1 \in 2..Len(s) /\ i + 1 \in 1..Len(s) /\ t[i] = s[i + 1]
<1>1. /\ t \in Seq(S) /\ Len(t) = Len(s) - 1 /\ Head(s) \in S
      /\ \A i \in 1..Len(t) : t[i] = s[i + 1]
  BY HeadTailProperties
<1>2. Len(s) \in Nat /\ Len(t) \in Nat
  BY <1>1, LenProperties
<1> QED BY <1>1, <1>2

\* A worker whose end is at the head of the queue is counted.
LEMMA EndCounted ==
    ASSUME Inv, in_queue # <<>>, Head(in_queue).what = "end"
    PROVE  /\ Head(in_queue).case \in Active /\ running >= 1
           /\ Head(in_queue) = End(Head(in_queue).case)
           /\ at[Head(in_queue).case] = "dead"
<1> DEFINE t == Head(in_queue).case
<1>1. in_queue \in Seq(Letter)
  BY DEF Inv, TypeOK, Letter
<1>2. Head(in_queue) = in_queue[1] /\ Head(in_queue) \in Letter /\ 1 \in 1..Len(in_queue)
  BY <1>1, Taken
<1>3. t \in Case /\ Head(in_queue) = End(t)
  BY <1>2, Letters
<1> HIDE DEF t
<1>4. at[t] = "dead" /\ t \notin ended
  BY <1>2, <1>3 DEF Inv, Ends, QueuedOnce
<1>5. t \in Active
  <2>1. ~(t >= pos)
    BY <1>3, <1>4 DEF Inv, Ends, Unstarted
  <2>2. pos \in Nat /\ t \in Nat
    BY <1>3, CaseFinite DEF Inv, TypeOK, Case
  <2> QED BY <1>3, <1>4, <2>1, <2>2 DEF Active
<1>6. running >= 1
  <2>1. IsFiniteSet(Active) /\ Cardinality(Active) \in Nat
    BY CaseFinite DEF Active
  <2>2. Cardinality(Active) # 0
    BY <1>5, <2>1, FS_EmptySet
  <2> QED BY <2>1, <2>2 DEF Inv, CountsWorkers, Active
<1> QED BY <1>3, <1>4, <1>5, <1>6 DEF t

----------------------------------------------------------------------------
(* Types.                                                                   *)

\* What appending a message to a connection, or taking one off it, leaves.
LEMMA ConnectionTypes ==
    ASSUME NEW f, NEW V, f \in [Case -> Seq(V)], NEW t \in Case
    PROVE  /\ \A x \in V : [f EXCEPT ![t] = Append(@, x)] \in [Case -> Seq(V)]
           /\ f[t] # <<>> => [f EXCEPT ![t] = Tail(@)] \in [Case -> Seq(V)]
<1>1. f[t] \in Seq(V)
  OBVIOUS
<1>2. \A x \in V : Append(f[t], x) \in Seq(V)
  BY <1>1, AppendProperties
<1>3. f[t] # <<>> => Tail(f[t]) \in Seq(V)
  BY <1>1, HeadTailProperties
<1> QED BY <1>1, <1>2, <1>3

LEMMA LaunchTypes ==
    ASSUME TypeOK, NEW n \in Nat, n + 1 <= jobs \/ (n <= jobs /\ ~More), LaunchTask(n)
    PROVE  /\ pos' \in 1..(NumCases + 1) /\ running' \in 0..jobs
           /\ at' \in [Case -> {"none", "body", "assert", "except", "finally", "dead"}]
           /\ alarm' \subseteq Case
<1>1. NumCases \in Nat /\ jobs \in Nat /\ pos \in Nat /\ pos >= 1
  BY TestRunAssumption DEF TypeOK
<1>2. CASE More
  <2>1. pos \in Case
    BY <1>1, <1>2 DEF More, Case
  <2>2. pos' = pos + 1 /\ running' = n + 1 /\ Goto(pos, "body") /\ alarm' = alarm \cup {pos}
    BY <1>2 DEF LaunchTask
  <2> QED BY <1>1, <1>2, <2>1, <2>2 DEF TypeOK, Goto, More
<1>3. CASE ~More
  <2>1. running' = n /\ UNCHANGED <<pos, at, alarm>> /\ n <= jobs
    BY <1>1, <1>3 DEF LaunchTask
  <2> QED BY <1>1, <2>1 DEF TypeOK
<1> QED BY <1>2, <1>3

LEMMA NextTypes == Inv /\ [Next]_vars => TypeOK'
<1> SUFFICES ASSUME Inv, [Next]_vars PROVE TypeOK'
  OBVIOUS
<1>0. TypeOK
  BY DEF Inv
<1>1. CASE StartWorker
  <2>1. running \in Nat /\ running + 1 <= jobs
    BY <1>0, <1>1, TestRunAssumption DEF StartWorker, Inv, Phases, TypeOK
  <2>2. /\ pos' \in 1..(NumCases + 1) /\ running' \in 0..jobs
        /\ at' \in [Case -> {"none", "body", "assert", "except", "finally", "dead"}]
        /\ alarm' \subseteq Case
    BY <1>0, <1>1, <2>1, LaunchTypes DEF StartWorker
  <2> QED BY <1>0, <1>1, <2>2 DEF StartWorker, TypeOK
<1>2. CASE StartLoop
  <2>1. in_queue' \in Seq(Letter)
    BY <1>0, <1>2, Letters, AppendProperties DEF StartLoop, TypeOK, Letter
  <2> QED BY <1>0, <1>2, <2>1 DEF StartLoop, TypeOK, workVars, Letter
<1>3. CASE HandleMessage
  <2> DEFINE x == Head(in_queue)
  <2>1. in_queue \in Seq(Letter) /\ in_queue # <<>> /\ in_queue' = Tail(in_queue)
    BY <1>0, <1>3 DEF HandleMessage, TypeOK, Letter
  <2>2. in_queue' \in Seq(Letter) /\ x \in Letter
    BY <2>1, Taken
  <2>3. UNCHANGED <<jobs, open, sent, helper, failed, mishap>>
    BY <1>3 DEF HandleMessage
  <2>4. CASE x.what = "end"
    <3>1. x.case \in Case /\ running >= 1
      BY <1>3, <2>4, EndCounted DEF HandleMessage, Active
    <3>2. /\ ended' = ended \cup {x.case} /\ LaunchTask(running - 1)
          /\ phase' \in {"loop", "done"} /\ UNCHANGED recorded
      BY <1>3, <2>4 DEF HandleMessage
    <3>3. running - 1 \in Nat /\ (running - 1) + 1 <= jobs
      BY <1>0, <3>1, TestRunAssumption DEF TypeOK
    <3> HIDE DEF x
    <3>4. /\ pos' \in 1..(NumCases + 1) /\ running' \in 0..jobs
          /\ at' \in [Case -> {"none", "body", "assert", "except", "finally", "dead"}]
          /\ alarm' \subseteq Case
      <4> DEFINE n == running - 1
      <4>1. n \in Nat /\ n + 1 <= jobs /\ LaunchTask(n)
        BY <3>2, <3>3
      <4> HIDE DEF n
      <4> QED BY <1>0, <4>1, LaunchTypes
    <3> QED BY <1>0, <2>2, <2>3, <3>1, <3>2, <3>4 DEF TypeOK, Letter
  <2>5. CASE x.what = "finish"
    <3>1. /\ phase' \in {"loop", "done"}
          /\ UNCHANGED <<pos, running, recorded, ended, at, alarm>>
      BY <1>3, <2>5 DEF HandleMessage
    <3> QED BY <1>0, <2>2, <2>3, <3>1 DEF TypeOK, Letter
  <2>6. CASE x.what = "fail"
    <3>1. /\ recorded' = recorded \cup {x.case} /\ x.case \in Case
          /\ UNCHANGED <<phase, pos, running, ended, at, alarm>>
      BY <1>3, <2>2, <2>6, Letters DEF HandleMessage
    <3> QED BY <1>0, <2>2, <2>3, <3>1 DEF TypeOK, Letter
  <2> QED BY <1>3, <2>4, <2>5, <2>6 DEF HandleMessage
<1>4. ASSUME NEW t \in Case,
             StartAssert(t) \/ HelperAssert(t) \/ Return(t) \/ Raise(t) \/ Kill(t) \/ Alarm(t)
      PROVE  TypeOK'
  <2>1. CASE StartAssert(t)
    BY <1>0, <2>1 DEF StartAssert, TypeOK, mainVars, Goto, Blame
  <2>2. CASE HelperAssert(t)
    <3>1. helper' \in [Case -> Seq({"fail"})]
      BY <1>0, <2>2, ConnectionTypes DEF HelperAssert, TypeOK
    <3> QED BY <1>0, <2>2, <3>1 DEF HelperAssert, TypeOK, mainVars, Blame
  <2>3. CASE Return(t)
    BY <1>0, <2>3 DEF Return, TypeOK, mainVars, Goto
  <2>4. CASE Raise(t)
    BY <1>0, <2>4 DEF Raise, TypeOK, mainVars, Goto, Blame
  <2>5. CASE Kill(t)
    BY <1>0, <2>5 DEF Kill, TypeOK, mainVars, Goto
  <2>6. CASE Alarm(t)
    <3>1. at' \in [Case -> {"none", "body", "assert", "except", "finally", "dead"}]
      BY <1>0, <2>6 DEF Alarm, TypeOK, Goto
    <3>2. failed' \in [Case -> SUBSET {"assertion", "helper", "exception", "timeout"}]
      BY <1>0, <2>6 DEF Alarm, TypeOK, Blame
    <3>3. open' \in [Case -> BOOLEAN] /\ alarm' \subseteq Case /\ mishap' \subseteq Case
      BY <1>0, <2>6 DEF Alarm, TypeOK
    <3> QED BY <1>0, <2>6, <3>1, <3>2, <3>3 DEF Alarm, TypeOK, mainVars
  <2> QED BY <1>4, <2>1, <2>2, <2>3, <2>4, <2>5, <2>6
<1>5. ASSUME NEW t \in Case, SendAssert(t) \/ Report(t) \/ SendEnd(t)
      PROVE  TypeOK'
  <2>0. \A x \in {"fail", "end"} :
            [sent EXCEPT ![t] = Append(@, x)] \in [Case -> Seq({"fail", "end"})]
    BY <1>0, ConnectionTypes DEF TypeOK
  <2>1. sent' \in [Case -> Seq({"fail", "end"})]
    BY <1>0, <1>5, <2>0 DEF SendAssert, Report, SendEnd, TypeOK
  <2>2. CASE SendAssert(t)
    BY <1>0, <2>1, <2>2 DEF SendAssert, TypeOK, mainVars, Goto
  <2>3. CASE Report(t)
    BY <1>0, <2>1, <2>3 DEF Report, TypeOK, mainVars, Goto
  <2>4. CASE SendEnd(t)
    BY <1>0, <2>1, <2>4 DEF SendEnd, TypeOK, mainVars, Goto
  <2> QED BY <1>5, <2>2, <2>3, <2>4
<1>6. ASSUME NEW t \in Case, Serve(t)
      PROVE  TypeOK'
  <2>1. sent' \in [Case -> Seq({"fail", "end"})] /\ helper' \in [Case -> Seq({"fail"})]
    <3>1. sent[t] # <<>> =>
              [sent EXCEPT ![t] = Tail(@)] \in [Case -> Seq({"fail", "end"})]
      BY <1>0, ConnectionTypes DEF TypeOK
    <3>2. helper[t] # <<>> => [helper EXCEPT ![t] = Tail(@)] \in [Case -> Seq({"fail"})]
      BY <1>0, ConnectionTypes DEF TypeOK
    <3> QED BY <1>0, <1>6, <3>1, <3>2 DEF Serve, TypeOK
  <2>2. \E x \in Letter : in_queue' = Append(in_queue, x)
    BY <1>6, Letters DEF Serve, Queued
  <2>3. in_queue' \in Seq(Letter)
    BY <1>0, <2>2, AppendProperties DEF TypeOK, Letter
  <2> QED BY <1>0, <1>6, <2>1, <2>3 DEF Serve, TypeOK, mainVars, Letter
<1>7. CASE UNCHANGED vars
  BY <1>0, <1>7 DEF vars, mainVars, workVars, TypeOK
<1> QED BY <1>1, <1>2, <1>3, <1>4, <1>5, <1>6, <1>7 DEF Next, MainStep, Work

----------------------------------------------------------------------------
(* A worker says once that it has ended.                                    *)

\* Launching a test case moves only the worker that had not been started.
LEMMA LaunchKeeps ==
    ASSUME Inv, NEW n, LaunchTask(n)
    PROVE  /\ \A t \in Case : at[t] = "dead" => at'[t] = "dead"
           /\ Unstarted'
<1>1. NumCases \in Nat /\ pos \in Nat /\ pos >= 1 /\ TypeOK
  BY TestRunAssumption DEF Inv, TypeOK
<1>2. CASE More
  <2>1. pos \in Case
    BY <1>1, <1>2 DEF More, Case
  <2>2. pos' = pos + 1 /\ at' = [at EXCEPT ![pos] = "body"]
    BY <1>2 DEF LaunchTask, Goto
  <2>3. \A t \in Case : t # pos => at'[t] = at[t]
    BY <1>1, <2>2 DEF TypeOK
  <2>4. at[pos] = "none"
    BY <1>1, <2>1 DEF Inv, Ends, Unstarted
  <2>5. \A t \in Case : t >= pos' => t >= pos /\ t # pos
    BY <1>1, <2>2 DEF Case
  <2> QED BY <2>2, <2>3, <2>4, <2>5 DEF Inv, Ends, Unstarted
<1>3. CASE ~More
  BY <1>3 DEF LaunchTask, Inv, Ends, Unstarted
<1> QED BY <1>2, <1>3

\* A step of the worker of t that says nothing of its end.
LEMMA WorkerMoves ==
    ASSUME Inv, NEW t \in Case, at[t] \notin {"none", "dead"},
           \A u \in Case \ {t} : at'[u] = at[u] /\ sent'[u] = sent[u],
           \A i \in 1..Len(sent'[t]) : sent'[t][i] # "end",
           UNCHANGED <<pos, in_queue, ended>>
    PROVE  Ends'
<1>1. Ends
  BY DEF Inv
<1>2. SentLast'
  BY <1>1 DEF Ends, SentLast
<1>3. QueuedOnce'
  BY <1>1 DEF Ends, QueuedOnce
<1>4. EndedDead'
  BY <1>1 DEF Ends, EndedDead, Inv, TypeOK
<1>5. Unstarted'
  BY <1>1 DEF Ends, Unstarted
<1> QED BY <1>2, <1>3, <1>4, <1>5 DEF Ends

\* What is in the queue, if no end is added to it.
LEMMA QueueMoves ==
    ASSUME Inv, NEW x \in Letter, x.what # "end", in_queue' = Append(in_queue, x),
           UNCHANGED <<pos, ended, at>>,
           \A u \in Case : \A i \in 1..Len(sent'[u]) :
               sent'[u][i] = "end" =>
                   \E j \in 1..Len(sent[u]) :
                       sent[u][j] = "end" /\ (j = Len(sent[u]) => i = Len(sent'[u]))
    PROVE  Ends'
<1>1. Ends /\ in_queue \in Seq(Letter)
  BY DEF Inv, TypeOK, Letter
<1>2. /\ Len(in_queue') = Len(in_queue) + 1 /\ Len(in_queue) \in Nat
      /\ \A i \in 1..Len(in_queue') :
            (i \in 1..Len(in_queue) /\ in_queue'[i] = in_queue[i])
            \/ (i = Len(in_queue') /\ in_queue'[i] = x)
  BY <1>1, Appended
<1>3. \A t \in Case : \A i \in 1..Len(in_queue') :
          in_queue'[i] = End(t) => i \in 1..Len(in_queue) /\ in_queue[i] = End(t)
  BY <1>2, Letters
<1>4. SentLast'
  BY <1>1, <1>3 DEF Ends, SentLast
<1>5. QueuedOnce'
  BY <1>1, <1>3 DEF Ends, QueuedOnce
<1>6. EndedDead' /\ Unstarted'
  BY <1>1 DEF Ends, EndedDead, Unstarted
<1> QED BY <1>4, <1>5, <1>6 DEF Ends

\* No end is on the connection of a worker that is alive.
LEMMA AliveSilent ==
    ASSUME Inv, NEW t \in Case, at[t] # "dead"
    PROVE  /\ \A i \in 1..Len(sent[t]) : sent[t][i] # "end"
           /\ \A i \in 1..Len(in_queue) : in_queue[i] # End(t)
           /\ t \notin ended
BY DEF Inv, Ends, SentLast, QueuedOnce, EndedDead

\* The end of t goes from its connection to the queue.
LEMMA ServeEnds ==
    ASSUME Inv, NEW t \in Case, Serve(t)
    PROVE  Ends'
<1>1. /\ TypeOK /\ Ends /\ in_queue \in Seq(Letter) /\ sent[t] \in Seq({"fail", "end"})
      /\ UNCHANGED <<pos, ended, at>>
  BY DEF Inv, TypeOK, Serve, mainVars, Letter
<1>2. CASE /\ sent[t] # <<>> /\ sent' = [sent EXCEPT ![t] = Tail(@)]
           /\ in_queue' = Queued(IF Head(sent[t]) = "end" THEN End(t) ELSE Fail(t))
  <2> DEFINE s == sent[t]
             r == sent'[t]
  <2>1. r = Tail(s) /\ \A u \in Case \ {t} : sent'[u] = sent[u]
    BY <1>1, <1>2 DEF TypeOK
  <2>2. /\ Len(s) = Len(r) + 1 /\ Len(r) \in Nat /\ Head(s) = s[1]
        /\ \A i \in 1..Len(r) : i + 1 \in 1..Len(s) /\ r[i] = s[i + 1]
    <3>1. s \in Seq({"fail", "end"}) /\ s # <<>> /\ r = Tail(s)
      BY <1>1, <1>2, <2>1
    <3> HIDE DEF s, r
    <3> QED BY <3>1, Taken
  <2>3. CASE Head(s) # "end"
    <3>1. Fail(t) \in Letter /\ Fail(t).what # "end" /\ in_queue' = Append(in_queue, Fail(t))
      BY <1>2, <2>3, Letters DEF Queued, Fail
    <3>2. ASSUME NEW u \in Case, NEW i \in 1..Len(sent'[u]), sent'[u][i] = "end"
          PROVE  \E j \in 1..Len(sent[u]) :
                     sent[u][j] = "end" /\ (j = Len(sent[u]) => i = Len(sent'[u]))
      <4>1. CASE u = t
        <5>1. i + 1 \in 1..Len(s) /\ s[i + 1] = "end" /\ (i + 1 = Len(s) => i = Len(r))
          BY <2>2, <3>2, <4>1
        <5> QED BY <4>1, <5>1
      <4>2. CASE u # t
        BY <2>1, <3>2, <4>2
      <4> QED BY <4>1, <4>2
    <3> QED BY <1>1, <3>1, <3>2, QueueMoves
  <2>4. CASE Head(s) = "end"
    <3>1. 1 \in 1..Len(s) /\ s[1] = "end"
      BY <2>2, <2>4
    <3>2. /\ Len(s) = 1 /\ at[t] = "dead" /\ t \notin ended
          /\ \A j \in 1..Len(in_queue) : in_queue[j] # End(t)
      BY <1>1, <3>1 DEF Ends, SentLast
    <3>3. Len(r) = 0
      <4> DEFINE n == Len(r)
      <4>1. 1 = n + 1 /\ n \in Nat
        BY <2>2, <3>2
      <4> HIDE DEF n
      <4>2. n = 0
        BY <4>1
      <4> QED BY <4>2 DEF n
    <3>4. in_queue' = Append(in_queue, End(t)) /\ End(t) \in Letter
      BY <1>2, <2>4, Letters DEF Queued
    <3>5. /\ Len(in_queue') = Len(in_queue) + 1 /\ Len(in_queue) \in Nat
          /\ \A i \in 1..Len(in_queue') :
                (i \in 1..Len(in_queue) /\ in_queue'[i] = in_queue[i])
                \/ (i = Len(in_queue') /\ in_queue'[i] = End(t))
      BY <1>1, <3>4, Appended
    <3>6. \A u \in Case \ {t} : \A i \in 1..Len(in_queue') :
              in_queue'[i] = End(u) => i \in 1..Len(in_queue) /\ in_queue[i] = End(u)
      BY <3>5, Letters
    <3>7. \A i \in 1..Len(in_queue') : in_queue'[i] = End(t) => i = Len(in_queue')
      BY <3>2, <3>5
    <3>8. SentLast'
      <4> SUFFICES ASSUME NEW u \in Case, NEW i \in 1..Len(sent'[u]), sent'[u][i] = "end"
                   PROVE  /\ i = Len(sent'[u]) /\ at[u] = "dead" /\ u \notin ended
                          /\ \A j \in 1..Len(in_queue') : in_queue'[j] # End(u)
        BY <1>1 DEF SentLast
      <4>1. u # t
        BY <3>3
      <4> QED BY <1>1, <2>1, <3>6, <4>1 DEF Ends, SentLast
    <3>9. QueuedOnce'
      <4> SUFFICES ASSUME NEW u \in Case, NEW i \in 1..Len(in_queue'), in_queue'[i] = End(u)
                   PROVE  /\ at[u] = "dead" /\ u \notin ended
                          /\ \A j \in 1..Len(in_queue') : in_queue'[j] = End(u) => j = i
        BY <1>1 DEF QueuedOnce
      <4>1. CASE u = t
        BY <3>2, <3>7, <4>1
      <4>2. CASE u # t
        BY <1>1, <3>6, <4>2 DEF Ends, QueuedOnce
      <4> QED BY <4>1, <4>2
    <3>10. EndedDead' /\ Unstarted'
      BY <1>1 DEF Ends, EndedDead, Unstarted
    <3> QED BY <3>8, <3>9, <3>10 DEF Ends
  <2> QED BY <2>3, <2>4
<1>3. CASE in_queue' = Queued(Fail(t)) /\ UNCHANGED sent
  <2>1. Fail(t) \in Letter /\ Fail(t).what # "end" /\ in_queue' = Append(in_queue, Fail(t))
    BY <1>3, Letters DEF Queued, Fail
  <2> QED BY <1>1, <1>3, <2>1, QueueMoves
<1> QED BY <1>2, <1>3 DEF Serve

LEMMA NextEnds == Inv /\ [Next]_vars => Ends'
<1> SUFFICES ASSUME Inv, [Next]_vars PROVE Ends'
  OBVIOUS
<1>0. TypeOK /\ Ends
  BY DEF Inv
<1>1. CASE StartWorker
  <2>1. /\ \A t \in Case : at[t] = "dead" => at'[t] = "dead"
        /\ Unstarted' /\ UNCHANGED <<ended, in_queue, sent>>
    BY <1>1, LaunchKeeps DEF StartWorker
  <2>2. SentLast'
    BY <1>0, <2>1 DEF Ends, SentLast
  <2>3. QueuedOnce' /\ EndedDead'
    BY <1>0, <2>1 DEF Ends, QueuedOnce, EndedDead, TypeOK
  <2> QED BY <2>1, <2>2, <2>3 DEF Ends
<1>2. CASE StartLoop
  <2>1. /\ in_queue' = Append(in_queue, Finish) /\ UNCHANGED <<pos, ended, at, sent>>
        /\ Finish \in Letter /\ Finish.what # "end"
    BY <1>2, Letters DEF StartLoop, workVars, Finish
  <2> QED BY <2>1, QueueMoves
<1>3. CASE HandleMessage
  <2> DEFINE x == Head(in_queue)
  <2>1. /\ in_queue \in Seq(Letter) /\ in_queue # <<>> /\ in_queue' = Tail(in_queue)
        /\ UNCHANGED sent
    BY <1>0, <1>3 DEF HandleMessage, TypeOK, Letter
  <2>2. /\ Len(in_queue) = Len(in_queue') + 1 /\ Len(in_queue') \in Nat
        /\ x = in_queue[1] /\ x \in Letter
        /\ \A i \in 1..Len(in_queue') :
              i + 1 \in 1..Len(in_queue) /\ in_queue'[i] = in_queue[i + 1]
    BY <2>1, Taken
  <2>3. /\ \A t \in Case : at[t] = "dead" => at'[t] = "dead"
        /\ Unstarted'
    <3>1. CASE x.what = "end"
      BY <1>3, <3>1, LaunchKeeps DEF HandleMessage
    <3>2. CASE x.what # "end"
      BY <1>0, <1>3, <3>2 DEF HandleMessage, Ends, Unstarted
    <3> QED BY <3>1, <3>2
  <2>4. \A t \in Case : t \in ended' => t \in ended \/ x = End(t)
    <3>1. x.what = "end" => x = End(x.case)
      BY <2>2, Letters
    <3> QED BY <1>3, <3>1 DEF HandleMessage
  <2>5. \A t \in Case : x = End(t) =>
            at[t] = "dead" /\ \A i \in 1..Len(in_queue') : in_queue'[i] # End(t)
    <3> SUFFICES ASSUME NEW t \in Case, x = End(t)
                 PROVE  at[t] = "dead" /\ \A i \in 1..Len(in_queue') : in_queue'[i] # End(t)
      OBVIOUS
    <3>1. 1 \in 1..Len(in_queue) /\ in_queue[1] = End(t)
      BY <2>2
    <3>2. \A i \in 1..Len(in_queue') : i + 1 # 1
      OBVIOUS
    <3> QED BY <1>0, <2>2, <3>1, <3>2 DEF Ends, QueuedOnce
  <2> HIDE DEF x
  <2>6. SentLast'
    <3> SUFFICES ASSUME NEW t \in Case, NEW i \in 1..Len(sent[t]), sent[t][i] = "end"
                 PROVE  /\ i = Len(sent[t]) /\ at'[t] = "dead" /\ t \notin ended'
                        /\ \A j \in 1..Len(in_queue') : in_queue'[j] # End(t)
      BY <2>1 DEF SentLast
    <3>1. /\ i = Len(sent[t]) /\ at[t] = "dead" /\ t \notin ended
          /\ \A j \in 1..Len(in_queue) : in_queue[j] # End(t)
      BY <1>0 DEF Ends, SentLast
    <3>2. x # End(t)
      BY <2>2, <3>1
    <3> QED BY <2>2, <2>3, <2>4, <3>1, <3>2
  <2>7. QueuedOnce'
    <3> SUFFICES ASSUME NEW t \in Case, NEW i \in 1..Len(in_queue'), in_queue'[i] = End(t)
                 PROVE  /\ at'[t] = "dead" /\ t \notin ended'
                        /\ \A j \in 1..Len(in_queue') : in_queue'[j] = End(t) => j = i
      BY DEF QueuedOnce
    <3>1. i + 1 \in 1..Len(in_queue) /\ in_queue[i + 1] = End(t)
      BY <2>2
    <3>2. /\ at[t] = "dead" /\ t \notin ended
          /\ \A j \in 1..Len(in_queue) : in_queue[j] = End(t) => j = i + 1
      BY <1>0, <3>1 DEF Ends, QueuedOnce
    <3>3. ASSUME NEW j \in 1..Len(in_queue'), in_queue'[j] = End(t)
          PROVE  j = i
      <4>1. j + 1 = i + 1
        BY <2>2, <3>2, <3>3
      <4> QED BY <4>1
    <3>4. x # End(t)
      BY <2>5
    <3> QED BY <2>3, <2>4, <3>2, <3>3, <3>4
  <2>8. EndedDead'
    <3>1. ended' \subseteq Case
      BY NextTypes DEF TypeOK
    <3> QED BY <1>0, <2>3, <2>4, <2>5, <3>1 DEF Ends, EndedDead
  <2> QED BY <2>3, <2>6, <2>7, <2>8 DEF Ends
<1>4. ASSUME NEW t \in Case,
             \/ StartAssert(t) \/ HelperAssert(t) \/ Return(t) \/ Raise(t) \/ Kill(t) \/ Alarm(t)
             \/ SendAssert(t) \/ Report(t)
      PROVE  Ends'
  <2>1. /\ at[t] \notin {"none", "dead"} /\ UNCHANGED <<pos, in_queue, ended>>
        /\ \A u \in Case \ {t} : at'[u] = at[u]
    BY <1>0, <1>4
       DEF StartAssert, HelperAssert, Return, Raise, Kill, Alarm, SendAssert, Report,
           mainVars, Goto, TypeOK
  <2>2. sent' = sent \/ sent' = [sent EXCEPT ![t] = Append(@, "fail")]
    BY <1>4 DEF StartAssert, HelperAssert, Return, Raise, Kill, Alarm, SendAssert, Report
  <2>3. \A u \in Case \ {t} : sent'[u] = sent[u]
    BY <1>0, <2>2 DEF TypeOK
  <2>4. \A i \in 1..Len(sent[t]) : sent[t][i] # "end"
    BY <2>1, AliveSilent
  <2>5. \A i \in 1..Len(sent'[t]) : sent'[t][i] # "end"
    <3>1. CASE sent' = sent
      BY <2>4, <3>1
    <3>2. CASE sent' = [sent EXCEPT ![t] = Append(@, "fail")]
      <4> DEFINE s == sent[t]
                 r == sent'[t]
      <4>1. s \in Seq({"fail", "end"}) /\ r = Append(s, "fail")
        BY <1>0, <3>2 DEF TypeOK
      <4> HIDE DEF s, r
      <4>2. \A i \in 1..Len(r) : (i \in 1..Len(s) /\ r[i] = s[i]) \/ r[i] = "fail"
        BY <4>1, Appended
      <4> QED BY <2>4, <4>2 DEF s, r
    <3> QED BY <2>2, <3>1, <3>2
  <2> QED BY <2>1, <2>3, <2>5, WorkerMoves
<1>5. ASSUME NEW t \in Case, SendEnd(t)
      PROVE  Ends'
  <2>1. /\ at[t] = "finally" /\ UNCHANGED <<pos, in_queue, ended>>
        /\ at'[t] = "dead" /\ \A u \in Case \ {t} : at'[u] = at[u]
        /\ sent' = sent \/ sent' = [sent EXCEPT ![t] = Append(@, "end")]
    BY <1>0, <1>5 DEF SendEnd, mainVars, Goto, TypeOK
  <2>2. /\ \A i \in 1..Len(sent[t]) : sent[t][i] # "end"
        /\ \A i \in 1..Len(in_queue) : in_queue[i] # End(t)
        /\ t \notin ended
    BY <2>1, AliveSilent
  <2>3. \A i \in 1..Len(sent'[t]) : sent'[t][i] = "end" => i = Len(sent'[t])
    <3>1. CASE sent' = sent
      BY <2>2, <3>1
    <3>2. CASE sent' = [sent EXCEPT ![t] = Append(@, "end")]
      <4> DEFINE s == sent[t]
                 r == sent'[t]
      <4>1. s \in Seq({"fail", "end"}) /\ r = Append(s, "end")
        BY <1>0, <3>2 DEF TypeOK
      <4> HIDE DEF s, r
      <4>2. \A i \in 1..Len(r) : (i \in 1..Len(s) /\ r[i] = s[i]) \/ i = Len(r)
        BY <4>1, Appended
      <4> QED BY <2>2, <4>2 DEF s, r
    <3> QED BY <2>1, <3>1, <3>2
  <2>4. \A u \in Case \ {t} : sent'[u] = sent[u]
    BY <1>0, <2>1 DEF TypeOK
  <2>5. SentLast'
    BY <1>0, <2>1, <2>2, <2>3, <2>4 DEF Ends, SentLast
  <2>6. QueuedOnce'
    BY <1>0, <2>1, <2>2 DEF Ends, QueuedOnce
  <2>7. EndedDead' /\ Unstarted'
    BY <1>0, <2>1 DEF Ends, EndedDead, Unstarted, TypeOK
  <2> QED BY <2>5, <2>6, <2>7 DEF Ends
<1>6. ASSUME NEW t \in Case, Serve(t)
      PROVE  Ends'
  BY <1>6, ServeEnds
<1>7. CASE UNCHANGED vars
  BY <1>0, <1>7
     DEF vars, mainVars, workVars, Ends, SentLast, QueuedOnce, EndedDead, Unstarted
<1> QED BY <1>1, <1>2, <1>3, <1>4, <1>5, <1>6, <1>7 DEF Next, MainStep, Work

----------------------------------------------------------------------------
(* num_running counts the workers whose end is to come.                     *)

\* What Inv says of the numbers, for the steps below.
LEMMA Numbers ==
    ASSUME Inv
    PROVE  /\ NumCases \in Nat /\ jobs \in Nat /\ pos \in Nat /\ pos >= 1
           /\ pos <= NumCases + 1 /\ running \in Nat /\ running <= jobs
           /\ Active \subseteq Case /\ IsFiniteSet(Active) /\ running = Cardinality(Active)
<1>1. /\ NumCases \in Nat /\ jobs \in Nat /\ pos \in Nat /\ pos >= 1
      /\ pos <= NumCases + 1 /\ running \in Nat /\ running <= jobs
  BY TestRunAssumption DEF Inv, TypeOK
<1>2. Active \subseteq Case
  BY DEF Active
<1>3. IsFiniteSet(Active)
  BY <1>2, CaseFinite
<1>4. running = Cardinality(Active)
  BY DEF Inv, CountsWorkers, Active
<1> QED BY <1>1, <1>2, <1>3, <1>4

LEMMA NextPhases == Inv /\ [Next]_vars => Phases'
<1> SUFFICES ASSUME Inv, [Next]_vars PROVE Phases'
  OBVIOUS
<1>0. /\ NumCases \in Nat /\ jobs \in Nat /\ running <= jobs /\ pos \in Nat /\ pos >= 1
      /\ running \in Nat /\ Phases
  BY Numbers DEF Inv
<1>1. CASE StartWorker
  BY <1>0, <1>1 DEF StartWorker, LaunchTask, More, Phases
<1>2. CASE StartLoop
  BY <1>0, <1>2 DEF StartLoop, More, Phases
<1>3. CASE HandleMessage
  <2>1. CASE Head(in_queue).what = "end"
    <3>1. running >= 1
      BY <1>3, <2>1, EndCounted DEF HandleMessage
    <3>2. phase' \in {"loop", "done"} /\ LaunchTask(running - 1) /\ UNCHANGED jobs /\ jobs # 0
      BY <1>0, <1>3, <2>1, <3>1 DEF HandleMessage
    <3> QED BY <1>0, <3>1, <3>2 DEF LaunchTask, More, Phases
  <2>2. CASE Head(in_queue).what # "end"
    <3>1. phase = "loop" /\ phase' \in {"loop", "done"} /\ UNCHANGED <<pos, running, jobs>>
      BY <1>3, <2>2 DEF HandleMessage
    <3> QED BY <1>0, <3>1 DEF More, Phases
  <2> QED BY <2>1, <2>2
<1>4. CASE UNCHANGED mainVars
  BY <1>0, <1>4 DEF mainVars, Phases, More
<1>5. ASSUME NEW t \in Case,
             \/ Work(t) \/ Serve(t) \/ Kill(t)
             \/ StartAssert(t) \/ HelperAssert(t) \/ Return(t) \/ Raise(t)
      PROVE  UNCHANGED mainVars
  BY <1>5 DEF Work, SendAssert, Report, SendEnd, Alarm, Serve, Kill, StartAssert,
              HelperAssert, Return, Raise, mainVars
<1>6. UNCHANGED vars => UNCHANGED mainVars
  BY DEF vars, mainVars
<1> QED BY <1>1, <1>2, <1>3, <1>4, <1>5, <1>6 DEF Next, MainStep

\* One more worker, and one less.
LEMMA OneMoreActive ==
    ASSUME Inv, More, NEW S \in SUBSET Active
    PROVE  /\ {t \in Case : t < pos + 1 /\ t \notin ended} = Active \cup {pos}
           /\ Cardinality(S \cup {pos}) = Cardinality(S) + 1
           /\ pos \in Case /\ pos \notin ended /\ pos \notin Active
<1>1. /\ NumCases \in Nat /\ pos \in Nat /\ pos >= 1 /\ Active \subseteq Case
      /\ TypeOK /\ Ends
  BY Numbers DEF Inv
<1>2. pos \in Case
  BY <1>1 DEF Case, More
<1>3. at[pos] = "none"
  BY <1>1, <1>2 DEF Ends, Unstarted
<1>4. pos \notin ended
  BY <1>1, <1>3 DEF Ends, EndedDead
<1>5. pos \notin Active
  BY <1>1 DEF Active
<1>6. Cardinality(S \cup {pos}) = Cardinality(S) + 1
  <2>1. IsFiniteSet(S) /\ pos \notin S
    BY <1>1, <1>5, CaseFinite
  <2> QED BY <2>1, FS_AddElement
<1>7. {t \in Case : t < pos + 1 /\ t \notin ended} = Active \cup {pos}
  <2>1. \A t \in Case : t < pos + 1 <=> (t < pos \/ t = pos)
    BY <1>1 DEF Case
  <2> QED BY <1>2, <1>4, <2>1 DEF Active
<1> QED BY <1>2, <1>4, <1>5, <1>6, <1>7

LEMMA OneLessActive ==
    ASSUME Inv, NEW t \in Active
    PROVE  /\ running - 1 = Cardinality(Active \ {t}) /\ running >= 1
           /\ running = 1 => Active \ {t} = {}
<1>1. IsFiniteSet(Active) /\ running = Cardinality(Active) /\ running \in Nat
  BY Numbers
<1>2. /\ IsFiniteSet(Active \ {t})
      /\ Cardinality(Active \ {t}) = running - 1
  BY <1>1, FS_RemoveElement
<1>3. running >= 1
  BY <1>1, <1>2, FS_CardinalityType, FS_EmptySet
<1> QED BY <1>2, <1>3, FS_EmptySet

\* No test case is left and none runs.
LEMMA AllEnded ==
    ASSUME Inv, ~More, NEW E \in SUBSET Case, \A t \in Active : t \in E, ended \subseteq E
    PROVE  E = Case
<1>1. NumCases \in Nat /\ pos \in Nat
  BY Numbers
<1>2. \A t \in Case : t < pos
  BY <1>1 DEF Case, More
<1> QED BY <1>2 DEF Active

LEMMA NextCounts == Inv /\ [Next]_vars => CountsWorkers'
<1> SUFFICES ASSUME Inv, [Next]_vars PROVE CountsWorkers'
  OBVIOUS
<1>0. /\ NumCases \in Nat /\ jobs \in Nat /\ running <= jobs /\ pos \in Nat /\ pos >= 1
      /\ running \in Nat /\ running = Cardinality(Active) /\ Active \subseteq Case
      /\ Phases /\ CountsWorkers /\ TypeOK
  BY Numbers DEF Inv
<1>1. CASE StartWorker
  <2>1. /\ pos' = pos + 1 /\ running' = running + 1 /\ UNCHANGED <<ended, phase>>
        /\ phase = "start" /\ More
    BY <1>1 DEF StartWorker, LaunchTask
  <2>2. /\ {t \in Case : t < pos + 1 /\ t \notin ended} = Active \cup {pos}
        /\ Cardinality(Active \cup {pos}) = running + 1
    BY <1>0, <2>1, OneMoreActive
  <2> QED BY <2>1, <2>2 DEF CountsWorkers
<1>2. CASE StartLoop
  BY <1>0, <1>2 DEF StartLoop, CountsWorkers
<1>3. CASE HandleMessage
  <2> DEFINE x == Head(in_queue)
             Left == {t \in Case : t < pos' /\ t \notin ended'}
  <2>1. CASE x.what = "end"
    <3>1. /\ x.case \in Active /\ ended' = ended \cup {x.case}
          /\ phase' = (IF LastEnds THEN "done" ELSE "loop")
          /\ LaunchTask(running - 1)
      BY <1>3, <2>1, EndCounted DEF HandleMessage
    <3> HIDE DEF x
    <3>2. /\ running - 1 = Cardinality(Active \ {x.case}) /\ running >= 1
          /\ running = 1 => Active \ {x.case} = {}
      BY <3>1, OneLessActive
    <3>3. CASE More
      <4>1. pos' = pos + 1 /\ running' = running /\ phase' = "loop"
        BY <1>0, <3>1, <3>2, <3>3 DEF LaunchTask, LastEnds
      <4>2. /\ {t \in Case : t < pos + 1 /\ t \notin ended} = Active \cup {pos}
            /\ pos \notin Active
        BY <3>3, OneMoreActive
      <4>3. Cardinality((Active \ {x.case}) \cup {pos}) = Cardinality(Active \ {x.case}) + 1
        BY <3>3, OneMoreActive
      <4>4. Left = (Active \ {x.case}) \cup {pos}
        <5>1. Left = {t \in Case : t < pos + 1 /\ t \notin ended} \ {x.case}
          BY <3>1, <4>1
        <5> HIDE DEF Left
        <5> QED BY <3>1, <4>2, <5>1
      <4>5. running' = Cardinality(Left)
        <5> HIDE DEF Left
        <5> QED BY <1>0, <3>2, <4>1, <4>3, <4>4
      <4> QED BY <4>1, <4>5 DEF CountsWorkers
    <3>4. CASE ~More
      <4>1. pos' = pos /\ running' = running - 1
        BY <3>1, <3>4 DEF LaunchTask
      <4>2. Left = Active \ {x.case}
        BY <3>1, <4>1 DEF Active
      <4>4. jobs' = jobs /\ jobs # 0
        BY <1>0, <1>3, <3>2 DEF HandleMessage
      <4>3. phase' = "done" => ended' = Case
        <5> SUFFICES ASSUME phase' = "done" PROVE ended' = Case
          OBVIOUS
        <5>1. running = 1
          BY <3>1 DEF LastEnds
        <5>2. \A t \in Active : t \in ended'
          BY <3>1, <3>2, <5>1
        <5>3. ended' \in SUBSET Case /\ ended \subseteq ended'
          BY <1>0, <3>1 DEF TypeOK
        <5> HIDE DEF Left
        <5> QED BY <3>4, <5>2, <5>3, AllEnded
      <4> QED BY <3>2, <4>1, <4>2, <4>3, <4>4 DEF CountsWorkers
    <3> QED BY <3>3, <3>4
  <2>2. CASE x.what # "end"
    <3>1. /\ UNCHANGED <<pos, running, ended, jobs>> /\ phase = "loop"
          /\ phase' = "done" => running = 0
      BY <1>3, <2>2 DEF HandleMessage, NothingRuns
    <3>3. jobs = 0 => ended = {}
      BY <1>0 DEF Case, Phases, Inv, Ends, EndedDead, Unstarted, TypeOK
    <3>2. phase' = "done" /\ jobs # 0 => ended = Case
      <4> SUFFICES ASSUME phase' = "done", jobs # 0 PROVE ended = Case
        OBVIOUS
      <4>1. running = 0 /\ ~More
        BY <1>0, <3>1 DEF Phases
      <4>2. Active = {}
        BY <1>0, <4>1, Numbers, FS_EmptySet
      <4>3. ended \in SUBSET Case
        BY <1>0 DEF TypeOK
      <4> HIDE DEF x, Left
      <4> QED BY <4>1, <4>2, <4>3, AllEnded
    <3> QED BY <1>0, <3>1, <3>2, <3>3 DEF CountsWorkers
  <2> QED BY <2>1, <2>2
<1>4. CASE UNCHANGED mainVars
  BY <1>0, <1>4 DEF mainVars, CountsWorkers
<1>5. ASSUME NEW t \in Case,
             \/ Work(t) \/ Serve(t) \/ Kill(t)
             \/ StartAssert(t) \/ HelperAssert(t) \/ Return(t) \/ Raise(t)
      PROVE  UNCHANGED mainVars
  BY <1>5 DEF Work, SendAssert, Report, SendEnd, Alarm, Serve, Kill, StartAssert,
              HelperAssert, Return, Raise, mainVars
<1>6. UNCHANGED vars => UNCHANGED mainVars
  BY DEF vars, mainVars
<1> QED BY <1>1, <1>2, <1>3, <1>4, <1>5, <1>6 DEF Next, MainStep

----------------------------------------------------------------------------
(* A failure is recorded before its test case is closed.                    *)

\* Nothing is left on the connection of a worker whose end has been read.
Quiet ==
    \A t \in Case :
        t \in ended \/ (\E i \in 1..Len(in_queue) : in_queue[i] = End(t)) => sent[t] = <<>>

\* Only an alarm in a send closes the connection.
Opened == \A t \in Case : open[t] \/ t \in mishap

\* A failure of the test itself is being handled, or on its way in front of the
\* end, or recorded.
Owed(t) == t \notin mishap /\ ~(failed[t] \subseteq {"helper"})
Ahead(t) ==
    /\ t \notin ended
    /\ \E i \in 1..Len(in_queue) :
          /\ in_queue[i] = Fail(t)
          /\ \A j \in 1..Len(in_queue) : in_queue[j] = End(t) => i < j
Said(t) ==
    \/ at[t] \in {"assert", "except"}
    \/ t \in recorded
    \/ \E i \in 1..Len(sent[t]) : sent[t][i] = "fail"
    \/ Ahead(t)
Reported == \A t \in Case : Owed(t) => Said(t)

InvF == Inv /\ Quiet /\ Opened /\ Reported

LEMMA NextQuiet == Inv /\ Quiet /\ [Next]_vars => Quiet'
<1> SUFFICES ASSUME Inv, Quiet, [Next]_vars PROVE Quiet'
  OBVIOUS
<1>0. TypeOK /\ Ends /\ in_queue \in Seq(Letter)
  BY DEF Inv, TypeOK, Letter
<1>1. CASE StartWorker
  BY <1>1 DEF StartWorker, Quiet
<1>2. CASE StartLoop
  <2>1. /\ UNCHANGED <<ended, sent>>
        /\ in_queue' = Append(in_queue, Finish) /\ Finish \in Letter
    BY <1>2, Letters DEF StartLoop, workVars
  <2>2. \A i \in 1..Len(in_queue') :
            (i \in 1..Len(in_queue) /\ in_queue'[i] = in_queue[i]) \/ in_queue'[i] = Finish
    BY <1>0, <2>1, Appended
  <2> QED BY <2>1, <2>2, Letters DEF Quiet
<1>3. CASE HandleMessage
  <2> DEFINE x == Head(in_queue)
  <2>1. in_queue # <<>> /\ in_queue' = Tail(in_queue) /\ UNCHANGED sent
    BY <1>3 DEF HandleMessage
  <2>2. /\ x = in_queue[1] /\ x \in Letter /\ 1 \in 1..Len(in_queue)
        /\ \A i \in 1..Len(in_queue') :
              i + 1 \in 1..Len(in_queue) /\ in_queue'[i] = in_queue[i + 1]
    BY <1>0, <2>1, Taken
  <2>3. \A t \in Case : t \in ended' => t \in ended \/ x = End(t)
    <3>1. x.what = "end" => x = End(x.case)
      BY <2>2, Letters
    <3> QED BY <1>3, <3>1 DEF HandleMessage
  <2> HIDE DEF x
  <2> QED BY <2>1, <2>2, <2>3 DEF Quiet
<1>4. ASSUME NEW t \in Case,
             \/ StartAssert(t) \/ HelperAssert(t) \/ Return(t) \/ Raise(t) \/ Kill(t) \/ Alarm(t)
             \/ SendAssert(t) \/ Report(t) \/ SendEnd(t)
      PROVE  Quiet'
  <2>1. at[t] # "dead" /\ UNCHANGED <<in_queue, ended>>
    BY <1>4
       DEF StartAssert, HelperAssert, Return, Raise, Kill, Alarm, SendAssert, Report, SendEnd,
           mainVars
  <2>2. \A u \in Case \ {t} : sent'[u] = sent[u]
    BY <1>0, <1>4
       DEF StartAssert, HelperAssert, Return, Raise, Kill, Alarm, SendAssert, Report, SendEnd,
           TypeOK
  <2>3. t \notin ended /\ \A i \in 1..Len(in_queue) : in_queue[i] # End(t)
    BY <2>1, AliveSilent
  <2> QED BY <2>1, <2>2, <2>3 DEF Quiet
<1>5. ASSUME NEW t \in Case, Serve(t)
      PROVE  Quiet'
  <2>1. UNCHANGED ended
    BY <1>5 DEF Serve, mainVars
  <2>2. CASE /\ sent[t] # <<>> /\ sent' = [sent EXCEPT ![t] = Tail(@)]
             /\ in_queue' = Queued(IF Head(sent[t]) = "end" THEN End(t) ELSE Fail(t))
    <3>1. t \notin ended /\ \A i \in 1..Len(in_queue) : in_queue[i] # End(t)
      BY <2>2 DEF Quiet
    <3>2. \A u \in Case \ {t} : sent'[u] = sent[u]
      BY <1>0, <2>2 DEF TypeOK
    <3> DEFINE e == IF Head(sent[t]) = "end" THEN End(t) ELSE Fail(t)
    <3>3. e \in Letter /\ in_queue' = Append(in_queue, e)
      BY <2>2, Letters DEF Queued
    <3> HIDE DEF e
    <3>4. \A i \in 1..Len(in_queue') :
              (i \in 1..Len(in_queue) /\ in_queue'[i] = in_queue[i]) \/ in_queue'[i] = e
      BY <1>0, <3>3, Appended
    <3>5. ASSUME NEW u \in Case \ {t},
                 u \in ended' \/ \E i \in 1..Len(in_queue') : in_queue'[i] = End(u)
          PROVE  sent'[u] = <<>>
      <4>1. e # End(u)
        BY Letters DEF e
      <4> QED BY <2>1, <3>2, <3>4, <3>5, <4>1 DEF Quiet
    <3>6. ASSUME \E i \in 1..Len(in_queue') : in_queue'[i] = End(t)
          PROVE  sent'[t] = <<>>
      <4>1. Head(sent[t]) = "end"
        <5>1. e = End(t)
          BY <3>1, <3>4, <3>6
        <5> QED BY <5>1, Letters DEF e
      <4> DEFINE s == sent[t]
                 r == sent'[t]
                 n == Len(r)
      <4>2. s \in Seq({"fail", "end"}) /\ s # <<>> /\ r = Tail(s)
        BY <1>0, <2>2 DEF TypeOK
      <4>3. /\ 1 \in 1..Len(s) /\ s[1] = "end" /\ Len(s) = n + 1 /\ n \in Nat
            /\ r \in Seq({"fail", "end"})
        <5>1. Head(s) = "end"
          BY <4>1
        <5> HIDE DEF s, r
        <5> QED BY <4>2, <5>1, Taken DEF n
      <4>4. 1 = n + 1
        BY <1>0, <4>3 DEF Ends, SentLast
      <4>5. n = 0
        <5> HIDE DEF n
        <5> QED BY <4>3, <4>4
      <4> HIDE DEF s, r
      <4>6. r = <<>>
        BY <4>3, <4>5, EmptySeq DEF n
      <4> QED BY <4>6 DEF r
    <3> QED BY <2>1, <3>1, <3>5, <3>6 DEF Quiet
  <2>3. CASE in_queue' = Queued(Fail(t)) /\ UNCHANGED sent
    <3>1. in_queue' = Append(in_queue, Fail(t)) /\ Fail(t) \in Letter
      BY <2>3, Letters DEF Queued
    <3>2. \A i \in 1..Len(in_queue') :
              (i \in 1..Len(in_queue) /\ in_queue'[i] = in_queue[i]) \/ in_queue'[i] = Fail(t)
      BY <1>0, <3>1, Appended
    <3> QED BY <2>1, <2>3, <3>2, Letters DEF Quiet
  <2> QED BY <1>5, <2>2, <2>3 DEF Serve
<1>6. CASE UNCHANGED vars
  BY <1>6 DEF vars, mainVars, workVars, Quiet
<1> QED BY <1>1, <1>2, <1>3, <1>4, <1>5, <1>6 DEF Next, MainStep, Work

LEMMA NextOpened == Inv /\ Opened /\ [Next]_vars => Opened'
<1> SUFFICES ASSUME Inv, Opened, [Next]_vars PROVE Opened'
  OBVIOUS
<1>1. ASSUME NEW t \in Case, Kill(t)
      PROVE  Opened'
  BY <1>1 DEF Kill, Opened
<1>2. ASSUME NEW t \in Case, Alarm(t)
      PROVE  Opened'
  <2>1. CASE at[t] = "body"
    BY <1>2, <2>1 DEF Alarm, Opened
  <2>2. CASE at[t] # "body"
    <3>1. t \in mishap' /\ mishap \subseteq mishap'
      BY <1>2, <2>2 DEF Alarm
    <3>2. \A u \in Case \ {t} : open'[u] = open[u]
      BY <1>2 DEF Alarm, Inv, TypeOK
    <3> QED BY <3>1, <3>2 DEF Opened
  <2> QED BY <2>1, <2>2
<1>3. UNCHANGED <<open, mishap>> => Opened'
  BY DEF Opened
<1>4. ASSUME NEW t \in Case,
             \/ StartAssert(t) \/ HelperAssert(t) \/ Return(t) \/ Raise(t)
             \/ SendAssert(t) \/ Report(t) \/ SendEnd(t) \/ Serve(t)
      PROVE  UNCHANGED <<open, mishap>>
  BY <1>4 DEF StartAssert, HelperAssert, Return, Raise, SendAssert, Report, SendEnd, Serve
<1>5. MainStep \/ UNCHANGED vars => UNCHANGED <<open, mishap>>
  BY DEF MainStep, StartWorker, StartLoop, HandleMessage, vars, workVars
<1> QED BY <1>1, <1>2, <1>3, <1>4, <1>5 DEF Next, Work

\* What is on its way stays there when the worker of a test case goes on.
LEMMA SaidStays ==
    ASSUME NEW u \in Case, Said(u),
           at[u] \in {"assert", "except"} => at'[u] \in {"assert", "except"},
           \A i \in 1..Len(sent[u]) : i \in 1..Len(sent'[u]) /\ sent'[u][i] = sent[u][i],
           UNCHANGED <<recorded, ended, in_queue>>
    PROVE  Said(u)'
BY DEF Said, Ahead

\* A failure in the queue, or added to it, stays in front of an end added later.
LEMMA AheadStays ==
    ASSUME TypeOK, NEW u \in Case, NEW e \in Letter, in_queue' = Append(in_queue, e),
           UNCHANGED ended
    PROVE  /\ Ahead(u) => Ahead(u)'
           /\ e = Fail(u) /\ u \notin ended
              /\ (\A i \in 1..Len(in_queue) : in_queue[i] # End(u)) => Ahead(u)'
<1>1. in_queue \in Seq(Letter)
  BY DEF TypeOK, Letter
<1>2. /\ Len(in_queue') = Len(in_queue) + 1 /\ Len(in_queue) \in Nat
      /\ \A i \in 1..Len(in_queue') :
            (i \in 1..Len(in_queue) /\ in_queue'[i] = in_queue[i])
            \/ (i = Len(in_queue') /\ in_queue'[i] = e)
      /\ \A i \in 1..Len(in_queue) : i \in 1..Len(in_queue') /\ in_queue'[i] = in_queue[i]
  BY <1>1, Appended
<1>3. ASSUME Ahead(u) PROVE Ahead(u)'
  <2>1. PICK i \in 1..Len(in_queue) :
            /\ in_queue[i] = Fail(u)
            /\ \A j \in 1..Len(in_queue) : in_queue[j] = End(u) => i < j
    BY <1>3 DEF Ahead
  <2>2. i \in 1..Len(in_queue') /\ in_queue'[i] = Fail(u) /\ i < Len(in_queue')
    BY <1>2, <2>1
  <2>3. \A j \in 1..Len(in_queue') : in_queue'[j] = End(u) => i < j
    BY <1>2, <2>1, <2>2
  <2> QED BY <1>3, <2>2, <2>3 DEF Ahead
<1>4. ASSUME e = Fail(u), u \notin ended, \A i \in 1..Len(in_queue) : in_queue[i] # End(u)
      PROVE  Ahead(u)'
  <2>1. Len(in_queue') \in 1..Len(in_queue') /\ in_queue'[Len(in_queue')] = Fail(u)
    <3>1. Len(in_queue') \in 1..Len(in_queue') /\ Len(in_queue') \notin 1..Len(in_queue)
      BY <1>2
    <3> QED BY <1>2, <1>4, <3>1
  <2>2. \A j \in 1..Len(in_queue') : in_queue'[j] # End(u)
    BY <1>2, <1>4, Letters
  <2> QED BY <1>4, <2>1, <2>2 DEF Ahead
<1> QED BY <1>3, <1>4

\* The thread of a connection moves what the worker has said to the queue.
LEMMA ServeReports ==
    ASSUME InvF, NEW t \in Case, Serve(t)
    PROVE  Reported'
<1>1. /\ TypeOK /\ Ends /\ Quiet /\ Reported /\ sent[t] \in Seq({"fail", "end"})
      /\ UNCHANGED <<ended, recorded, at, mishap, failed>>
  BY DEF InvF, Inv, TypeOK, Serve, mainVars
<1> SUFFICES ASSUME NEW u \in Case, Owed(u)' PROVE Said(u)'
  BY DEF Reported
<1>2. Said(u)
  BY <1>1 DEF Reported, Owed
<1>3. CASE /\ sent[t] # <<>> /\ sent' = [sent EXCEPT ![t] = Tail(@)]
           /\ in_queue' = Queued(IF Head(sent[t]) = "end" THEN End(t) ELSE Fail(t))
  <2> DEFINE e == IF Head(sent[t]) = "end" THEN End(t) ELSE Fail(t)
  <2>1. e \in Letter /\ in_queue' = Append(in_queue, e)
    BY <1>3, Letters DEF Queued
  <2>2. Ahead(u) => Ahead(u)'
    <3> HIDE DEF e
    <3> QED BY <1>1, <2>1, AheadStays
  <2>3. CASE u # t
    <3>1. sent'[u] = sent[u]
      BY <1>1, <1>3, <2>3 DEF TypeOK
    <3> QED BY <1>1, <1>2, <2>2, <3>1 DEF Said
  <2>4. CASE u = t /\ Head(sent[t]) # "end"
    <3>1. t \notin ended /\ \A i \in 1..Len(in_queue) : in_queue[i] # End(t)
      BY <1>1, <1>3 DEF Quiet
    <3>2. e = Fail(u)
      BY <2>4
    <3> HIDE DEF e
    <3>3. Ahead(u)'
      BY <1>1, <2>1, <2>4, <3>1, <3>2, AheadStays
    <3> QED BY <3>3 DEF Said
  <2>5. CASE u = t /\ Head(sent[t]) = "end"
    <3> DEFINE s == sent[t]
    <3>1. Head(s) = "end" /\ s # <<>> /\ s \in Seq({"fail", "end"})
      BY <1>1, <1>3, <2>5
    <3>2. 1 \in 1..Len(s) /\ s[1] = "end"
      <4> HIDE DEF s
      <4>1. Head(s) = s[1] /\ Len(s) = Len(Tail(s)) + 1 /\ Len(Tail(s)) \in Nat
        BY <3>1, Taken
      <4> QED BY <3>1, <4>1
    <3>3. 1 = Len(s)
      BY <1>1, <3>2 DEF Ends, SentLast
    <3>4. \A i \in 1..Len(s) : s[i] # "fail"
      BY <3>2, <3>3
    <3> QED BY <1>1, <1>2, <2>2, <2>5, <3>4 DEF Said
  <2> QED BY <2>3, <2>4, <2>5
<1>4. CASE in_queue' = Queued(Fail(t)) /\ UNCHANGED sent
  <2>1. in_queue' = Append(in_queue, Fail(t)) /\ Fail(t) \in Letter
    BY <1>4, Letters DEF Queued
  <2>2. Ahead(u) => Ahead(u)'
    BY <1>1, <2>1, AheadStays
  <2> QED BY <1>1, <1>2, <1>4, <2>2 DEF Said
<1> QED BY <1>3, <1>4 DEF Serve

\* The main loop records what is in the queue.
LEMMA HandleReports ==
    ASSUME InvF, HandleMessage
    PROVE  Reported'
<1> DEFINE x == Head(in_queue)
<1>1. /\ TypeOK /\ Ends /\ Quiet /\ Reported /\ Inv /\ in_queue \in Seq(Letter)
      /\ in_queue # <<>> /\ in_queue' = Tail(in_queue)
      /\ UNCHANGED <<sent, mishap, failed>>
  BY DEF InvF, Inv, TypeOK, HandleMessage, Letter
<1>2. /\ Len(in_queue) = Len(in_queue') + 1 /\ Len(in_queue') \in Nat
      /\ x = in_queue[1] /\ x \in Letter /\ 1 \in 1..Len(in_queue)
      /\ \A i \in 1..Len(in_queue') :
            i + 1 \in 1..Len(in_queue) /\ in_queue'[i] = in_queue[i + 1]
  BY <1>1, Taken
<1> SUFFICES ASSUME NEW u \in Case, Owed(u)' PROVE Said(u)'
  BY DEF Reported
<1>3. Said(u)
  BY <1>1 DEF Reported, Owed
<1>4. recorded \subseteq recorded' /\ (x = Fail(u) => u \in recorded')
  BY DEF HandleMessage, Fail
<1>5. at[u] \in {"assert", "except"} => at'[u] = at[u]
  <2>1. CASE x.what = "end"
    <3>1. LaunchTask(running - 1)
      BY <2>1 DEF HandleMessage
    <3>2. CASE More
      <4>1. pos \in Case /\ at' = [at EXCEPT ![pos] = "body"]
        <5>1. NumCases \in Nat /\ pos \in Nat /\ pos >= 1
          BY <1>1, Numbers
        <5> QED BY <3>1, <3>2, <5>1 DEF LaunchTask, Goto, More, Case
      <4>2. at[pos] = "none"
        <5>1. pos >= pos
          BY <1>1, Numbers
        <5> QED BY <1>1, <4>1, <5>1 DEF Ends, Unstarted
      <4> QED BY <1>1, <4>1, <4>2 DEF TypeOK
    <3>3. CASE ~More
      BY <3>1, <3>3 DEF LaunchTask
    <3> QED BY <3>2, <3>3
  <2>2. CASE x.what # "end"
    BY <2>2 DEF HandleMessage
  <2> QED BY <2>1, <2>2
<1>6. ASSUME Ahead(u) PROVE Said(u)'
  <2>1. PICK i \in 1..Len(in_queue) :
            /\ in_queue[i] = Fail(u)
            /\ \A j \in 1..Len(in_queue) : in_queue[j] = End(u) => i < j
    BY <1>6 DEF Ahead
  <2>2. CASE i = 1
    BY <1>2, <1>4, <2>1, <2>2 DEF Said
  <2>3. CASE i # 1
    <3>1. i - 1 \in 1..Len(in_queue') /\ (i - 1) + 1 = i
      BY <1>2, <2>3
    <3>2. in_queue'[i - 1] = Fail(u)
      BY <1>2, <2>1, <3>1
    <3>3. ASSUME NEW j \in 1..Len(in_queue'), in_queue'[j] = End(u)
          PROVE  i - 1 < j
      <4>1. i < j + 1
        BY <1>2, <2>1, <3>3
      <4> QED BY <4>1, <1>2
    <3>4. u \notin ended'
      <4>1. x # End(u)
        <5>1. ~(i < 1)
          BY <1>2
        <5> QED BY <1>2, <2>1, <5>1
      <4>2. x.what = "end" => x = End(x.case)
        BY <1>2, Letters
      <4> QED BY <1>6, <4>1, <4>2 DEF HandleMessage, Ahead
    <3>5. Ahead(u)'
      BY <3>1, <3>2, <3>3, <3>4 DEF Ahead
    <3> QED BY <3>5 DEF Said
  <2> QED BY <2>2, <2>3
<1> QED BY <1>1, <1>3, <1>4, <1>5, <1>6 DEF Said

LEMMA NextReported == InvF /\ [Next]_vars => Reported'
<1> SUFFICES ASSUME InvF, [Next]_vars PROVE Reported'
  OBVIOUS
<1>0. TypeOK /\ Ends /\ Opened /\ Reported /\ Inv
  BY DEF InvF, Inv
<1>1. CASE StartWorker
  <2>1. UNCHANGED <<sent, recorded, ended, in_queue, failed, mishap>> /\ More
    BY <1>1 DEF StartWorker
  <2>2. pos \in Case /\ at' = [at EXCEPT ![pos] = "body"]
    <3>1. NumCases \in Nat /\ pos \in Nat /\ pos >= 1
      BY <1>0, Numbers
    <3> QED BY <1>1, <2>1, <3>1 DEF StartWorker, LaunchTask, Goto, More, Case
  <2>3. at[pos] = "none"
    <3>1. pos >= pos
      BY <1>0, Numbers
    <3> QED BY <1>0, <2>2, <3>1 DEF Ends, Unstarted
  <2>4. \A u \in Case : at[u] \in {"assert", "except"} => at'[u] = at[u]
    BY <1>0, <2>2, <2>3 DEF TypeOK
  <2>5. ASSUME NEW u \in Case, Owed(u)'
        PROVE  Said(u)'
    <3>1. Said(u)
      BY <1>0, <2>1, <2>5 DEF Reported, Owed
    <3> QED BY <2>1, <2>4, <3>1, SaidStays
  <2> QED BY <2>5 DEF Reported
<1>2. CASE StartLoop
  <2>1. /\ in_queue' = Append(in_queue, Finish) /\ Finish \in Letter
        /\ UNCHANGED <<recorded, ended, at, sent, failed, mishap>>
    BY <1>2, Letters DEF StartLoop, workVars
  <2>2. ASSUME NEW u \in Case, Owed(u)'
        PROVE  Said(u)'
    <3>1. Said(u)
      BY <1>0, <2>1, <2>2 DEF Reported, Owed
    <3>2. Ahead(u) => Ahead(u)'
      BY <1>0, <2>1, AheadStays
    <3> QED BY <2>1, <3>1, <3>2 DEF Said
  <2> QED BY <2>2 DEF Reported
<1>3. CASE HandleMessage
  BY <1>3, HandleReports
<1>4. ASSUME NEW t \in Case,
             \/ StartAssert(t) \/ HelperAssert(t) \/ Return(t) \/ Raise(t) \/ Kill(t) \/ Alarm(t)
             \/ SendAssert(t) \/ Report(t) \/ SendEnd(t)
      PROVE  Reported'
  <2>1. /\ UNCHANGED <<recorded, ended, in_queue>> /\ mishap \subseteq mishap'
        /\ \A u \in Case \ {t} :
              at'[u] = at[u] /\ sent'[u] = sent[u] /\ failed'[u] = failed[u]
    BY <1>0, <1>4
       DEF StartAssert, HelperAssert, Return, Raise, Kill, Alarm, SendAssert, Report, SendEnd,
           mainVars, Goto, Blame, TypeOK
  <2>2. ASSUME NEW u \in Case \ {t}, Owed(u)'
        PROVE  Said(u)'
    <3>1. Said(u)
      BY <1>0, <2>1, <2>2 DEF Reported, Owed
    <3> QED BY <2>1, <3>1, SaidStays
  <2>3. /\ \A e : sent' = [sent EXCEPT ![t] = Append(@, e)] =>
                     sent'[t] = Append(sent[t], e)
        /\ sent[t] \in Seq({"fail", "end"})
    BY <1>0 DEF TypeOK
  <2>4. \A e \in {"fail", "end"} : sent' = [sent EXCEPT ![t] = Append(@, e)] =>
            /\ \A i \in 1..Len(sent[t]) : i \in 1..Len(sent'[t]) /\ sent'[t][i] = sent[t][i]
            /\ e = "fail" => \E i \in 1..Len(sent'[t]) : sent'[t][i] = "fail"
    <3> SUFFICES ASSUME NEW e \in {"fail", "end"}, sent' = [sent EXCEPT ![t] = Append(@, e)]
                 PROVE  /\ \A i \in 1..Len(sent[t]) :
                              i \in 1..Len(sent'[t]) /\ sent'[t][i] = sent[t][i]
                        /\ e = "fail" => \E i \in 1..Len(sent'[t]) : sent'[t][i] = "fail"
      OBVIOUS
    <3> DEFINE s == sent[t]
               r == sent'[t]
    <3>1. r = Append(s, e) /\ s \in Seq({"fail", "end"})
      BY <2>3
    <3> HIDE DEF s, r
    <3>2. /\ Len(r) = Len(s) + 1 /\ Len(s) \in Nat
          /\ \A i \in 1..Len(s) : i \in 1..Len(r) /\ r[i] = s[i]
          /\ r[Len(s) + 1] = e
      BY <3>1, Appended, AppendProperties
    <3>3. Len(s) + 1 \in 1..Len(r)
      BY <3>2
    <3> QED BY <3>2, <3>3 DEF s, r
  <2>5. ASSUME Owed(t)'
        PROVE  Said(t)'
    <3>1. CASE StartAssert(t) \/ Raise(t)
      BY <1>0, <3>1 DEF StartAssert, Raise, Goto, Said, TypeOK
    <3>2. CASE SendAssert(t)
      BY <2>4, <3>2 DEF SendAssert, Said
    <3>3. CASE HelperAssert(t)
      BY <1>0, <2>5, <3>3 DEF HelperAssert, Blame, Owed, TypeOK
    <3>4. CASE Kill(t)
      BY <2>5, <3>4 DEF Kill, Owed
    <3>5. CASE Return(t)
      <4>1. /\ Owed(t) /\ UNCHANGED sent /\ at[t] = "body"
        BY <2>5, <3>5 DEF Return, Owed
      <4> QED BY <1>0, <2>1, <4>1, SaidStays DEF Reported
    <3>6. CASE Alarm(t)
      <4>1. at[t] = "body"
        BY <2>5, <3>6 DEF Alarm, Owed
      <4>2. CASE Goto(t, "except")
        BY <1>0, <4>2 DEF Goto, Said, TypeOK
      <4>3. CASE UNCHANGED <<at, failed>>
        <5>1. Owed(t) /\ UNCHANGED sent
          BY <2>5, <3>6, <4>1, <4>3 DEF Alarm, Owed
        <5> QED BY <1>0, <2>1, <4>1, <5>1, SaidStays DEF Reported
      <4> QED BY <3>6, <4>1, <4>2, <4>3 DEF Alarm
    <3>7. CASE Report(t)
      <4>1. open[t]
        BY <1>0, <2>5, <3>7 DEF Report, Owed, Opened
      <4>2. sent' = [sent EXCEPT ![t] = Append(@, "fail")]
        BY <3>7, <4>1 DEF Report
      <4> QED BY <2>4, <4>2 DEF Said
    <3>8. CASE SendEnd(t)
      <4>1. /\ Owed(t) /\ at[t] = "finally"
            /\ sent' = sent \/ sent' = [sent EXCEPT ![t] = Append(@, "end")]
        BY <2>5, <3>8 DEF SendEnd, Owed
      <4>2. \A i \in 1..Len(sent[t]) : i \in 1..Len(sent'[t]) /\ sent'[t][i] = sent[t][i]
        BY <2>4, <4>1
      <4> QED BY <1>0, <2>1, <4>1, <4>2, SaidStays DEF Reported
    <3> QED BY <1>4, <3>1, <3>2, <3>3, <3>4, <3>5, <3>6, <3>7, <3>8
  <2> QED BY <2>2, <2>5 DEF Reported
<1>5. ASSUME NEW t \in Case, Serve(t)
      PROVE  Reported'
  BY <1>5, ServeReports
<1>6. CASE UNCHANGED vars
  BY <1>0, <1>6 DEF vars, mainVars, workVars, Reported, Owed, Said, Ahead
<1> QED BY <1>1, <1>2, <1>3, <1>4, <1>5, <1>6 DEF Next, MainStep, Work

----------------------------------------------------------------------------
(* The theorems.                                                            *)

LEMMA InitInv == Init => Inv
<1> SUFFICES ASSUME Init PROVE Inv
  OBVIOUS
<1>1. /\ NumCases \in Nat /\ jobs \in 0..MaxJobs /\ jobs \in Nat
      /\ phase = "start" /\ pos = 1 /\ running = 0 /\ in_queue = <<>> /\ ended = {}
      /\ \A t \in Case : sent[t] = <<>> /\ at[t] = "none"
  BY TestRunAssumption DEF Init
<1>2. TypeOK
  BY <1>1 DEF Init, TypeOK
<1>3. Ends
  BY <1>1 DEF Ends, SentLast, QueuedOnce, EndedDead, Unstarted
<1>4. Phases
  BY <1>1 DEF Phases
<1>5. CountsWorkers
  <2>1. {t \in Case : t < pos /\ t \notin ended} = {}
    BY <1>1 DEF Case
  <2> QED BY <1>1, <2>1, FS_EmptySet DEF CountsWorkers
<1> QED BY <1>2, <1>3, <1>4, <1>5 DEF Inv

LEMMA AlwaysInv == Spec => []Inv
<1>1. Inv /\ [Next]_vars => Inv'
  BY NextTypes, NextEnds, NextPhases, NextCounts DEF Inv
<1> QED BY <1>1, InitInv, PTL DEF Spec

\* The variables of the main loop and of the workers have their types: the
\* number of the workers that run never passes num_jobs, and a test case is
\* asked of the iterator only while there is one (do_test_run).
THEOREM TypesCorrect == Spec => []TypeOK
<1>1. Inv => TypeOK
  BY DEF Inv
<1> QED BY <1>1, AlwaysInv, PTL

\* num_running is the number of the workers whose end has not been handled, and
\* when do_test_run leaves its loop every test case has been closed.
THEOREM CountsWorkersCorrect == Spec => []CountsWorkers
<1>1. Inv => CountsWorkers
  BY DEF Inv
<1> QED BY <1>1, AlwaysInv, PTL

\* A test case that is closed and whose own test has failed, by an assertion,
\* an exception or a timeout, is recorded as failed, unless its worker was killed
\* or the alarm hit it outside the test (testcase_worker_wrapper, do_test_run).
THEOREM FailuresRecordedCorrect == Spec => []FailuresRecorded
<1>1. Init => InvF
  <2>1. ASSUME Init PROVE Quiet /\ Opened /\ Reported
    BY <2>1 DEF Init, Quiet, Opened, Reported, Owed
  <2> QED BY <2>1, InitInv DEF InvF
<1>2. InvF /\ [Next]_vars => InvF'
  BY NextTypes, NextEnds, NextPhases, NextCounts, NextQuiet, NextOpened, NextReported
     DEF InvF, Inv
<1>3. InvF => FailuresRecorded
  <2> SUFFICES ASSUME InvF, NEW t \in ended, t \notin recorded \cup mishap,
                      ~(failed[t] \subseteq {"helper"})
               PROVE  FALSE
    BY DEF FailuresRecorded
  <2>1. t \in Case /\ at[t] = "dead"
    BY DEF InvF, Inv, TypeOK, Ends, EndedDead
  <2>2. sent[t] = <<>>
    BY <2>1 DEF InvF, Quiet
  <2>3. Said(t) /\ ~Ahead(t)
    BY <2>1 DEF InvF, Reported, Owed, Ahead
  <2>4. \A i \in 1..Len(sent[t]) : FALSE
    BY <2>2
  <2> QED BY <2>1, <2>3, <2>4 DEF Said
<1> QED BY <1>1, <1>2, <1>3, PTL DEF Spec
=============================================================================
