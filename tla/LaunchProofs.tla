----------------------------- MODULE LaunchProofs -----------------------------
(****************************************************************************)
(* Theorems about Launch, for every set of processes, every size of report  *)
(* and every exit code: the types, and that what a wait answers is true.    *)
(****************************************************************************)
EXTENDS Launch, SequenceTheorems, TLAPS

\* A process whose f has not ended has reported nothing.
Young ==
    \A c \in Proc :
        stage[c] \in {"free", "forked", "running", "joining", "reading"} => sent[c] = 0

\* A report has a size, and the exit code goes with the way f has ended.
Sized == \A c \in Proc : ended[c] \in Reported <=> size[c] > 0
Coded(c) ==
    /\ ended[c] \in Endings
    /\ ended[c] = "raised" => status[c] = 1
Reporting == \A c \in Proc : stage[c] = "reporting" => Coded(c)
Exited ==
    \A c \in Proc : Dead(c) /\ status[c] >= 0 => Coded(c) /\ sent[c] = size[c]

\* Who reads what a process has left has joined it.
Waiters ==
    \A p \in Proc : Waiting(p) =>
        waits[p] # p /\ (stage[p] = "reading" => stage[waits[p]] = "reaped")

\* What a wait makes of a report that was written.
ReportOf(c) == IF ended[c] = "unloadable" THEN "raised" ELSE ended[c]

\* A report is read once, and the answer then was what f had reported.
Answered ==
    \A c \in Proc :
        /\ answers[c] # <<>> => stage[c] = "reaped"
        /\ server[c] # "fresh" => answers[c] # <<>>
        /\ server[c] = "read" /\ sent[c] = size[c] =>
               \E j \in 1..Len(answers[c]) : answers[c][j] = ReportOf(c)

Ways  == Young /\ Sized /\ Reporting /\ Exited /\ Waiters
Truth == OkIsTruthful /\ RaisesWithReason
Inv   == TypeOK /\ Ways /\ Answered /\ Truth

----------------------------------------------------------------------------
(* Types.                                                                   *)

LEMMA AnswersTypes ==
    ASSUME TypeOK, NEW c \in Proc, NEW a \in Answers
    PROVE  [answers EXCEPT ![c] = Append(@, a)] \in [Proc -> Seq(Answers)]
<1>1. answers[c] \in Seq(Answers)
  BY DEF TypeOK
<1>2. Append(answers[c], a) \in Seq(Answers)
  BY <1>1, AppendProperties
<1> QED BY <1>2 DEF TypeOK

LEMMA ReturnTypes ==
    ASSUME TypeOK, NEW p \in Proc, NEW c \in Proc, NEW a \in Answers,
           NEW at \in {"zombie", "reaped"}, Return(p, c, a, at)
    PROVE  /\ answers' \in [Proc -> Seq(Answers)] /\ waits' \in [Proc -> Proc]
           /\ stage' \in [Proc -> {"free", "forked", "running", "joining", "reading",
                                   "reporting", "exiting", "zombie", "reaped"}]
<1>1. answers' \in [Proc -> Seq(Answers)]
  BY AnswersTypes DEF Return
<1> QED BY <1>1 DEF Return, TypeOK

\* get_process_exitval answers by the sign of the status.
LEMMA ExitValues ==
    ASSUME NEW c, status[c] \in Int
    PROVE  /\ ExitValue(c) \in {"raised", "exit 0", "exit code", "signal"}
           /\ ExitValue(c) = "raised" => c \in central
           /\ ExitValue(c) = "exit 0" => status[c] = 0
<1> DEFINE n == status[c]
           A == c \in central
           x == ExitValue(c)
<1>1. CASE A
  <2>1. x = "raised"
    BY <1>1 DEF ExitValue
  <2> QED BY <1>1, <2>1
<1>2. CASE ~A /\ n = 0
  <2>1. ~(n > 0) /\ ~(n < 0)
    BY <1>2
  <2>2. x = "exit 0"
    BY <1>2, <2>1, Zenon DEF ExitValue
  <2> QED BY <1>2, <2>2
<1>3. CASE ~A /\ n > 0
  <2>1. ~(n = 0) /\ ~(n < 0)
    BY <1>3
  <2>2. x = "exit code"
    BY <1>3, <2>1, Zenon DEF ExitValue
  <2> QED BY <2>2
<1>4. CASE ~A /\ n < 0
  <2>1. ~(n = 0) /\ ~(n > 0)
    BY <1>4
  <2>2. x = "signal"
    BY <1>4, <2>1, Zenon DEF ExitValue
  <2> QED BY <2>2
<1>5. n = 0 \/ n > 0 \/ n < 0
  OBVIOUS
<1> QED BY <1>1, <1>2, <1>3, <1>4, <1>5

\* What a wait reads.
LEMMA ReadAnswers ==
    ASSUME TypeOK, Sized, NEW p \in Proc, Read(p)
    PROVE  \E a \in Answers, srv \in {"read", "closed"} :
               LET c == waits[p] IN
               /\ Return(p, c, a, "reaped") /\ server' = [server EXCEPT ![c] = srv]
               /\ \/ srv = "read" /\ sent[c] = size[c] /\ a = ended[c] /\ a \in Loadable
                  \/ sent[c] = size[c] /\ ended[c] = "unloadable" /\ a = "raised"
                  \/ srv = "read" /\ sent[c] < size[c] /\ a = "raised"
                  \/ srv = "closed" /\ server[c] = "closed" /\ a = "raised"
                  \/ /\ srv = "closed" /\ a = ExitValue(c)
                     /\ server[c] = "read" \/ sent[c] = 0
<1> DEFINE c == waits[p]
<1>1. /\ c \in Proc /\ sent[c] \in Nat /\ size[c] \in Nat /\ status[c] \in Int
      /\ server[c] \in {"fresh", "read", "closed"}
  BY DEF TypeOK
<1>2. ExitValue(c) \in Answers
  <2>1. ExitValue(c) \in {"raised", "exit 0", "exit code", "signal"}
    BY <1>1, ExitValues
  <2> QED BY <2>1 DEF Answers
<1>3. sent[c] > 0 /\ sent[c] = size[c] => ended[c] \in Reported
  BY <1>1 DEF Sized
<1>4. "raised" \in Answers /\ Loadable \subseteq Answers
  BY DEF Answers
<1>5. CASE server[c] = "fresh" /\ sent[c] > 0
  <2>1. CASE sent[c] = size[c] /\ ended[c] # "unloadable"
    <3>1. ended[c] \in Loadable
      BY <1>3, <1>5, <2>1 DEF Reported
    <3>2. Return(p, c, ended[c], "reaped") /\ server' = [server EXCEPT ![c] = "read"]
      BY <1>1, <1>5, <2>1, <3>1 DEF Read
    <3> HIDE DEF c
    <3> QED BY <1>4, <1>5, <2>1, <3>1, <3>2 DEF c
  <2>2. CASE sent[c] = size[c] /\ ended[c] = "unloadable"
    <3>1. PICK srv \in {"read", "closed"} :
              Return(p, c, "raised", "reaped") /\ server' = [server EXCEPT ![c] = srv]
      BY <1>1, <1>5, <2>2 DEF Read, Loadable
    <3> HIDE DEF c
    <3> QED BY <1>4, <2>2, <3>1 DEF c
  <2>3. CASE sent[c] # size[c]
    <3>1. /\ Return(p, c, "raised", "reaped") /\ server' = [server EXCEPT ![c] = "read"]
          /\ sent[c] < size[c]
      BY <1>1, <1>5, <2>3 DEF Read
    <3> QED BY <1>4, <3>1
  <2> QED BY <2>1, <2>2, <2>3
<1>6. CASE server[c] = "closed"
  <2>1. Return(p, c, "raised", "reaped") /\ server' = [server EXCEPT ![c] = "closed"]
    BY <1>6 DEF Read
  <2> QED BY <1>4, <1>6, <2>1
<1>7. CASE server[c] # "closed" /\ ~(server[c] = "fresh" /\ sent[c] > 0)
  <2>1. Return(p, c, ExitValue(c), "reaped") /\ server' = [server EXCEPT ![c] = "closed"]
    BY <1>7 DEF Read
  <2>2. server[c] = "read" \/ sent[c] = 0
    BY <1>1, <1>7
  <2> QED BY <1>2, <2>1, <2>2
<1> QED BY <1>5, <1>6, <1>7

LEMMA GoneTypes ==
    ASSUME TypeOK, NEW p \in Proc, NEW st \in Int, Gone(p, st)
    PROVE  TypeOK'
<1>1. doomed' \subseteq Proc /\ missed' \subseteq Proc
  BY DEF Gone, Signalled, Unarmed, Children, TypeOK
<1>2. /\ stage' = [stage EXCEPT ![p] = "zombie"] /\ status' = [status EXCEPT ![p] = st]
      /\ holds' = [holds EXCEPT ![p] = {}] /\ UNCHANGED <<parent, central, endVars, waitVars>>
  BY DEF Gone, Goto
<1> QED BY <1>1, <1>2 DEF TypeOK, endVars, waitVars

LEMMA NextTypes == TypeOK /\ Sized /\ [Next]_vars => TypeOK'
<1> SUFFICES ASSUME TypeOK, Sized, [Next]_vars PROVE TypeOK'
  OBVIOUS
<1>1. ASSUME NEW p \in Proc, NEW c \in Proc, Fork(p, c)
      PROVE  TypeOK'
  <2>1. holds' \in [Proc -> SUBSET Proc] /\ central' \subseteq Proc
    BY <1>1 DEF Fork, Inherit, TypeOK
  <2> QED BY <1>1, <2>1 DEF Fork, Goto, TypeOK, endVars, waitVars
<1>2. ASSUME NEW c \in Proc, Arm(c)
      PROVE  TypeOK'
  BY <1>2 DEF Arm, Goto, TypeOK, kinVars, endVars, waitVars
<1>3. ASSUME NEW p \in Proc, Finish(p)
      PROVE  TypeOK'
  <2>1. PICK how \in Endings, code \in Codes, n \in Sizes :
            /\ ended' = [ended EXCEPT ![p] = how]
            /\ size' = [size EXCEPT ![p] = IF how \in Reported THEN n ELSE 0]
            /\ status' = [status EXCEPT ![p] = CodeOf(how, code)]
    BY <1>3 DEF Finish
  <2>2. n \in Nat /\ CodeOf(how, code) \in Int
    BY LaunchAssumption DEF CodeOf
  <2> QED BY <1>3, <2>1, <2>2 DEF Finish, Goto, TypeOK, kinVars, waitVars
<1>4. ASSUME NEW p \in Proc, SendSome(p)
      PROVE  TypeOK'
  BY <1>4 DEF SendSome, TypeOK, kinVars, waitVars
<1>5. ASSUME NEW p \in Proc, Exit(p) \/ Kill(p) \/ Hangup(p)
      PROVE  TypeOK'
  <2>1. CASE Exit(p)
    <3>1. status[p] % 256 \in Int
      BY DEF TypeOK
    <3> QED BY <2>1, <3>1, GoneTypes DEF Exit
  <2>2. CASE Kill(p)
    <3>1. PICK sg \in Signals : Gone(p, -sg)
      BY <2>2 DEF Kill
    <3>2. -sg \in Int
      BY LaunchAssumption
    <3> QED BY <3>1, <3>2, GoneTypes
  <2>3. CASE Hangup(p)
    <3>1. Gone(p, -9) /\ -9 \in Int
      BY <2>3 DEF Hangup
    <3> QED BY <3>1, GoneTypes
  <2> QED BY <1>5, <2>1, <2>2, <2>3
<1>6. ASSUME NEW p \in Proc, NEW c \in Proc, StartWait(p, c)
      PROVE  TypeOK'
  BY <1>6 DEF StartWait, Goto, TypeOK, kinVars, endVars
<1>7. ASSUME NEW p \in Proc, Join(p)
      PROVE  TypeOK'
  <2>1. waits[p] \in Proc
    BY DEF TypeOK
  <2>2. CASE Dumped(waits[p])
    <3>1. Return(p, waits[p], "raised", "reaped")
      BY <1>7, <2>2 DEF Join
    <3>2. /\ answers' \in [Proc -> Seq(Answers)] /\ waits' \in [Proc -> Proc]
          /\ stage' \in [Proc -> {"free", "forked", "running", "joining", "reading",
                                  "reporting", "exiting", "zombie", "reaped"}]
      BY <2>1, <3>1, ReturnTypes DEF Answers
    <3> QED BY <1>7, <3>2 DEF Join, TypeOK, kinVars, endVars
  <2>3. CASE ~Dumped(waits[p])
    BY <1>7, <2>1, <2>3 DEF Join, TypeOK, kinVars, endVars
  <2> QED BY <2>2, <2>3
<1>8. ASSUME NEW p \in Proc, Read(p)
      PROVE  TypeOK'
  <2>1. PICK a \in Answers, srv \in {"read", "closed"} :
            /\ Return(p, waits[p], a, "reaped")
            /\ server' = [server EXCEPT ![waits[p]] = srv]
    BY <1>8, ReadAnswers
  <2>2. waits[p] \in Proc
    BY DEF TypeOK
  <2>3. /\ answers' \in [Proc -> Seq(Answers)] /\ waits' \in [Proc -> Proc]
        /\ stage' \in [Proc -> {"free", "forked", "running", "joining", "reading",
                                "reporting", "exiting", "zombie", "reaped"}]
    BY <2>1, <2>2, ReturnTypes
  <2>4. UNCHANGED <<kinVars, holds, doomed, endVars, status>>
    BY <1>8 DEF Read
  <2> QED BY <2>1, <2>2, <2>3, <2>4 DEF TypeOK, kinVars, endVars
<1>9. CASE UNCHANGED vars
  BY <1>9 DEF vars, kinVars, endVars, waitVars, TypeOK
<1> QED BY <1>1, <1>2, <1>3, <1>4, <1>5, <1>6, <1>7, <1>8, <1>9 DEF Next, Work

----------------------------------------------------------------------------
(* How a process gets from its f to the status its parent sees.             *)

LEMMA GoneWays ==
    ASSUME TypeOK, Ways, NEW p \in Proc, NEW st \in Int, Alive(p), Gone(p, st),
           st >= 0 => Coded(p)' /\ sent[p] = size[p]
    PROVE  Ways'
<1>1. /\ stage' = [stage EXCEPT ![p] = "zombie"] /\ status' = [status EXCEPT ![p] = st]
      /\ UNCHANGED <<ended, size, sent, waits>>
  BY DEF Gone, Goto, endVars, waitVars
<1>2. /\ stage'[p] = "zombie" /\ status'[p] = st
      /\ \A c \in Proc \ {p} : stage'[c] = stage[c] /\ status'[c] = status[c]
  BY <1>1 DEF TypeOK
<1>3. \A c \in Proc \ {p} : Coded(c)' <=> Coded(c)
  BY <1>1, <1>2 DEF Coded
<1>4. Young' /\ Sized'
  BY <1>1, <1>2 DEF Ways, Young, Sized
<1>5. Reporting'
  BY <1>2, <1>3 DEF Ways, Reporting
<1>6. Exited'
  BY <1>1, <1>2, <1>3 DEF Ways, Exited, Dead
<1>7. Waiters'
  <2> SUFFICES ASSUME NEW r \in Proc, Waiting(r)'
               PROVE  waits[r] # r /\ (stage'[r] = "reading" => stage'[waits[r]] = "reaped")
    BY <1>1 DEF Waiters
  <2>1. r # p /\ stage'[r] = stage[r] /\ Waiting(r)
    BY <1>2 DEF Waiting
  <2>2. waits[r] # r /\ waits[r] \in Proc /\ (stage[r] = "reading" => stage[waits[r]] = "reaped")
    BY <2>1 DEF Ways, Waiters, TypeOK
  <2>3. stage[p] # "reaped"
    BY DEF Alive, Dead
  <2> QED BY <1>2, <2>1, <2>2, <2>3
<1> QED BY <1>4, <1>5, <1>6, <1>7 DEF Ways

\* An answer brings the parent back to its work.
LEMMA ReturnWays ==
    ASSUME TypeOK, Ways, NEW p \in Proc, NEW a, Waiting(p), Dead(waits[p]),
           Return(p, waits[p], a, "reaped"), UNCHANGED <<endVars, status>>
    PROVE  /\ Ways' /\ stage'[waits[p]] = "reaped"
           /\ \A c \in Proc : stage[c] = "reaped" => stage'[c] = "reaped"
<1> DEFINE d == waits[p]
<1>1. d \in Proc /\ d # p
  BY DEF Ways, Waiters, TypeOK
<1>2. /\ stage' = [stage EXCEPT ![p] = "running", ![d] = "reaped"]
      /\ waits' = [waits EXCEPT ![p] = p] /\ UNCHANGED <<ended, size, sent, status>>
  BY DEF Return, endVars
<1> HIDE DEF d
<1>3. /\ stage'[p] = "running" /\ stage'[d] = "reaped" /\ waits'[p] = p
      /\ \A c \in Proc \ {p, d} : stage'[c] = stage[c]
      /\ \A c \in Proc \ {p} : waits'[c] = waits[c]
  BY <1>1, <1>2 DEF TypeOK
<1>4. \A c \in Proc : Coded(c)' <=> Coded(c)
  BY <1>2 DEF Coded
<1>5. Dead(d) /\ Waiting(p)
  BY DEF d
<1>6. Young' /\ Sized'
  BY <1>2, <1>3, <1>5 DEF Ways, Young, Sized, Waiting
<1>7. Reporting'
  BY <1>3, <1>4 DEF Ways, Reporting
<1>8. Exited'
  BY <1>2, <1>3, <1>4, <1>5 DEF Ways, Exited, Dead
<1>9. Waiters'
  <2> SUFFICES ASSUME NEW r \in Proc, Waiting(r)'
               PROVE  waits'[r] # r /\ (stage'[r] = "reading" => stage'[waits'[r]] = "reaped")
    BY DEF Waiters
  <2>1. r \notin {p, d} /\ stage'[r] = stage[r] /\ Waiting(r) /\ waits'[r] = waits[r]
    BY <1>3 DEF Waiting
  <2>2. waits[r] # r /\ waits[r] \in Proc /\ (stage[r] = "reading" => stage[waits[r]] = "reaped")
    BY <2>1 DEF Ways, Waiters, TypeOK
  <2>3. stage[p] # "reaped"
    BY <1>5 DEF Waiting
  <2> QED BY <1>3, <2>1, <2>2, <2>3
<1>10. \A c \in Proc : stage[c] = "reaped" => stage'[c] = "reaped"
  BY <1>3, <1>5 DEF Waiting
<1> QED BY <1>3, <1>6, <1>7, <1>8, <1>9, <1>10 DEF Ways, d

\* Steps that move one process from one stage of its work to the next.
LEMMA StageWays ==
    ASSUME TypeOK, Ways, NEW p \in Proc, NEW at,
           stage' = [stage EXCEPT ![p] = at],
           Alive(p) \/ stage[p] = "free",
           at \in {"forked", "running"}, sent[p] = 0,
           UNCHANGED <<endVars, status, waits>>
    PROVE  Ways'
<1>1. /\ stage'[p] = at /\ \A c \in Proc \ {p} : stage'[c] = stage[c]
      /\ UNCHANGED <<ended, size, sent, status, waits>>
  BY DEF TypeOK, endVars
<1>2. \A c \in Proc : Coded(c)' <=> Coded(c)
  BY <1>1 DEF Coded
<1>3. stage[p] # "reaped"
  BY DEF Alive, Dead
<1>4. Young' /\ Sized'
  BY <1>1 DEF Ways, Young, Sized
<1>5. Reporting'
  BY <1>1, <1>2 DEF Ways, Reporting
<1>6. Exited'
  BY <1>1, <1>2 DEF Ways, Exited, Dead
<1>7. Waiters'
  BY <1>1, <1>3 DEF Ways, Waiters, Waiting, TypeOK
<1> QED BY <1>4, <1>5, <1>6, <1>7 DEF Ways

LEMMA NextWays == TypeOK /\ Ways /\ [Next]_vars => Ways'
<1> SUFFICES ASSUME TypeOK, Ways, [Next]_vars PROVE Ways'
  OBVIOUS
<1>1. ASSUME NEW p \in Proc, NEW c \in Proc, Fork(p, c)
      PROVE  Ways'
  <2>1. /\ stage' = [stage EXCEPT ![c] = "forked"] /\ stage[c] = "free"
        /\ UNCHANGED <<endVars, status, waits>>
    BY <1>1 DEF Fork, Goto, waitVars
  <2>2. sent[c] = 0
    BY <2>1 DEF Ways, Young
  <2> QED BY <2>1, <2>2, StageWays
<1>2. ASSUME NEW c \in Proc, Arm(c)
      PROVE  Ways'
  <2>1. /\ stage' = [stage EXCEPT ![c] = "running"] /\ stage[c] = "forked" /\ Alive(c)
        /\ UNCHANGED <<endVars, status, waits>>
    BY <1>2 DEF Arm, Goto, waitVars, Alive, Dead
  <2>2. sent[c] = 0
    BY <2>1 DEF Ways, Young
  <2> QED BY <2>1, <2>2, StageWays
<1>3. ASSUME NEW p \in Proc, Finish(p)
      PROVE  Ways'
  <2>1. PICK how \in Endings, code \in Codes, n \in Sizes :
            /\ ended' = [ended EXCEPT ![p] = how]
            /\ size' = [size EXCEPT ![p] = IF how \in Reported THEN n ELSE 0]
            /\ status' = [status EXCEPT ![p] = CodeOf(how, code)]
    BY <1>3 DEF Finish
  <2>2. /\ stage[p] = "running" /\ stage' = [stage EXCEPT ![p] = "reporting"]
        /\ UNCHANGED <<sent, waits>>
    BY <1>3 DEF Finish, Goto, waitVars
  <2>3. n > 0 /\ (how = "raised" => CodeOf(how, code) = 1)
    BY LaunchAssumption DEF CodeOf
  <2>4. /\ stage'[p] = "reporting" /\ ended'[p] = how /\ status'[p] = CodeOf(how, code)
        /\ size'[p] = IF how \in Reported THEN n ELSE 0
        /\ \A c \in Proc \ {p} : /\ stage'[c] = stage[c] /\ ended'[c] = ended[c]
                                 /\ size'[c] = size[c] /\ status'[c] = status[c]
    BY <2>1, <2>2 DEF TypeOK
  <2>5. \A c \in Proc \ {p} : Coded(c)' <=> Coded(c)
    BY <2>4 DEF Coded
  <2>6. Coded(p)'
    BY <2>3, <2>4 DEF Coded
  <2>7. Young' /\ Sized'
    BY <2>2, <2>3, <2>4 DEF Ways, Young, Sized
  <2>8. Reporting'
    BY <2>4, <2>5, <2>6 DEF Ways, Reporting
  <2>9. Exited'
    BY <2>2, <2>4, <2>5 DEF Ways, Exited, Dead
  <2>10. Waiters'
    BY <2>2, <2>4 DEF Ways, Waiters, Waiting, TypeOK
  <2> QED BY <2>7, <2>8, <2>9, <2>10 DEF Ways
<1>4. ASSUME NEW p \in Proc, SendSome(p)
      PROVE  Ways'
  <2>1. /\ UNCHANGED <<stage, ended, size, status, waits>> /\ stage[p] = "reporting"
        /\ \A c \in Proc \ {p} : sent'[c] = sent[c]
    BY <1>4 DEF SendSome, waitVars, TypeOK
  <2>2. \A c \in Proc : Coded(c)' <=> Coded(c)
    BY <2>1 DEF Coded
  <2>3. Young' /\ Sized'
    BY <2>1 DEF Ways, Young, Sized
  <2>4. Reporting' /\ Waiters'
    BY <2>1, <2>2 DEF Ways, Reporting, Waiters, Waiting
  <2>5. Exited'
    BY <2>1, <2>2 DEF Ways, Exited, Dead
  <2> QED BY <2>3, <2>4, <2>5 DEF Ways
<1>5. ASSUME NEW p \in Proc, Exit(p)
      PROVE  Ways'
  <2> DEFINE st == status[p] % 256
  <2>1. /\ stage[p] = "reporting" /\ sent[p] = size[p] /\ Gone(p, st) /\ Alive(p)
        /\ status[p] \in Int
    BY <1>5 DEF Exit, SentAll, Alive, Dead, TypeOK
  <2>2. st \in Int /\ (status[p] = 1 => st = 1)
    BY <2>1
  <2>3. Coded(p)
    BY <2>1 DEF Ways, Reporting
  <2>4. status'[p] = st /\ ended'[p] = ended[p]
    BY <2>1 DEF Gone, TypeOK, endVars
  <2> HIDE DEF st
  <2>5. Coded(p)'
    BY <2>2, <2>3, <2>4 DEF Coded
  <2> QED BY <2>1, <2>2, <2>5, GoneWays
<1>6. ASSUME NEW p \in Proc, Kill(p) \/ Hangup(p)
      PROVE  Ways'
  <2>1. PICK st \in Int : Gone(p, st) /\ st < 0
    <3>1. CASE Kill(p)
      <4>1. PICK sg \in Signals : Gone(p, -sg)
        BY <3>1 DEF Kill
      <4>2. -sg \in Int /\ -sg < 0
        BY LaunchAssumption
      <4> QED BY <4>1, <4>2
    <3>2. CASE Hangup(p)
      <4>1. Gone(p, -9) /\ -9 \in Int /\ -9 < 0
        BY <3>2 DEF Hangup
      <4> QED BY <4>1
    <3> QED BY <1>6, <3>1, <3>2
  <2>2. Alive(p)
    BY <1>6 DEF Kill, Hangup
  <2>3. ~(st >= 0)
    BY <2>1
  <2> QED BY <2>1, <2>2, <2>3, GoneWays
<1>7. ASSUME NEW p \in Proc, NEW c \in Proc, StartWait(p, c)
      PROVE  Ways'
  <2>1. /\ stage[p] = "running" /\ stage' = [stage EXCEPT ![p] = "joining"]
        /\ waits' = [waits EXCEPT ![p] = c] /\ c # p /\ UNCHANGED <<ended, size, sent, status>>
    BY <1>7 DEF StartWait, Goto, endVars
  <2>2. /\ stage'[p] = "joining" /\ waits'[p] = c
        /\ \A d \in Proc \ {p} : stage'[d] = stage[d] /\ waits'[d] = waits[d]
    BY <2>1 DEF TypeOK
  <2>3. \A d \in Proc : Coded(d)' <=> Coded(d)
    BY <2>1 DEF Coded
  <2>4. Young' /\ Sized'
    BY <2>1, <2>2 DEF Ways, Young, Sized
  <2>5. Reporting'
    BY <2>2, <2>3 DEF Ways, Reporting
  <2>6. Exited'
    BY <2>1, <2>2, <2>3 DEF Ways, Exited, Dead
  <2>7. Waiters'
    BY <2>1, <2>2 DEF Ways, Waiters, Waiting, TypeOK
  <2> QED BY <2>4, <2>5, <2>6, <2>7 DEF Ways
<1>8. ASSUME NEW p \in Proc, Join(p)
      PROVE  Ways'
  <2> DEFINE d == waits[p]
  <2>1. Waiting(p) /\ Dead(d) /\ UNCHANGED <<endVars, status>>
    BY <1>8 DEF Join, Waiting
  <2>2. CASE Dumped(d)
    <3>1. Return(p, d, "raised", "reaped")
      BY <1>8, <2>2 DEF Join
    <3> QED BY <2>1, <3>1, ReturnWays
  <2>3. CASE ~Dumped(d)
    <3>1. /\ stage' = [stage EXCEPT ![p] = "reading", ![d] = "reaped"]
          /\ stage[p] = "joining" /\ UNCHANGED <<ended, size, sent, status, waits>>
      BY <1>8, <2>3 DEF Join, endVars
    <3>2. d \in Proc /\ d # p
      BY <2>1 DEF Ways, Waiters, TypeOK
    <3>3. /\ stage'[p] = "reading" /\ stage'[d] = "reaped"
          /\ \A c \in Proc \ {p, d} : stage'[c] = stage[c]
      BY <3>1, <3>2 DEF TypeOK
    <3>4. \A c \in Proc : Coded(c)' <=> Coded(c)
      BY <3>1 DEF Coded
    <3>5. Young' /\ Sized'
      BY <3>1, <3>3 DEF Ways, Young, Sized
    <3>6. Reporting'
      BY <3>3, <3>4 DEF Ways, Reporting
    <3>7. Exited'
      BY <2>1, <3>1, <3>3, <3>4 DEF Ways, Exited, Dead
    <3>8. Waiters'
      <4> SUFFICES ASSUME NEW r \in Proc, Waiting(r)'
                   PROVE  waits[r] # r /\ (stage'[r] = "reading" => stage'[waits[r]] = "reaped")
        BY <3>1 DEF Waiters
      <4>1. CASE r = p
        BY <3>2, <3>3, <4>1
      <4>2. CASE r # p
        <5>1. stage'[r] = stage[r] /\ Waiting(r)
          BY <3>3, <4>2 DEF Waiting
        <5>2. /\ waits[r] # r /\ waits[r] \in Proc
              /\ stage[r] = "reading" => stage[waits[r]] = "reaped"
          BY <5>1 DEF Ways, Waiters, TypeOK
        <5>3. stage[p] # "reaped"
          BY <3>1
        <5> QED BY <3>3, <5>1, <5>2, <5>3
      <4> QED BY <4>1, <4>2
    <3> QED BY <3>5, <3>6, <3>7, <3>8 DEF Ways
  <2> QED BY <2>2, <2>3
<1>9. ASSUME NEW p \in Proc, Read(p)
      PROVE  Ways'
  <2>1. PICK a \in Answers : Return(p, waits[p], a, "reaped")
    BY <1>9, ReadAnswers DEF Ways
  <2>2. Waiting(p) /\ stage[waits[p]] = "reaped" /\ UNCHANGED <<endVars, status>>
    BY <1>9 DEF Read, Waiting, Ways, Waiters
  <2>3. Dead(waits[p])
    BY <2>2 DEF Dead
  <2> QED BY <2>1, <2>2, <2>3, ReturnWays
<1>10. CASE UNCHANGED vars
  <2>1. UNCHANGED <<stage, ended, size, sent, status, waits>>
    BY <1>10 DEF vars, endVars, waitVars
  <2>2. \A c \in Proc : (Coded(c)' <=> Coded(c)) /\ (Dead(c)' <=> Dead(c))
    BY <2>1 DEF Coded, Dead
  <2> QED BY <2>1, <2>2 DEF Ways, Young, Sized, Reporting, Exited, Waiters, Waiting
<1> QED BY <1>1, <1>2, <1>3, <1>4, <1>5, <1>6, <1>7, <1>8, <1>9, <1>10 DEF Next, Work

----------------------------------------------------------------------------
(* What a wait answers.                                                     *)

\* The answers given stay true, for they are about processes that are no more.
LEMMA AnswersStay ==
    ASSUME TypeOK, Answered, Truth, UNCHANGED <<answers, server>>, central \subseteq central',
           \A c \in Proc : stage[c] = "reaped" =>
               /\ stage'[c] = "reaped" /\ ended'[c] = ended[c] /\ size'[c] = size[c]
               /\ sent'[c] = sent[c] /\ status'[c] = status[c]
    PROVE  Answered' /\ Truth'
<1>1. Answered'
  BY DEF Answered, ReportOf
<1>2. \A c \in Proc : \A i \in DOMAIN answers[c] : stage[c] = "reaped"
  BY DEF Answered, TypeOK
<1>3. OkIsTruthful'
  BY <1>2 DEF Truth, OkIsTruthful, Before
<1>4. RaisesWithReason'
  BY <1>2 DEF Truth, RaisesWithReason, Before, Dumped
<1> QED BY <1>1, <1>3, <1>4 DEF Truth

\* Why an answer may be good, and why it may be raised, after those of old.
GoodFor(c, old) ==
    \/ ended[c] \in {"none", "value"} /\ sent[c] = size[c]
    \/ ended[c] = "code" /\ status[c] = 0
    \/ \E j \in 1..Len(old) : old[j] = "error"
    \/ ended[c] = "unloadable" /\ \E j \in 1..Len(old) : old[j] = "raised"
RaisedFor(c, old) ==
    \/ ended[c] = "unloadable" /\ sent[c] = size[c]
    \/ status[c] < 0 /\ sent[c] < size[c]
    \/ Dumped(c)
    \/ old # <<>>
    \/ c \in central /\ ended[c] \notin Reported
    \/ c \in central /\ sent[c] < size[c]

LEMMA AnswerTrue ==
    ASSUME TypeOK, Answered, Truth, NEW d \in Proc, NEW a \in Answers,
           NEW srv \in {"fresh", "read", "closed"},
           answers' = [answers EXCEPT ![d] = Append(@, a)],
           server' = [server EXCEPT ![d] = srv],
           UNCHANGED <<central, endVars, status>>, stage'[d] = "reaped",
           \A c \in Proc : stage[c] = "reaped" => stage'[c] = "reaped",
           Good(a) => GoodFor(d, answers[d]),
           a = "raised" => RaisedFor(d, answers[d]),
           srv = "read" /\ sent[d] = size[d] => a = ReportOf(d) \/ server[d] = "read"
    PROVE  Answered' /\ Truth'
<1> DEFINE s == answers[d]
           r == answers'[d]
<1>1. /\ s \in Seq(Answers) /\ r = Append(s, a) /\ server'[d] = srv
      /\ \A c \in Proc \ {d} : answers'[c] = answers[c] /\ server'[c] = server[c]
      /\ UNCHANGED <<ended, size, sent, status, central>>
  BY DEF TypeOK, endVars
<1>2. /\ Len(r) = Len(s) + 1 /\ Len(s) \in Nat /\ r \in Seq(Answers)
      /\ \A i \in 1..Len(s) : r[i] = s[i]
      /\ r[Len(s) + 1] = a
  <2> HIDE DEF s, r
  <2> QED BY <1>1, AppendProperties, LenProperties
<1>3. r # <<>> /\ DOMAIN r = 1..Len(r) /\ DOMAIN s = 1..Len(s)
  <2> HIDE DEF s, r
  <2> QED BY <1>1, <1>2
<1>4. Answered'
  <2> SUFFICES ASSUME NEW c \in Proc
               PROVE  /\ answers'[c] # <<>> => stage'[c] = "reaped"
                      /\ server'[c] # "fresh" => answers'[c] # <<>>
                      /\ server'[c] = "read" /\ sent[c] = size[c] =>
                             \E j \in 1..Len(answers'[c]) : answers'[c][j] = ReportOf(c)
    BY <1>1 DEF Answered, ReportOf
  <2>1. CASE c # d
    BY <1>1, <2>1 DEF Answered
  <2>2. CASE c = d
    <3>1. ASSUME srv = "read", sent[d] = size[d]
          PROVE  \E j \in 1..Len(r) : r[j] = ReportOf(d)
      <4>1. CASE a = ReportOf(d)
        <5>1. Len(s) + 1 \in 1..Len(r)
          BY <1>2
        <5> QED BY <1>2, <4>1, <5>1
      <4>2. CASE server[d] = "read"
        <5>1. PICK j \in 1..Len(s) : s[j] = ReportOf(d)
          BY <3>1, <4>2 DEF Answered
        <5>2. j \in 1..Len(r)
          BY <1>2
        <5> QED BY <1>2, <5>1, <5>2
      <4> QED BY <3>1, <4>1, <4>2
    <3> QED BY <1>1, <1>3, <2>2, <3>1
  <2> QED BY <2>1, <2>2
<1>5. ASSUME NEW c \in Proc, NEW i \in DOMAIN answers'[c], Good(answers'[c][i])
      PROVE  \/ ended[c] \in {"none", "value"} /\ sent[c] = size[c]
             \/ ended[c] = "code" /\ status[c] = 0
             \/ \E j \in 1..(i - 1) : answers'[c][j] = "error"
             \/ ended[c] = "unloadable" /\ \E j \in 1..(i - 1) : answers'[c][j] = "raised"
  <2>0. i \in DOMAIN answers'[c] /\ Good(answers'[c][i])
    BY <1>5
  <2>1. CASE c # d
    <3>1. i \in DOMAIN answers[c] /\ Good(answers[c][i])
      BY <1>1, <2>0, <2>1
    <3>2. \/ ended[c] \in {"none", "value"} /\ sent[c] = size[c]
          \/ ended[c] = "code" /\ status[c] = 0
          \/ Before(c, i, {"error"})
          \/ ended[c] = "unloadable" /\ Before(c, i, {"raised"})
      BY <3>1 DEF Truth, OkIsTruthful
    <3>3. /\ Before(c, i, {"error"}) => \E j \in 1..(i - 1) : answers'[c][j] = "error"
          /\ Before(c, i, {"raised"}) => \E j \in 1..(i - 1) : answers'[c][j] = "raised"
      BY <1>1, <2>1 DEF Before
    <3> QED BY <3>2, <3>3
  <2>2. CASE c = d /\ i \in 1..Len(s)
    <3>1. i \in DOMAIN s /\ Good(s[i])
      BY <1>2, <1>3, <2>0, <2>2
    <3>2. \/ ended[c] \in {"none", "value"} /\ sent[c] = size[c]
          \/ ended[c] = "code" /\ status[c] = 0
          \/ Before(c, i, {"error"})
          \/ ended[c] = "unloadable" /\ Before(c, i, {"raised"})
      BY <2>2, <3>1 DEF Truth, OkIsTruthful
    <3>3. \A j \in 1..(i - 1) : j \in 1..Len(s)
      BY <1>2, <2>2
    <3>4. /\ Before(c, i, {"error"}) => \E j \in 1..(i - 1) : r[j] = "error"
          /\ Before(c, i, {"raised"}) => \E j \in 1..(i - 1) : r[j] = "raised"
      BY <1>2, <2>2, <3>3 DEF Before
    <3> QED BY <2>2, <3>2, <3>4
  <2>3. CASE c = d /\ i \notin 1..Len(s)
    <3>1. i = Len(s) + 1
      BY <1>2, <1>3, <2>0, <2>3
    <3>2. GoodFor(d, s)
      BY <1>2, <2>0, <2>3, <3>1
    <3>3. \A j \in 1..Len(s) : j \in 1..(i - 1)
      BY <1>2, <3>1
    <3> QED BY <1>2, <2>3, <3>2, <3>3 DEF GoodFor
  <2> QED BY <2>1, <2>2, <2>3
<1>6. OkIsTruthful'
  <2>1. ASSUME NEW c \in Proc, NEW i \in DOMAIN answers'[c], Good(answers'[c][i])
        PROVE  (\/ ended[c] \in {"none", "value"} /\ sent[c] = size[c]
                \/ ended[c] = "code" /\ status[c] = 0
                \/ Before(c, i, {"error"})
                \/ ended[c] = "unloadable" /\ Before(c, i, {"raised"}))'
    <3>1. \/ ended[c] \in {"none", "value"} /\ sent[c] = size[c]
          \/ ended[c] = "code" /\ status[c] = 0
          \/ \E j \in 1..(i - 1) : answers'[c][j] = "error"
          \/ ended[c] = "unloadable" /\ \E j \in 1..(i - 1) : answers'[c][j] = "raised"
      BY <1>5, <2>1
    <3>2. /\ (\E j \in 1..(i - 1) : answers'[c][j] = "error") => Before(c, i, {"error"})'
          /\ (\E j \in 1..(i - 1) : answers'[c][j] = "raised") => Before(c, i, {"raised"})'
      BY DEF Before
    <3>3. UNCHANGED <<ended, size, sent, status>>
      BY <1>1
    <3> QED BY <3>1, <3>2, <3>3
  <2> QED BY <2>1 DEF OkIsTruthful, Good
<1>7. RaisesWithReason'
  <2> SUFFICES ASSUME NEW c \in Proc, NEW i \in DOMAIN answers'[c], answers'[c][i] = "raised"
               PROVE  \/ ended[c] = "unloadable" /\ sent[c] = size[c]
                      \/ status[c] < 0 /\ sent[c] < size[c]
                      \/ Dumped(c)
                      \/ \E j \in 1..(i - 1) : answers'[c][j] \in Answers
                      \/ c \in central /\ ended[c] \notin Reported
                      \/ c \in central /\ sent[c] < size[c]
    BY <1>1 DEF RaisesWithReason, Before, Dumped
  <2>1. CASE c # d
    BY <1>1, <2>1 DEF Truth, RaisesWithReason, Before
  <2>2. CASE c = d /\ i \in 1..Len(s)
    <3>1. i \in DOMAIN s /\ s[i] = "raised"
      BY <1>2, <1>3, <2>2
    <3>2. \/ ended[c] = "unloadable" /\ sent[c] = size[c]
          \/ status[c] < 0 /\ sent[c] < size[c]
          \/ Dumped(c)
          \/ \E j \in 1..(i - 1) : s[j] \in Answers
          \/ c \in central /\ ended[c] \notin Reported
          \/ c \in central /\ sent[c] < size[c]
      BY <2>2, <3>1 DEF Truth, RaisesWithReason, Before
    <3>3. \A j \in 1..(i - 1) : j \in 1..Len(s)
      BY <1>2, <2>2
    <3> QED BY <1>2, <2>2, <3>2, <3>3
  <2>3. CASE c = d /\ i \notin 1..Len(s)
    <3>1. i = Len(s) + 1
      BY <1>2, <1>3, <2>3
    <3>2. RaisedFor(d, s)
      BY <1>2, <2>3, <3>1
    <3>3. s # <<>> => 1 \in 1..(i - 1) /\ r[1] \in Answers
      <4>1. s # <<>> => Len(s) # 0
        <5> HIDE DEF s, r
        <5> QED BY <1>1, EmptySeq
      <4>2. Len(s) # 0 => 1 \in 1..Len(s) /\ 1 \in 1..Len(r) /\ i - 1 = Len(s)
        BY <1>2, <3>1
      <4>3. \A j \in 1..Len(r) : r[j] \in Answers
        <5> HIDE DEF s, r
        <5> QED BY <1>2
      <4> QED BY <4>1, <4>2, <4>3
    <3> QED BY <2>3, <3>2, <3>3 DEF RaisedFor
  <2> QED BY <2>1, <2>2, <2>3
<1> QED BY <1>4, <1>6, <1>7 DEF Truth

\* Read answers as the process has ended.
LEMMA ReadTrue ==
    ASSUME Inv, NEW p \in Proc, Read(p)
    PROVE  Answered' /\ Truth'
<1> DEFINE c == waits[p]
<1>1. /\ TypeOK /\ Ways /\ Answered /\ Truth /\ c \in Proc
      /\ Waiting(p) /\ stage[c] = "reaped" /\ Dead(c) /\ UNCHANGED <<central, endVars, status>>
      /\ sent[c] \in Nat /\ size[c] \in Nat /\ status[c] \in Int
  BY DEF Inv, Ways, Waiters, Waiting, Read, TypeOK, kinVars, Dead
<1>2. PICK a \in Answers, srv \in {"read", "closed"} :
          /\ Return(p, c, a, "reaped") /\ server' = [server EXCEPT ![c] = srv]
          /\ \/ srv = "read" /\ sent[c] = size[c] /\ a = ended[c] /\ a \in Loadable
             \/ sent[c] = size[c] /\ ended[c] = "unloadable" /\ a = "raised"
             \/ srv = "read" /\ sent[c] < size[c] /\ a = "raised"
             \/ srv = "closed" /\ server[c] = "closed" /\ a = "raised"
             \/ /\ srv = "closed" /\ a = ExitValue(c)
                /\ server[c] = "read" \/ sent[c] = 0
  BY <1>1, ReadAnswers DEF Ways
<1>3. /\ stage'[c] = "reaped" /\ \A d \in Proc : stage[d] = "reaped" => stage'[d] = "reaped"
      /\ answers' = [answers EXCEPT ![c] = Append(@, a)]
  BY <1>1, <1>2, ReturnWays DEF Return
<1>4. /\ ended[c] \in Reported <=> size[c] > 0
      /\ status[c] >= 0 => Coded(c) /\ sent[c] = size[c]
      /\ server[c] # "fresh" => answers[c] # <<>>
      /\ server[c] = "read" /\ sent[c] = size[c] =>
             \E j \in 1..Len(answers[c]) : answers[c][j] = ReportOf(c)
  BY <1>1 DEF Ways, Sized, Exited, Answered
<1> HIDE DEF c
<1>5. CASE srv = "read" /\ sent[c] = size[c] /\ a = ended[c] /\ a \in Loadable
  <2>1. (Good(a) => GoodFor(c, answers[c])) /\ a # "raised" /\ a = ReportOf(c)
    BY <1>5 DEF Good, GoodFor, Loadable, ReportOf
  <2> QED BY <1>1, <1>2, <1>3, <1>5, <2>1, AnswerTrue
<1>6. CASE srv = "read" /\ sent[c] < size[c] /\ a = "raised"
  <2>1. status[c] < 0 /\ sent[c] # size[c]
    BY <1>1, <1>4, <1>6
  <2>2. RaisedFor(c, answers[c]) /\ ~Good(a)
    BY <1>6, <2>1 DEF RaisedFor, Good
  <2> QED BY <1>1, <1>2, <1>3, <2>1, <2>2, AnswerTrue
<1>7. CASE srv = "closed" /\ server[c] = "closed" /\ a = "raised"
  <2>1. RaisedFor(c, answers[c]) /\ ~Good(a)
    BY <1>4, <1>7 DEF RaisedFor, Good
  <2> QED BY <1>1, <1>2, <1>3, <1>7, <2>1, AnswerTrue
<1>8. CASE srv = "closed" /\ a = ExitValue(c) /\ (server[c] = "read" \/ sent[c] = 0)
  <2>1. /\ a \in {"raised", "exit 0", "exit code", "signal"}
        /\ a = "raised" => c \in central
        /\ a = "exit 0" => status[c] = 0
    BY <1>1, <1>8, ExitValues
  <2>2. ASSUME a = "raised" PROVE RaisedFor(c, answers[c])
    <3>1. CASE server[c] = "read"
      BY <1>4, <3>1 DEF RaisedFor
    <3>2. CASE sent[c] = 0 /\ ended[c] \in Reported
      <4>1. sent[c] < size[c]
        BY <1>4, <3>2
      <4> QED BY <2>1, <2>2, <4>1 DEF RaisedFor
    <3>3. CASE ended[c] \notin Reported
      BY <2>1, <2>2, <3>3 DEF RaisedFor
    <3> QED BY <1>8, <3>1, <3>2, <3>3
  <2>3. ASSUME Good(a) PROVE GoodFor(c, answers[c])
    <3>1. status[c] = 0
      BY <2>1, <2>3 DEF Good
    <3>2. sent[c] = size[c] /\ ended[c] \in Endings /\ ended[c] # "raised"
      <4>1. status[c] >= 0 /\ status[c] # 1
        BY <3>1
      <4> QED BY <1>4, <4>1 DEF Coded
    <3>3. CASE ended[c] \in {"error", "unloadable"}
      <4>1. size[c] > 0
        BY <1>4, <3>3 DEF Reported, Loadable
      <4>2. sent[c] # 0
        BY <1>1, <3>2, <4>1
      <4>3. server[c] = "read"
        BY <1>8, <4>2
      <4> QED BY <1>4, <3>2, <3>3, <4>3 DEF GoodFor, ReportOf
    <3>4. CASE ended[c] \notin {"error", "unloadable"}
      BY <3>1, <3>2, <3>4 DEF GoodFor, Endings, Reported, Loadable
    <3> QED BY <3>3, <3>4
  <2> QED BY <1>1, <1>2, <1>3, <1>8, <2>2, <2>3, AnswerTrue
<1>9. CASE sent[c] = size[c] /\ ended[c] = "unloadable" /\ a = "raised"
  <2>1. RaisedFor(c, answers[c]) /\ ~Good(a) /\ a = ReportOf(c)
    BY <1>9 DEF RaisedFor, Good, ReportOf
  <2> QED BY <1>1, <1>2, <1>3, <2>1, AnswerTrue
<1> QED BY <1>2, <1>5, <1>6, <1>7, <1>8, <1>9

LEMMA NextTruth == Inv /\ [Next]_vars => Answered' /\ Truth'
<1> SUFFICES ASSUME Inv, [Next]_vars PROVE Answered' /\ Truth'
  OBVIOUS
<1>0. TypeOK /\ Ways /\ Answered /\ Truth
  BY DEF Inv
<1>1. ASSUME NEW p \in Proc, NEW c \in Proc, Fork(p, c)
      PROVE  Answered' /\ Truth'
  <2>1. /\ UNCHANGED <<answers, server, ended, size, sent, status>> /\ central \subseteq central'
        /\ stage[c] = "free" /\ stage' = [stage EXCEPT ![c] = "forked"]
    BY <1>1 DEF Fork, Goto, endVars, waitVars
  <2>2. \A d \in Proc : stage[d] = "reaped" => stage'[d] = "reaped"
    BY <1>0, <2>1 DEF TypeOK
  <2> QED BY <1>0, <2>1, <2>2, AnswersStay
<1>2. ASSUME NEW p \in Proc, Arm(p) \/ Finish(p) \/ SendSome(p) \/ Exit(p) \/ Kill(p) \/ Hangup(p)
      PROVE  Answered' /\ Truth'
  <2>1. stage[p] # "reaped" /\ UNCHANGED <<answers, server, central>>
    BY <1>2 DEF Arm, Finish, SendSome, Exit, Kill, Hangup, Gone, Alive, Dead, kinVars, waitVars
  <2>2. \A d \in Proc \ {p} : /\ stage'[d] = stage[d] /\ ended'[d] = ended[d]
                              /\ size'[d] = size[d] /\ sent'[d] = sent[d]
                              /\ status'[d] = status[d]
    BY <1>0, <1>2
       DEF Arm, Finish, SendSome, Exit, Kill, Hangup, Gone, Goto, endVars, TypeOK
  <2> QED BY <1>0, <2>1, <2>2, AnswersStay
<1>3. ASSUME NEW p \in Proc, NEW c \in Proc, StartWait(p, c)
      PROVE  Answered' /\ Truth'
  <2>1. /\ UNCHANGED <<answers, server, ended, size, sent, status, central>>
        /\ stage[p] = "running" /\ stage' = [stage EXCEPT ![p] = "joining"]
    BY <1>3 DEF StartWait, Goto, endVars, kinVars
  <2>2. \A d \in Proc : stage[d] = "reaped" => stage'[d] = "reaped"
    BY <1>0, <2>1 DEF TypeOK
  <2> QED BY <1>0, <2>1, <2>2, AnswersStay
<1>4. ASSUME NEW p \in Proc, Join(p)
      PROVE  Answered' /\ Truth'
  <2> DEFINE d == waits[p]
  <2>1. /\ Waiting(p) /\ Dead(d) /\ d \in Proc /\ d # p
        /\ UNCHANGED <<central, endVars, status, server>>
    BY <1>0, <1>4 DEF Join, Waiting, Ways, Waiters, TypeOK, kinVars
  <2>2. CASE Dumped(d)
    <3>1. Return(p, d, "raised", "reaped")
      BY <1>4, <2>2 DEF Join
    <3>2. /\ stage'[d] = "reaped" /\ \A c \in Proc : stage[c] = "reaped" => stage'[c] = "reaped"
      BY <1>0, <2>1, <3>1, ReturnWays
    <3>3. /\ answers' = [answers EXCEPT ![d] = Append(@, "raised")]
          /\ server' = [server EXCEPT ![d] = server[d]]
          /\ server[d] \in {"fresh", "read", "closed"} /\ "raised" \in Answers
      BY <1>0, <2>1, <3>1 DEF Return, TypeOK, Answers
    <3>4. RaisedFor(d, answers[d]) /\ ~Good("raised")
      BY <2>2 DEF RaisedFor, Good
    <3> HIDE DEF d
    <3> QED BY <1>0, <2>1, <3>2, <3>3, <3>4, AnswerTrue
  <2>3. CASE ~Dumped(d)
    <3>1. /\ stage' = [stage EXCEPT ![p] = "reading", ![d] = "reaped"]
          /\ stage[p] = "joining" /\ UNCHANGED <<answers, ended, size, sent, status>>
      BY <1>4, <2>3 DEF Join, endVars
    <3>2. \A c \in Proc : stage[c] = "reaped" => stage'[c] = "reaped"
      BY <1>0, <2>1, <3>1 DEF TypeOK
    <3> QED BY <1>0, <2>1, <3>1, <3>2, AnswersStay
  <2> QED BY <2>2, <2>3
<1>5. ASSUME NEW p \in Proc, Read(p)
      PROVE  Answered' /\ Truth'
  BY <1>5, ReadTrue
<1>6. CASE UNCHANGED vars
  <2>1. UNCHANGED <<stage, answers, server, ended, size, sent, status, central>>
    BY <1>6 DEF vars, kinVars, endVars, waitVars
  <2> QED BY <1>0, <2>1, AnswersStay
<1> QED BY <1>1, <1>2, <1>3, <1>4, <1>5, <1>6 DEF Next, Work

----------------------------------------------------------------------------
(* The theorems.                                                            *)

LEMMA AlwaysInv == Spec => []Inv
<1>1. Init => Inv
  <2> SUFFICES ASSUME Init PROVE Inv
    OBVIOUS
  <2>1. Root \in Proc
    BY LaunchAssumption
  <2>2. TypeOK
    BY <2>1 DEF Init, TypeOK
  <2>3. Ways
    BY DEF Init, Ways, Young, Sized, Reporting, Exited, Waiters, Waiting, Dead,
       Reported, Loadable
  <2>4. Answered
    BY DEF Init, Answered
  <2>5. Truth
    <3>1. \A c \in Proc : DOMAIN answers[c] = {}
      BY DEF Init
    <3> QED BY <3>1 DEF Truth, OkIsTruthful, RaisesWithReason
  <2> QED BY <2>2, <2>3, <2>4, <2>5 DEF Inv
<1>2. Inv /\ [Next]_vars => Inv'
  <2>1. Inv => TypeOK /\ Sized /\ Ways
    BY DEF Inv, Ways
  <2> QED BY <2>1, NextTypes, NextWays, NextTruth DEF Inv
<1> QED BY <1>1, <1>2, PTL DEF Spec

\* Stages, descriptors, statuses and answers have their types: an exit code is
\* an integer whatever f exits with, and whoever waits waits for a process.
THEOREM TypesCorrect == Spec => []TypeOK
<1>1. Inv => TypeOK
  BY DEF Inv
<1> QED BY <1>1, AlwaysInv, PTL

\* wait_spawn says "ok" of a process only if it did not fail, or an earlier wait
\* has taken the report of its error away, or raised over one that does not
\* unpickle (spawned_process_wrapper, wait_spawn).
THEOREM OkIsTruthfulCorrect == Spec => []OkIsTruthful
<1>1. Inv => OkIsTruthful
  BY DEF Inv, Truth
<1> QED BY <1>1, AlwaysInv, PTL

\* wait_spawn and run_inbox raise only for a report that does not unpickle, a
\* death by signal in the middle of the report or with a core dump, a wait before,
\* or a central without a report.
THEOREM RaisesWithReasonCorrect == Spec => []RaisesWithReason
<1>1. Inv => RaisesWithReason
  BY DEF Inv, Truth
<1> QED BY <1>1, AlwaysInv, PTL
===============================================================================
