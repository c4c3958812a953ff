--------------------------- MODULE BuildFarmProofs ---------------------------
(***************************************************************************)
(* Proofs about JobServer, for every number of jobs, clients, commands and *)
(* every history length: type correctness, a job is in one place           *)
(* (OnePlace), the server implements the safety part of JobQueue; there is *)
(* one child process at most and it is that of the active job, the outcome *)
(* of a job is the truth about its commands, the jobs of a plan run in its *)
(* order, and a cancel that killed is what is reported.                    *)
(*                                                                         *)
(* Then about BuildFarm, for every project: the composition is a job       *)
(* server and a build pipeline, whose theorems hold in it, a job that is   *)
(* shown as success has left its artifact, and a build that misses a       *)
(* dependency is explained by what is shown.                               *)
(***************************************************************************)
EXTENDS BuildFarm, SequenceTheorems, FiniteSetTheorems, TLAPS

-----------------------------------------------------------------------------
(***************************************************************************)
(* Facts about the queue operations.  A list is Distinct when nothing is   *)
(* in it twice.                                                            *)
(***************************************************************************)
Distinct(s) == \A i, k \in DOMAIN s : s[i] = s[k] => i = k

\* Appending a new element.
LEMMA AppendFacts ==
  ASSUME NEW S, NEW s \in Seq(S), NEW e \in S
  PROVE  /\ Append(s, e) \in Seq(S)
         /\ Range(Append(s, e)) = Range(s) \cup {e}
         /\ Distinct(s) /\ e \notin Range(s) => Distinct(Append(s, e))
<1> DEFINE t == Append(s, e)
<1>1. /\ t \in Seq(S) /\ Len(t) = Len(s) + 1 /\ t[Len(s) + 1] = e
      /\ \A i \in 1..Len(s) : t[i] = s[i]
  OBVIOUS
<1>2. DOMAIN t = 1..(Len(s) + 1) /\ DOMAIN s = 1..Len(s) /\ Len(s) \in Nat
  BY <1>1
<1>3. Range(t) = Range(s) \cup {e}
  BY <1>1, <1>2 DEF Range
<1>4. Distinct(s) /\ e \notin Range(s) => Distinct(t)
  <2> SUFFICES ASSUME Distinct(s), e \notin Range(s),
                      NEW i \in DOMAIN t, NEW k \in DOMAIN t, t[i] = t[k]
               PROVE  i = k
    BY DEF Distinct
  <2>1. \A m \in 1..Len(s) : s[m] # e
    BY <1>2 DEF Range
  <2> QED BY <1>1, <1>2, <2>1 DEF Distinct
<1> QED BY <1>1, <1>3, <1>4

\* Taking the head off.
LEMMA TailFacts ==
  ASSUME NEW S, NEW s \in Seq(S), s # <<>>
  PROVE  /\ Tail(s) \in Seq(S)
         /\ Head(s) \in S
         /\ Range(s) = Range(Tail(s)) \cup {Head(s)}
         /\ Distinct(s) => Distinct(Tail(s)) /\ Head(s) \notin Range(Tail(s))
<1> DEFINE t == Tail(s)
<1>1. /\ t \in Seq(S) /\ Len(t) = Len(s) - 1 /\ Len(s) \in Nat \ {0}
      /\ \A i \in 1..Len(t) : t[i] = s[i + 1]
      /\ Head(s) \in S /\ Head(s) = s[1]
  BY HeadTailProperties, EmptySeq
<1>2. DOMAIN t = 1..Len(t) /\ DOMAIN s = 1..Len(s)
  BY <1>1
<1>3. Range(s) = Range(t) \cup {Head(s)}
  <2>1. ASSUME NEW i \in DOMAIN s PROVE s[i] \in Range(t) \cup {Head(s)}
    <3>1. CASE i = 1 BY <1>1, <3>1
    <3>2. CASE i # 1
      <4>1. i - 1 \in DOMAIN t /\ t[i - 1] = s[i] BY <1>1, <1>2, <3>2
      <4> QED BY <4>1 DEF Range
    <3> QED BY <3>1, <3>2
  <2>2. ASSUME NEW i \in DOMAIN t PROVE t[i] \in Range(s)
    <3>1. i + 1 \in DOMAIN s /\ t[i] = s[i + 1] BY <1>1, <1>2
    <3> QED BY <3>1 DEF Range
  <2>3. Head(s) \in Range(s)
    BY <1>1, <1>2 DEF Range
  <2> QED BY <2>1, <2>2, <2>3 DEF Range
<1>4. Distinct(s) => Distinct(t) /\ Head(s) \notin Range(t)
  <2> SUFFICES ASSUME Distinct(s) PROVE Distinct(t) /\ Head(s) \notin Range(t)
    OBVIOUS
  <2>1. \A i \in DOMAIN t : i + 1 \in DOMAIN s /\ t[i] = s[i + 1] /\ i + 1 # 1
    BY <1>1, <1>2
  <2>2. Distinct(t)
    BY <2>1, <1>2 DEF Distinct
  <2>3. 1 \in DOMAIN s
    BY <1>1, <1>2
  <2> QED BY <1>1, <2>1, <2>2, <2>3 DEF Distinct, Range
<1> QED BY <1>1, <1>3, <1>4

\* A stretch of a list.
LEMMA SubSeqFacts ==
  ASSUME NEW S, NEW s \in Seq(S), NEW m \in 1..(Len(s) + 1), NEW n \in 0..Len(s)
  PROVE  /\ SubSeq(s, m, n) \in Seq(S)
         /\ Len(SubSeq(s, m, n)) = IF m <= n THEN n - m + 1 ELSE 0
         /\ \A i \in 1..Len(SubSeq(s, m, n)) :
              m + i - 1 \in DOMAIN s /\ SubSeq(s, m, n)[i] = s[m + i - 1]
<1>1. DOMAIN s = 1..Len(s) /\ Len(s) \in Nat /\ \A i \in 1..Len(s) : s[i] \in S
  OBVIOUS
<1>2. \A i \in m..n : s[i] \in S
  BY <1>1
<1>3. m \in Int /\ n \in Int
  BY <1>1
<1>4. /\ SubSeq(s, m, n) \in Seq(S)
      /\ Len(SubSeq(s, m, n)) = IF m <= n THEN n - m + 1 ELSE 0
      /\ \A i \in 1..(n - m + 1) : SubSeq(s, m, n)[i] = s[m + i - 1]
  BY <1>2, <1>3, SubSeqProperties
<1> QED BY <1>1, <1>3, <1>4

\* Taking the i-th element out.
LEMMA RemoveAtFacts ==
  ASSUME NEW S, NEW s \in Seq(S), NEW i \in DOMAIN s, Distinct(s)
  PROVE  /\ RemoveAt(s, i) \in Seq(S)
         /\ Range(RemoveAt(s, i)) = Range(s) \ {s[i]}
         /\ Distinct(RemoveAt(s, i))
<1> DEFINE a == SubSeq(s, 1, i - 1)
           b == SubSeq(s, i + 1, Len(s))
           t == a \o b
           old(k) == IF k < i THEN k ELSE k + 1
<1>1. DOMAIN s = 1..Len(s) /\ Len(s) \in Nat /\ i \in 1..Len(s)
  OBVIOUS
<1>2. a \in Seq(S) /\ Len(a) = i - 1 /\ \A k \in 1..(i - 1) : a[k] = s[k]
  <2>1. 1 \in 1..(Len(s) + 1) /\ i - 1 \in 0..Len(s)
    BY <1>1
  <2> QED BY <1>1, <2>1, SubSeqFacts
<1>3. b \in Seq(S) /\ Len(b) = Len(s) - i /\ \A k \in 1..(Len(s) - i) : b[k] = s[i + k]
  <2>1. i + 1 \in 1..(Len(s) + 1) /\ Len(s) \in 0..Len(s)
    BY <1>1
  <2>2. /\ b \in Seq(S)
        /\ Len(b) = IF i + 1 <= Len(s) THEN Len(s) - (i + 1) + 1 ELSE 0
        /\ \A k \in 1..Len(b) : b[k] = s[(i + 1) + k - 1]
    BY <2>1, SubSeqFacts
  <2>3. \A k \in 1..(Len(s) - i) : (i + 1) + k - 1 = i + k
    BY <1>1
  <2>4. Len(b) = Len(s) - i
    BY <1>1, <2>2
  <2> HIDE DEF b
  <2> QED BY <2>2, <2>3, <2>4
<1> HIDE DEF a, b
<1>4. /\ t \in Seq(S) /\ Len(t) = Len(s) - 1
      /\ \A k \in 1..(Len(s) - 1) : t[k] = s[old(k)]
  <2>1. /\ t \in Seq(S) /\ Len(t) = Len(a) + Len(b)
        /\ \A k \in 1..(Len(a) + Len(b)) :
             t[k] = IF k <= Len(a) THEN a[k] ELSE b[k - Len(a)]
    BY <1>2, <1>3, ConcatProperties
  <2>2. Len(a) + Len(b) = Len(s) - 1
    BY <1>1, <1>2, <1>3
  <2> HIDE DEF t
  <2>3. ASSUME NEW k \in 1..(Len(s) - 1) PROVE t[k] = s[old(k)]
    <3>1. CASE k < i
      <4>1. k <= Len(a) /\ k \in 1..(i - 1)
        BY <1>1, <1>2, <3>1
      <4> QED BY <1>2, <2>1, <2>2, <3>1, <4>1
    <3>2. CASE ~(k < i)
      <4>1. /\ k - Len(a) \in 1..(Len(s) - i) /\ i + (k - Len(a)) = k + 1
            /\ ~(k <= Len(a))
        BY <1>1, <1>2, <3>2
      <4>2. t[k] = b[k - Len(a)]
        BY <2>1, <2>2, <4>1
      <4> QED BY <1>3, <3>2, <4>1, <4>2
    <3> QED BY <3>1, <3>2
  <2> QED BY <2>1, <2>2, <2>3
<1> HIDE DEF t
<1>5. DOMAIN t = 1..(Len(s) - 1)
  BY <1>4
<1>6. \A k \in 1..(Len(s) - 1) : old(k) \in DOMAIN s /\ old(k) # i
  BY <1>1
<1>7. \A m \in DOMAIN s : m # i => \E k \in 1..(Len(s) - 1) : old(k) = m
  <2> SUFFICES ASSUME NEW m \in DOMAIN s, m # i
               PROVE  \E k \in 1..(Len(s) - 1) : old(k) = m
    OBVIOUS
  <2>1. CASE m < i
    BY <1>1, <2>1
  <2>2. CASE m > i
    <3>1. m - 1 \in 1..(Len(s) - 1) /\ old(m - 1) = m
      BY <1>1, <2>2
    <3> QED BY <3>1
  <2> QED BY <1>1, <2>1, <2>2
<1>8. \A k, m \in 1..(Len(s) - 1) : old(k) = old(m) => k = m
  BY <1>1
<1> HIDE DEF old
<1>9. Distinct(t)
  <2> SUFFICES ASSUME NEW k \in DOMAIN t, NEW m \in DOMAIN t, t[k] = t[m]
               PROVE  k = m
    BY DEF Distinct
  <2>1. old(k) = old(m)
    BY <1>4, <1>5, <1>6 DEF Distinct
  <2> QED BY <2>1, <1>5, <1>8
<1>10. Range(t) = Range(s) \ {s[i]}
  <2>1. ASSUME NEW k \in DOMAIN t PROVE t[k] \in Range(s) \ {s[i]}
    BY <1>4, <1>5, <1>6 DEF Range, Distinct
  <2>2. ASSUME NEW m \in DOMAIN s, s[m] # s[i] PROVE s[m] \in Range(t)
    <3>1. PICK k \in 1..(Len(s) - 1) : old(k) = m
      BY <1>7, <2>2
    <3> QED BY <3>1, <1>4, <1>5 DEF Range
  <2> QED BY <2>1, <2>2 DEF Range
<1> QED BY <1>4, <1>9, <1>10 DEF RemoveAt, a, b, t

\* What the server keeps of the history.
LEMMA NewestFacts ==
  ASSUME NEW S, NEW s \in Seq(S), NEW n \in Nat
  PROVE  /\ Newest(s, n) \in Seq(S)
         /\ Range(Newest(s, n)) \subseteq Range(s)
         /\ Distinct(s) => Distinct(Newest(s, n))
<1>1. CASE Len(s) <= n
  <2>1. Newest(s, n) = s
    BY <1>1 DEF Newest
  <2> QED BY <2>1
<1>2. CASE Len(s) > n
  <2> DEFINE m == Len(s) - n + 1
             t == SubSeq(s, m, Len(s))
  <2>1. m \in 1..(Len(s) + 1) /\ Len(s) \in 0..Len(s) /\ Newest(s, n) = t
    BY <1>2 DEF Newest
  <2>2. /\ t \in Seq(S)
        /\ \A i \in 1..Len(t) : m + i - 1 \in DOMAIN s /\ t[i] = s[m + i - 1]
    BY <2>1, SubSeqFacts
  <2>3. DOMAIN t = 1..Len(t) /\ Len(t) \in Nat
    BY <2>2
  <2>4. m \in Int
    BY <2>1
  <2> HIDE DEF m, t
  <2>5. Range(t) \subseteq Range(s)
    BY <2>2, <2>3 DEF Range
  <2>6. Distinct(s) => Distinct(t)
    <3> SUFFICES ASSUME Distinct(s), NEW i \in DOMAIN t, NEW k \in DOMAIN t, t[i] = t[k]
                 PROVE  i = k
      BY DEF Distinct
    <3>1. m + i - 1 = m + k - 1
      BY <2>2, <2>3 DEF Distinct
    <3> QED BY <3>1, <2>3, <2>4
  <2> QED BY <2>1, <2>2, <2>5, <2>6
<1> QED BY <1>1, <1>2

-----------------------------------------------------------------------------
(***************************************************************************)
(* The inductive invariant.  OnePlace alone is not inductive: one has to   *)
(* know that a handler which cancels holds a job that exists, that the     *)
(* worker has an active job from TakeJob to Archive, and what state that   *)
(* job can be in at each of its steps.                                     *)
(***************************************************************************)
HandlersReady ==
  \A c \in Clients :
    /\ handler[c] = "append" => todo[c] # <<>>
    /\ handler[c] = "cancel" => target[c] \in Jobs /\ state[target[c]] # "new"

WorkerReady ==
  /\ worker \in {"check", "asleep"} <=> active = None
  /\ worker \notin {"check", "asleep", "archive"} =>
       state[active] \in {"running", "cancelled"}
  /\ worker = "archive" => state[active] \in Terminal

IndInv == TypeOK /\ HandlersReady /\ WorkerReady /\ OnePlace

\* The active job is one that was created and has left the queue.
LEMMA ActiveIsKnown ==
  ASSUME IndInv, active # None
  PROVE  active \in Jobs /\ state[active] \in {"running"} \cup Terminal
BY DEF IndInv, TypeOK, WorkerReady, Terminal

\* Steps that leave the lists alone and change the states of jobs that left
\* the queue, if any, to final ones.
LEMMA QuietStep ==
  ASSUME TypeOK, OnePlace, UNCHANGED <<queue, history, active>>,
         \A j \in Jobs : (state'[j] = state[j]
           \/ (state[j] \notin {"new", "queued"} /\ state'[j] \in Terminal))
  PROVE  OnePlace'
<1>1. ASSUME NEW j \in Jobs
      PROVE  /\ state'[j] = "new" <=> state[j] = "new"
             /\ state'[j] = "queued" <=> state[j] = "queued"
             /\ state[j] \in Terminal => state'[j] \in Terminal
  BY DEF Terminal
<1>2. Range(queue)' = Range(queue) /\ Range(history)' = Range(history)
  OBVIOUS
<1>3. \A j \in Jobs : Archived(j)' <=> Archived(j)
  BY <1>1, <1>2 DEF Archived
<1>4. \A j \in Range(history) : Archived(j)'
  <2>1. Range(history) \subseteq Jobs
    BY DEF TypeOK, Range
  <2> QED BY <1>3, <2>1 DEF OnePlace
<1> QED BY <1>1, <1>2, <1>3, <1>4 DEF OnePlace

LEMMA InitInv == Init => IndInv
<1> SUFFICES ASSUME Init PROVE IndInv
  OBVIOUS
<1>1. TypeOK
  <2>1. <<>> \in Seq(Jobs) /\ <<>> \in Seq(Nat)
    OBVIOUS
  <2> QED BY <2>1 DEF Init, TypeOK, JobState
<1>2. Range(queue) = {} /\ Range(history) = {}
  BY DEF Init, Range
<1>3. OnePlace
  BY <1>2, JobServerAssumption DEF Init, OnePlace, Archived
<1> QED BY <1>1, <1>3 DEF Init, IndInv, HandlersReady, WorkerReady

LEMMA TypeInv == IndInv /\ [Next]_vars => TypeOK'
<1> SUFFICES ASSUME IndInv, [Next]_vars PROVE TypeOK'
  OBVIOUS
<1> USE DEF IndInv, TypeOK, JobState
<1>1. ASSUME NEW c \in Clients, RequestPlan(c) PROVE TypeOK'
  <2>1. PICK n \in 0..MaxPlan : Receive(c, [i \in 1..n |-> 1])
    BY <1>1 DEF RequestPlan
  <2>2. [i \in 1..n |-> 1] \in Seq(Nat)
    BY JobServerAssumption
  <2> QED BY <2>1, <2>2 DEF Receive, jobVars, workerVars
<1>2. ASSUME NEW c \in Clients, RequestJob(c) PROVE TypeOK'
  <2>1. PICK n \in 1..MaxCommands : Receive(c, <<n>>)
    BY <1>2 DEF RequestJob
  <2>2. <<n>> \in Seq(Nat)
    BY JobServerAssumption
  <2> QED BY <2>1, <2>2 DEF Receive, jobVars, workerVars
<1>3. ASSUME NEW c \in Clients, EnqueueJob(c) PROVE TypeOK'
  <2>1. todo[c] # <<>> /\ todo[c] \in Seq(Nat)
    BY <1>3 DEF EnqueueJob, HandlersReady
  <2>2. Head(todo[c]) \in Nat /\ Tail(todo[c]) \in Seq(Nat)
    BY <2>1
  <2>3. PICK j \in Unissued :
           /\ queue' = Append(queue, j)
           /\ state' = [state EXCEPT ![j] = "queued"]
           /\ commands' = [commands EXCEPT ![j] = Head(todo[c])]
           /\ plan' = [plan EXCEPT ![c] = Append(@, j)]
    BY <1>3 DEF EnqueueJob
  <2>4. j \in Jobs
    BY DEF Unissued
  <2>5. queue' \in Seq(Jobs) /\ state' \in [Jobs -> JobState \cup {"new"}]
    BY <2>3, <2>4
  <2>6. commands' \in [Jobs -> Nat] /\ plan' \in [Clients -> Seq(Jobs)]
    BY <2>2, <2>3, <2>4
  <2>7. todo' \in [Clients -> Seq(Nat)]
    BY <1>3, <2>2 DEF EnqueueJob
  <2>8. handler' \in [Clients -> {"idle", "append", "signal", "cancel"}]
    BY <1>3 DEF EnqueueJob
  <2> QED BY <1>3, <2>5, <2>6, <2>7, <2>8 DEF EnqueueJob, workerVars
<1>4. ASSUME NEW c \in Clients, Broadcast(c) PROVE TypeOK'
  BY <1>4 DEF Broadcast, jobVars
<1>5. ASSUME NEW c \in Clients, FindJob(c) PROVE TypeOK'
  <2>1. Range(queue) \cup Range(history) \cup ({active} \ {None}) \subseteq Jobs
    BY DEF Range
  <2> QED BY <1>5, <2>1 DEF FindJob, jobVars, workerVars
<1>6. ASSUME NEW c \in Clients, CancelJob(c) PROVE TypeOK'
  <2>1. target[c] \in Jobs
    BY <1>6 DEF CancelJob, HandlersReady
  <2>2. queue' \in Seq(Jobs) /\ history' \in Seq(Jobs)
    <3>1. CASE CancelQueued(target[c])
      <4>1. PICK i \in DOMAIN queue : queue' = RemoveAt(queue, i)
        BY <3>1 DEF CancelQueued
      <4>2. Distinct(queue)
        BY DEF OnePlace, Distinct
      <4> QED BY <2>1, <3>1, <4>1, <4>2, RemoveAtFacts DEF CancelQueued
    <3>2. CASE CancelRunning(target[c])
      BY <3>2 DEF CancelRunning
    <3>3. CASE CancelFinished(target[c])
      BY <3>3 DEF CancelFinished
    <3> QED BY <1>6, <3>1, <3>2, <3>3 DEF CancelJob
  <2>3. state' \in [Jobs -> JobState \cup {"new"}] /\ child' \in {"none", "alive", "signalled", "ok", "fail"}
    BY <1>6 DEF CancelJob, CancelQueued, CancelRunning, CancelFinished, Kill
  <2> QED BY <1>6, <2>2, <2>3 DEF CancelJob, workerVars
<1>7. CASE Sleep
  BY <1>7 DEF Sleep, jobVars, handlerVars
<1>8. CASE TakeJob
  <2>1. Head(queue) \in Jobs /\ Tail(queue) \in Seq(Jobs)
    BY <1>8 DEF TakeJob
  <2> QED BY <1>8, <2>1 DEF TakeJob, handlerVars
<1>9. CASE OpenLog
  BY <1>9 DEF OpenLog, handlerVars
<1>10. CASE Spawn
  BY <1>10 DEF Spawn, jobVars, handlerVars
<1>11. CASE RecordPid
  BY <1>11 DEF RecordPid, handlerVars
<1>12. CASE ChildExit
  BY <1>12 DEF ChildExit, jobVars, workerVars, handlerVars
<1>13. CASE Reap
  <2>1. active \in Jobs /\ passed[active] \in Nat
    BY <1>13 DEF Reap, WorkerReady
  <2>2. passed' \in [Jobs -> Nat]
    BY <1>13, <2>1 DEF Reap
  <2> QED BY <1>13, <2>2 DEF Reap, handlerVars
<1>14. CASE ClearPid
  BY <1>14 DEF ClearPid, handlerVars
<1>15. CASE Judge
  <2>1. CASE exit = "fail" /\ state[active] # "cancelled"
    BY <1>15, <2>1 DEF Judge, jobVars, handlerVars
  <2>2. CASE ~(exit = "fail" /\ state[active] # "cancelled")
    <3>1. worker' \in {"verdict", "spawn"} /\ nth' = nth + 1
      BY <1>15, <2>2 DEF Judge
    <3>2. UNCHANGED runErr /\ exit' = "ok"
      BY <1>15, <2>2, Zenon DEF Judge
    <3>3. UNCHANGED <<queue, history, active, jobVars, child, handlerVars>>
      BY <1>15 DEF Judge
    <3> QED BY <3>1, <3>2, <3>3 DEF jobVars, handlerVars
  <2> QED BY <2>1, <2>2
<1>16. CASE Verdict
  BY <1>16 DEF Verdict, jobVars, handlerVars
<1>17. CASE WriteState
  BY <1>17 DEF WriteState, handlerVars
<1>18. CASE Archive
  <2>1. active \in Jobs
    BY <1>18 DEF Archive, WorkerReady
  <2>2. Append(history, active) \in Seq(Jobs)
    BY <2>1
  <2>3. history' \in Seq(Jobs)
    BY <1>18, <2>2, NewestFacts, JobServerAssumption DEF Archive
  <2> QED BY <1>18, <2>3 DEF Archive, jobVars, handlerVars
<1>19. CASE UNCHANGED vars
  BY <1>19 DEF vars, jobVars, workerVars, handlerVars
<1> QED
  BY <1>1, <1>2, <1>3, <1>4, <1>5, <1>6, <1>7, <1>8, <1>9, <1>10, <1>11, <1>12,
     <1>13, <1>14, <1>15, <1>16, <1>17, <1>18, <1>19
  DEF Next, Worker, Handler

\* A job that exists keeps existing: no step takes a state back to "new".
LEMMA KnownStays ==
  ASSUME IndInv, [Next]_vars, NEW j \in Jobs, state[j] # "new"
  PROVE  state'[j] # "new"
<1> USE DEF IndInv, TypeOK
<1>1. ASSUME NEW c \in Clients, Handler(c) PROVE state'[j] # "new"
  BY <1>1 DEF Handler, RequestPlan, RequestJob, Receive, EnqueueJob, Broadcast,
              FindJob, CancelJob, CancelQueued, CancelRunning, CancelFinished, jobVars
<1>2. CASE Worker
  BY <1>2 DEF Worker, Sleep, TakeJob, OpenLog, Spawn, RecordPid, Reap, ClearPid,
              Judge, Verdict, WriteState, Archive, jobVars
<1>3. CASE ChildExit
  BY <1>3 DEF ChildExit, jobVars
<1>4. CASE UNCHANGED vars
  BY <1>4 DEF vars, jobVars
<1> QED BY <1>1, <1>2, <1>3, <1>4 DEF Next

LEMMA HandlersInv == IndInv /\ [Next]_vars => HandlersReady'
<1> SUFFICES ASSUME IndInv, [Next]_vars, NEW d \in Clients
             PROVE  /\ handler'[d] = "append" => todo'[d] # <<>>
                    /\ handler'[d] = "cancel" =>
                         target'[d] \in Jobs /\ state'[target'[d]] # "new"
  BY DEF HandlersReady
<1> USE DEF IndInv, TypeOK
<1>1. /\ handler[d] = "append" => todo[d] # <<>>
      /\ handler[d] = "cancel" => target[d] \in Jobs /\ state[target[d]] # "new"
  BY DEF HandlersReady
<1>2. handler[d] = "cancel" => state'[target[d]] # "new"
  BY <1>1, KnownStays
<1>3. ASSUME NEW c \in Clients, NEW sizes, Receive(c, sizes)
      PROVE  /\ handler'[d] = "append" => todo'[d] # <<>>
             /\ handler'[d] = "cancel" =>
                  target'[d] \in Jobs /\ state'[target'[d]] # "new"
  BY <1>1, <1>2, <1>3 DEF Receive
<1>4. ASSUME NEW c \in Clients, EnqueueJob(c)
      PROVE  /\ handler'[d] = "append" => todo'[d] # <<>>
             /\ handler'[d] = "cancel" =>
                  target'[d] \in Jobs /\ state'[target'[d]] # "new"
  BY <1>1, <1>2, <1>4 DEF EnqueueJob
<1>5. ASSUME NEW c \in Clients, Broadcast(c)
      PROVE  /\ handler'[d] = "append" => todo'[d] # <<>>
             /\ handler'[d] = "cancel" =>
                  target'[d] \in Jobs /\ state'[target'[d]] # "new"
  BY <1>1, <1>2, <1>5 DEF Broadcast
<1>6. ASSUME NEW c \in Clients, FindJob(c)
      PROVE  /\ handler'[d] = "append" => todo'[d] # <<>>
             /\ handler'[d] = "cancel" =>
                  target'[d] \in Jobs /\ state'[target'[d]] # "new"
  <2>1. PICK j \in Range(queue) \cup Range(history) \cup ({active} \ {None}) :
          target' = [target EXCEPT ![c] = j]
    BY <1>6 DEF FindJob
  <2>2. j \in Jobs /\ state[j] # "new"
    <3>1. Range(queue) \subseteq Jobs /\ Range(history) \subseteq Jobs
      BY DEF Range
    <3>2. CASE j \in Range(queue)
      BY <3>1, <3>2 DEF OnePlace
    <3>3. CASE j \in Range(history)
      BY <3>1, <3>3 DEF OnePlace, Archived
    <3>4. CASE j = active /\ active # None
      BY <3>4, ActiveIsKnown DEF Terminal
    <3> QED BY <2>1, <3>2, <3>3, <3>4
  <2>3. state'[j] # "new"
    BY <2>2, KnownStays
  <2> QED BY <1>1, <1>2, <1>6, <2>1, <2>2, <2>3 DEF FindJob
<1>7. ASSUME NEW c \in Clients, CancelJob(c)
      PROVE  /\ handler'[d] = "append" => todo'[d] # <<>>
             /\ handler'[d] = "cancel" =>
                  target'[d] \in Jobs /\ state'[target'[d]] # "new"
  BY <1>1, <1>2, <1>7 DEF CancelJob
<1>8. CASE UNCHANGED handlerVars
  BY <1>1, <1>2, <1>8 DEF handlerVars
<1>9. Worker \/ ChildExit \/ UNCHANGED vars => UNCHANGED handlerVars
  BY DEF Worker, Sleep, TakeJob, OpenLog, Spawn, RecordPid, Reap, ClearPid, Judge,
         Verdict, WriteState, Archive, ChildExit, vars
<1> QED BY <1>3, <1>4, <1>5, <1>6, <1>7, <1>8, <1>9
        DEF Next, Handler, RequestPlan, RequestJob

LEMMA WorkerInv == IndInv /\ [Next]_vars => WorkerReady'
<1> SUFFICES ASSUME IndInv, [Next]_vars PROVE WorkerReady'
  OBVIOUS
<1> USE DEF IndInv, TypeOK, WorkerReady, Terminal
<1>1. ASSUME NEW c \in Clients, NEW sizes, Receive(c, sizes) PROVE WorkerReady'
  BY <1>1 DEF Receive, jobVars, workerVars
<1>2. ASSUME NEW c \in Clients, EnqueueJob(c) PROVE WorkerReady'
  <2>1. PICK j \in Unissued : state' = [state EXCEPT ![j] = "queued"]
    BY <1>2 DEF EnqueueJob
  <2>2. active # None => active # j
    BY <2>1 DEF Unissued
  <2> QED BY <1>2, <2>1, <2>2 DEF EnqueueJob, Unissued, workerVars
<1>3. ASSUME NEW c \in Clients, Broadcast(c) PROVE WorkerReady'
  BY <1>3 DEF Broadcast, jobVars
<1>4. ASSUME NEW c \in Clients, FindJob(c) PROVE WorkerReady'
  BY <1>4 DEF FindJob, jobVars, workerVars
<1>5. ASSUME NEW c \in Clients, CancelJob(c) PROVE WorkerReady'
  <2>1. target[c] \in Jobs
    BY <1>5 DEF CancelJob, HandlersReady
  <2>2. state[target[c]] = "queued" => target[c] # active
    BY <2>1 DEF OnePlace
  <2>3. UNCHANGED <<active, workerVars>>
    BY <1>5 DEF CancelJob
  <2>4. \/ state' = [state EXCEPT ![target[c]] = "cancelled"]
             /\ state[target[c]] \in {"queued", "running"}
        \/ state' = state
    BY <1>5 DEF CancelJob, CancelQueued, CancelRunning, CancelFinished
  <2> QED BY <2>1, <2>2, <2>3, <2>4 DEF workerVars
<1>6. CASE TakeJob
  <2>1. Head(queue) \in Jobs
    BY <1>6 DEF TakeJob
  <2> QED BY <1>6, <2>1, JobServerAssumption DEF TakeJob
<1>7. CASE Sleep
  BY <1>7 DEF Sleep, jobVars
<1>8. CASE OpenLog
  BY <1>8 DEF OpenLog
<1>9. CASE Spawn
  BY <1>9 DEF Spawn, jobVars
<1>10. CASE RecordPid
  BY <1>10 DEF RecordPid
<1>11. CASE ChildExit
  BY <1>11 DEF ChildExit, jobVars, workerVars
<1>12. CASE Reap
  BY <1>12 DEF Reap
<1>13. CASE ClearPid
  BY <1>13 DEF ClearPid
<1>14. CASE Judge
  <2>1. worker' \in {"verdict", "spawn"} /\ UNCHANGED <<active, state>>
    BY <1>14 DEF Judge, jobVars
  <2> QED BY <1>14, <2>1 DEF Judge
<1>15. CASE Verdict
  BY <1>15 DEF Verdict, jobVars
<1>16. CASE WriteState
  BY <1>16 DEF WriteState
<1>17. CASE Archive
  BY <1>17 DEF Archive
<1>18. CASE UNCHANGED vars
  BY <1>18 DEF vars, jobVars, workerVars
<1> QED
  BY <1>1, <1>2, <1>3, <1>4, <1>5, <1>6, <1>7, <1>8, <1>9, <1>10, <1>11, <1>12,
     <1>13, <1>14, <1>15, <1>16, <1>17, <1>18
  DEF Next, Worker, Handler, RequestPlan, RequestJob

LEMMA OnePlaceInv == IndInv /\ [Next]_vars => OnePlace'
<1> SUFFICES ASSUME IndInv, [Next]_vars PROVE OnePlace'
  OBVIOUS
<1> DEFINE Quiet ==
      /\ UNCHANGED <<queue, history, active>>
      /\ \A j \in Jobs : (state'[j] = state[j]
           \/ (state[j] \notin {"new", "queued"} /\ state'[j] \in Terminal))
<1>0. Quiet => OnePlace'
  BY QuietStep DEF IndInv
<1>1. /\ queue \in Seq(Jobs) /\ history \in Seq(Jobs)
      /\ state \in [Jobs -> JobState \cup {"new"}]
      /\ Range(queue) \subseteq Jobs /\ Range(history) \subseteq Jobs
      /\ active \in Jobs \cup {None} /\ None \notin Jobs
  BY JobServerAssumption DEF IndInv, TypeOK, Range
<1>2. /\ \A j \in Jobs : state[j] = "queued" <=> j \in Range(queue)
      /\ Distinct(queue) /\ Distinct(history)
      /\ active \notin Range(queue) \cup Range(history)
      /\ \A j \in Jobs : Archived(j) => state[j] \in Terminal
      /\ \A j \in Range(history) : Archived(j)
  BY DEF IndInv, OnePlace, Distinct
<1>3. ASSUME NEW c \in Clients, EnqueueJob(c) PROVE OnePlace'
  <2>1. PICK j \in Unissued : /\ queue' = Append(queue, j)
                              /\ state' = [state EXCEPT ![j] = "queued"]
    BY <1>3 DEF EnqueueJob
  <2>2. UNCHANGED <<history, active>>
    BY <1>3 DEF EnqueueJob
  <2>3. j \in Jobs /\ state[j] = "new" /\ j \notin Range(queue)
    BY <1>2, <2>1 DEF Unissued
  <2>4. j # active /\ j \notin Range(history)
    BY <1>2, <2>3, ActiveIsKnown, <1>1 DEF Archived, Terminal
  <2>5. Range(queue') = Range(queue) \cup {j} /\ Distinct(queue')
    BY <1>1, <1>2, <2>1, <2>3, AppendFacts
  <2>6. \A k \in Jobs : Archived(k)' <=> Archived(k)
    BY <1>1, <2>1, <2>2, <2>3, <2>5 DEF Archived
  <2>7. \A k \in Jobs : Archived(k) => state'[k] = state[k]
    BY <1>1, <2>1, <2>3 DEF Archived
  <2>8. \A k \in Jobs : state'[k] = "queued" <=> k \in Range(queue')
    BY <1>1, <1>2, <2>1, <2>3, <2>5
  <2>9. Range(history') = Range(history) /\ Distinct(history')
    BY <1>2, <2>2
  <2> QED BY <1>1, <1>2, <2>2, <2>4, <2>5, <2>6, <2>7, <2>8, <2>9 DEF OnePlace, Distinct
<1>4. ASSUME NEW c \in Clients, CancelJob(c) PROVE OnePlace'
  <2> DEFINE j == target[c]
  <2>1. j \in Jobs /\ UNCHANGED active
    BY <1>4 DEF CancelJob, IndInv, HandlersReady
  <2>2. CASE CancelQueued(j)
    <3>1. PICK i \in DOMAIN queue : queue[i] = j /\ queue' = RemoveAt(queue, i)
      BY <2>2 DEF CancelQueued
    <3>2. /\ state[j] = "queued" /\ state' = [state EXCEPT ![j] = "cancelled"]
          /\ history' = Append(history, j)
      BY <2>2 DEF CancelQueued
    <3>3. Range(queue') = Range(queue) \ {j} /\ Distinct(queue')
      BY <1>1, <1>2, <3>1, RemoveAtFacts
    <3>4. j \in Range(queue) /\ j # active /\ j \notin Range(history)
      BY <1>2, <2>1, <3>2 DEF Archived
    <3>5. Range(history') = Range(history) \cup {j} /\ Distinct(history')
      BY <1>1, <1>2, <2>1, <3>2, <3>4, AppendFacts
    <3> HIDE DEF j
    <3>6. \A k \in Jobs : Archived(k)' <=> (Archived(k) \/ k = j)
      BY <1>1, <2>1, <3>2, <3>3, <3>4 DEF Archived
    <3>7. \A k \in Jobs : Archived(k) \/ k = j => state'[k] \in Terminal
      BY <1>1, <1>2, <2>1, <3>2 DEF Terminal
    <3>8. \A k \in Jobs : state'[k] = "queued" <=> k \in Range(queue')
      BY <1>1, <1>2, <2>1, <3>2, <3>3
    <3>9. \A k \in Range(history') : Archived(k)'
      BY <1>1, <1>2, <2>1, <3>5, <3>6
    <3> QED BY <1>2, <2>1, <3>3, <3>4, <3>5, <3>6, <3>7, <3>8, <3>9 DEF OnePlace, Distinct
  <2>3. CASE CancelRunning(j)
    BY <1>0, <1>1, <2>1, <2>3 DEF CancelRunning, Terminal
  <2>4. CASE CancelFinished(j)
    BY <1>0, <1>1, <2>1, <2>4 DEF CancelFinished
  <2> QED BY <1>4, <2>2, <2>3, <2>4 DEF CancelJob
<1>5. CASE TakeJob
  <2> DEFINE j == Head(queue)
  <2>1. /\ queue # <<>> /\ queue' = Tail(queue) /\ active' = j
        /\ state' = [state EXCEPT ![j] = "running"]
        /\ UNCHANGED history
    BY <1>5 DEF TakeJob
  <2>2. active = None
    BY <1>5 DEF TakeJob, IndInv, WorkerReady
  <2>3. /\ j \in Jobs /\ Range(queue) = Range(queue') \cup {j}
        /\ Distinct(queue') /\ j \notin Range(queue')
    BY <1>1, <1>2, <2>1, TailFacts
  <2> HIDE DEF j
  <2>4. state[j] = "queued" /\ j \notin Range(history)
    BY <1>2, <2>3 DEF Archived
  <2>5. \A k \in Jobs : Archived(k)' <=> Archived(k)
    BY <1>1, <2>1, <2>2, <2>3 DEF Archived
  <2>6. \A k \in Jobs : Archived(k) => state'[k] = state[k]
    BY <1>1, <2>1, <2>3 DEF Archived
  <2>7. \A k \in Jobs : state'[k] = "queued" <=> k \in Range(queue')
    BY <1>1, <1>2, <2>1, <2>3
  <2>8. Range(history') = Range(history) /\ Distinct(history')
    BY <1>2, <2>1
  <2> QED BY <1>1, <1>2, <2>1, <2>3, <2>4, <2>5, <2>6, <2>7, <2>8 DEF OnePlace, Distinct
<1>6. CASE Archive
  <2>1. /\ worker = "archive" /\ history' = Newest(Append(history, active), HistoryCap)
        /\ active' = None /\ UNCHANGED <<queue, state>>
    BY <1>6 DEF Archive, jobVars
  <2>2. active \in Jobs /\ state[active] \in Terminal
    BY <1>1, <2>1 DEF IndInv, WorkerReady
  <2>3. /\ Append(history, active) \in Seq(Jobs)
        /\ Range(Append(history, active)) = Range(history) \cup {active}
        /\ Distinct(Append(history, active))
    BY <1>1, <1>2, <2>2, AppendFacts
  <2>4. Range(history') \subseteq Range(history) \cup {active} /\ Distinct(history')
    BY <2>1, <2>3, NewestFacts, JobServerAssumption
  <2>5. \A k \in Jobs : Archived(k)' <=> (Archived(k) \/ k = active)
    BY <1>1, <1>2, <2>1, <2>2 DEF Archived, Terminal
  <2>6. \A k \in Range(history') : Archived(k)'
    BY <1>1, <1>2, <2>2, <2>4, <2>5
  <2>7. Range(queue') = Range(queue) /\ Distinct(queue')
    BY <1>2, <2>1
  <2>8. None \notin Range(queue') \cup Range(history')
    BY <1>1, <2>2, <2>4, <2>7
  <2> QED BY <1>1, <1>2, <2>1, <2>2, <2>4, <2>5, <2>6, <2>7, <2>8 DEF OnePlace, Distinct
<1>7. CASE OpenLog
  <2>1. active \in Jobs /\ state[active] \in {"running", "cancelled"}
    BY <1>1, <1>7 DEF OpenLog, IndInv, WorkerReady
  <2>2. UNCHANGED <<queue, history, active>> /\ state' \in {state, [state EXCEPT ![active] = "failed"]}
    BY <1>7 DEF OpenLog
  <2> QED BY <1>0, <1>1, <2>1, <2>2 DEF Terminal
<1>8. CASE WriteState
  <2>1. active \in Jobs /\ state[active] \in {"running", "cancelled"}
    BY <1>1, <1>8 DEF WriteState, IndInv, WorkerReady
  <2>2. UNCHANGED <<queue, history, active>>
    BY <1>8 DEF WriteState
  <2>3. \E v \in {"failed", "success"} : state' = [state EXCEPT ![active] = v]
    BY <1>8, Zenon DEF WriteState
  <2> QED BY <1>0, <1>1, <2>1, <2>2, <2>3 DEF Terminal
<1>9. UNCHANGED <<queue, history, active, state>> => OnePlace'
  BY <1>0
<1>10. ASSUME NEW c \in Clients, RequestPlan(c) \/ RequestJob(c) \/ Broadcast(c) \/ FindJob(c)
       PROVE  UNCHANGED <<queue, history, active, state>>
  BY <1>10 DEF RequestPlan, RequestJob, Receive, Broadcast, FindJob, jobVars
<1>11. ASSUME \/ Sleep \/ Spawn \/ RecordPid \/ Reap \/ ClearPid \/ Judge \/ Verdict
              \/ ChildExit \/ UNCHANGED vars
       PROVE  UNCHANGED <<queue, history, active, state>>
  BY <1>11 DEF Sleep, Spawn, RecordPid, Reap, ClearPid, Judge, Verdict, ChildExit,
               vars, jobVars
<1> QED
  BY <1>3, <1>4, <1>5, <1>6, <1>7, <1>8, <1>9, <1>10, <1>11 DEF Next, Worker, Handler

-----------------------------------------------------------------------------
LEMMA Inductive == Spec => []IndInv
<1>1. IndInv /\ [Next]_vars => IndInv'
  BY TypeInv, HandlersInv, WorkerInv, OnePlaceInv DEF IndInv
<1> QED BY InitInv, <1>1, PTL DEF Spec

(***************************************************************************)
(* The server's variables stay in their types: in particular a handler's   *)
(* cancel and the worker's unlocked writes only ever touch the state of a  *)
(* job that exists.                                                        *)
(***************************************************************************)
THEOREM TypeCorrect == Spec => []TypeOK
BY Inductive, PTL DEF IndInv

(***************************************************************************)
(* A job is in one place at a time, for every number of jobs, clients and  *)
(* recipes and every size of the history: no interleaving of enqueueJob,   *)
(* cancel and workerLoop loses a job, queues it twice or runs it again.    *)
(***************************************************************************)
THEOREM JobsInOnePlace == Spec => []OnePlace
BY Inductive, PTL DEF IndInv

-----------------------------------------------------------------------------
(***************************************************************************)
(* What a step does to the set of jobs that are over: only cancelling a    *)
(* queued job and Archive add to it, one job each, and no step changes the *)
(* state of a job in it.                                                   *)
(***************************************************************************)
Settled == {j \in Jobs : Archived(j)}

\* A step that touches neither list and no state but that of the active job.
LEMMA WorkerStep ==
  ASSUME IndInv, UNCHANGED <<queue, active>>,
         \A j \in Jobs : state'[j] = state[j] \/ j = active
                         \/ (state[j] = "running" /\ state'[j] = "cancelled")
  PROVE  Settled' = Settled /\ \A j \in Settled : state'[j] = state[j]
<1>1. \A j \in Jobs : Archived(j) => state[j] \in Terminal /\ j # active
  BY DEF IndInv, OnePlace, Archived
<1>2. \A j \in Jobs : Archived(j) => state'[j] = state[j]
  BY <1>1 DEF Terminal
<1>3. ASSUME NEW j \in Jobs PROVE Archived(j)' <=> Archived(j)
  <2>1. CASE Archived(j)
    BY <1>2, <2>1 DEF Archived
  <2>2. CASE ~Archived(j)
    BY <2>2 DEF Archived
  <2> QED BY <2>1, <2>2
<1> QED BY <1>2, <1>3 DEF Settled

LEMMA CancelQueuedStep ==
  ASSUME IndInv, NEW j \in Jobs, CancelQueued(j), UNCHANGED active
  PROVE  /\ \E i \in DOMAIN queue : queue[i] = j /\ queue' = RemoveAt(queue, i)
         /\ Settled' = Settled \cup {j}
         /\ \A k \in Settled : state'[k] = state[k]
<1>1. PICK i \in DOMAIN queue : queue[i] = j /\ queue' = RemoveAt(queue, i)
  BY DEF CancelQueued
<1>2. state[j] = "queued" /\ state' = [state EXCEPT ![j] = "cancelled"]
  BY DEF CancelQueued
<1>3. Range(queue') = Range(queue) \ {j}
  <2>1. queue \in Seq(Jobs) /\ Distinct(queue)
    BY DEF IndInv, TypeOK, OnePlace, Distinct
  <2> QED BY <1>1, <2>1, RemoveAtFacts
<1>4. state \in [Jobs -> JobState \cup {"new"}] /\ j \in Range(queue) /\ j # active
  BY <1>2 DEF IndInv, TypeOK, OnePlace
<1>5. \A k \in Jobs : Archived(k)' <=> (Archived(k) \/ k = j)
  BY <1>2, <1>3, <1>4 DEF Archived
<1> QED BY <1>1, <1>2, <1>4, <1>5 DEF Settled, Archived

LEMMA EnqueueStep ==
  ASSUME IndInv, NEW c \in Clients, EnqueueJob(c)
  PROVE  /\ \E j \in Jobs : state[j] = "new" /\ queue' = Append(queue, j)
         /\ UNCHANGED active
         /\ Settled' = Settled
         /\ \A k \in Settled : state'[k] = state[k]
<1>1. PICK j \in Unissued : /\ queue' = Append(queue, j)
                            /\ state' = [state EXCEPT ![j] = "queued"]
  BY DEF EnqueueJob
<1>2. j \in Jobs /\ state[j] = "new" /\ UNCHANGED active
  BY <1>1 DEF EnqueueJob, Unissued
<1>3. /\ Range(queue') = Range(queue) \cup {j}
      /\ state \in [Jobs -> JobState \cup {"new"}]
  BY <1>1, <1>2, AppendFacts DEF IndInv, TypeOK
<1>4. \A k \in Jobs : Archived(k)' <=> Archived(k)
  BY <1>1, <1>2, <1>3 DEF Archived
<1> QED BY <1>1, <1>2, <1>3, <1>4 DEF Settled, Archived

LEMMA TakeStep ==
  ASSUME IndInv, TakeJob
  PROVE  /\ active = None /\ queue # <<>>
         /\ active' = Head(queue) /\ queue' = Tail(queue)
         /\ Settled' = Settled
         /\ \A k \in Settled : state'[k] = state[k]
<1> DEFINE j == Head(queue)
<1>1. /\ queue # <<>> /\ queue' = Tail(queue) /\ active' = j /\ active = None
      /\ state' = [state EXCEPT ![j] = "running"]
  BY DEF TakeJob, IndInv, WorkerReady
<1>2. /\ j \in Jobs /\ Range(queue) = Range(queue') \cup {j}
      /\ state \in [Jobs -> JobState \cup {"new"}]
  BY <1>1, TailFacts DEF IndInv, TypeOK
<1>3. None \notin Jobs
  BY JobServerAssumption
<1>4. state[j] = "queued" /\ j \notin Range(queue')
  BY <1>1, <1>2, TailFacts DEF IndInv, TypeOK, OnePlace, Distinct
<1>5. active' = j /\ queue # <<>> /\ queue' = Tail(queue)
  BY <1>1
<1> HIDE DEF j
<1>6. \A k \in Jobs : Archived(k)' <=> Archived(k)
  BY <1>1, <1>2, <1>3, <1>4 DEF Archived
<1>7. \A k \in Jobs : Archived(k) => k # j
  BY <1>2 DEF Archived
<1> QED BY <1>1, <1>2, <1>5, <1>6, <1>7 DEF Settled, j

LEMMA ArchiveStep ==
  ASSUME IndInv, Archive
  PROVE  /\ active # None /\ active' = None /\ UNCHANGED queue
         /\ Settled' = Settled \cup {active}
         /\ \A k \in Settled : state'[k] = state[k]
<1>1. /\ active' = None /\ UNCHANGED <<queue, state>> /\ active \in Jobs
      /\ state[active] \in Terminal /\ active # None
  BY JobServerAssumption DEF Archive, jobVars, IndInv, WorkerReady, TypeOK
<1>2. active \notin Range(queue) /\ None \notin Jobs
  BY JobServerAssumption DEF IndInv, OnePlace
<1>3. \A k \in Jobs : Archived(k)' <=> (Archived(k) \/ k = active)
  BY <1>1, <1>2 DEF Archived, Terminal
<1> QED BY <1>1, <1>3 DEF Settled

\* Every other step is one of WorkerStep.
LEMMA OtherStep ==
  ASSUME IndInv, [Next]_vars,
         ~(\E c \in Clients : EnqueueJob(c)), ~TakeJob, ~Archive,
         ~(\E c \in Clients : CancelJob(c) /\ CancelQueued(target[c]))
  PROVE  /\ UNCHANGED <<queue, active>>
         /\ Settled' = Settled
         /\ \A k \in Settled : state'[k] = state[k]
<1> DEFINE Quiet == /\ UNCHANGED <<queue, active>>
                    /\ \A j \in Jobs : state'[j] = state[j] \/ j = active
                         \/ (state[j] = "running" /\ state'[j] = "cancelled")
<1>1. state \in [Jobs -> JobState \cup {"new"}]
  BY DEF IndInv, TypeOK
<1>2. ASSUME NEW c \in Clients, CancelJob(c) PROVE Quiet
  <2>1. target[c] \in Jobs /\ UNCHANGED active
    BY <1>2 DEF CancelJob, IndInv, HandlersReady
  <2>2. CancelRunning(target[c]) \/ CancelFinished(target[c])
    BY <1>2 DEF CancelJob
  <2> QED BY <1>1, <2>1, <2>2 DEF CancelRunning, CancelFinished
<1>3. ASSUME NEW c \in Clients, RequestPlan(c) \/ RequestJob(c) \/ Broadcast(c) \/ FindJob(c)
      PROVE  Quiet
  BY <1>3 DEF RequestPlan, RequestJob, Receive, Broadcast, FindJob, jobVars
<1>4. ASSUME \/ Sleep \/ Spawn \/ RecordPid \/ Reap \/ ClearPid \/ Judge \/ Verdict
             \/ ChildExit \/ UNCHANGED vars
      PROVE  Quiet
  BY <1>4 DEF Sleep, Spawn, RecordPid, Reap, ClearPid, Judge, Verdict, ChildExit,
              vars, jobVars
<1>5. ASSUME OpenLog PROVE Quiet
  BY <1>1, <1>5 DEF OpenLog
<1>6. ASSUME WriteState PROVE Quiet
  <2>1. UNCHANGED <<queue, active>>
    BY <1>6 DEF WriteState
  <2>2. PICK v : state' = [state EXCEPT ![active] = v]
    BY <1>6, Zenon DEF WriteState
  <2> QED BY <1>1, <2>1, <2>2
<1> HIDE DEF Quiet
<1>7. Quiet
  BY <1>2, <1>3, <1>4, <1>5, <1>6 DEF Next, Worker, Handler
<1> QED BY <1>7, WorkerStep DEF Quiet

LEMMA ArchivedStep ==
  IndInv /\ [Next]_vars => Settled \subseteq Settled' /\ \A k \in Settled : state'[k] = state[k]
<1>1. ASSUME IndInv, NEW c \in Clients, CancelJob(c), CancelQueued(target[c])
      PROVE  Settled \subseteq Settled' /\ \A k \in Settled : state'[k] = state[k]
  BY <1>1, CancelQueuedStep DEF CancelJob, IndInv, HandlersReady
<1> QED BY <1>1, EnqueueStep, TakeStep, ArchiveStep, OtherStep

(***************************************************************************)
(* A job that is over never changes state again and never comes back: a    *)
(* cancel that found the job while it was live and acts after its end      *)
(* (findJob and handleBuild take the mutex separately) has no effect.      *)
(***************************************************************************)
THEOREM OverIsFinal == Spec => ArchivedIsFinal
<1>1. IndInv /\ [Next]_vars =>
        [\A j \in Jobs : Archived(j) => state'[j] = state[j] /\ Archived(j)']_vars
  BY ArchivedStep DEF Settled
<1> QED BY Inductive, <1>1, PTL DEF Spec, ArchivedIsFinal

-----------------------------------------------------------------------------
(***************************************************************************)
(* The server implements the abstract queue: handlers that enqueue submit, *)
(* a cancel that finds its job in d.queue withdraws it, the worker serves  *)
(* and settles, and everything else (the child process, the unlocked       *)
(* writes, the look-ups, the condition variable) is invisible.             *)
(***************************************************************************)
THEOREM ImplementsSafeQueue == Spec => Abstract!SafeSpec
<1>1. Init => Abstract!Init
  BY DEF Init, Abstract!Init, Archived
<1>2. ASSUME IndInv, [Next]_vars PROVE [Abstract!Next]_(Abstract!vars)
  <2> USE DEF Settled
  <2>1. ASSUME NEW c \in Clients, EnqueueJob(c) PROVE Abstract!Next
    <3>1. PICK j \in Jobs : state[j] = "new" /\ queue' = Append(queue, j)
      BY <1>2, <2>1, EnqueueStep
    <3>2. j \notin Abstract!Known
      BY <1>2, <3>1, ActiveIsKnown, JobServerAssumption
      DEF IndInv, OnePlace, Archived, Abstract!Known, Terminal, Range, Abstract!Range
    <3>3. Abstract!Submit(j)
      BY <1>2, <2>1, <3>1, <3>2, EnqueueStep DEF Abstract!Submit
    <3> QED BY <3>3 DEF Abstract!Next
  <2>2. ASSUME NEW c \in Clients, CancelJob(c), CancelQueued(target[c])
        PROVE  Abstract!Next
    <3>1. target[c] \in Jobs /\ UNCHANGED active
      BY <1>2, <2>2 DEF CancelJob, IndInv, HandlersReady
    <3>2. PICK i \in DOMAIN queue : queue[i] = target[c] /\ queue' = RemoveAt(queue, i)
      BY <1>2, <2>2, <3>1, CancelQueuedStep
    <3>3. Abstract!Withdraw(i)
      BY <1>2, <2>2, <3>1, <3>2, CancelQueuedStep DEF Abstract!Withdraw, Abstract!RemoveAt, RemoveAt
    <3> QED BY <3>2, <3>3 DEF Abstract!Next
  <2>3. CASE TakeJob
    BY <1>2, <2>3, TakeStep DEF Abstract!Next, Abstract!Serve
  <2>4. CASE Archive
    BY <1>2, <2>4, ArchiveStep DEF Abstract!Next, Abstract!Settle
  <2>5. CASE /\ ~(\E c \in Clients : EnqueueJob(c)) /\ ~TakeJob /\ ~Archive
             /\ ~(\E c \in Clients : CancelJob(c) /\ CancelQueued(target[c]))
    BY <1>2, <2>5, OtherStep DEF Abstract!vars
  <2> QED BY <2>1, <2>2, <2>3, <2>4, <2>5
<1> QED BY Inductive, <1>1, <1>2, PTL DEF Spec, Abstract!SafeSpec

-----------------------------------------------------------------------------
(***************************************************************************)
(* The child process and the pids.                                         *)
(***************************************************************************)

\* There is a child from cmd.Start to cmd.Wait, and a pid from shortly after
\* to shortly after.
ChildInv ==
  /\ child # "none" => worker \in {"record", "wait"}
  /\ \A j \in Jobs : pid[j] => j = active /\ worker \in {"wait", "clear"}

LEMMA ChildStays == IndInv /\ ChildInv /\ [Next]_vars => ChildInv'
<1> SUFFICES ASSUME IndInv, ChildInv, [Next]_vars PROVE ChildInv'
  OBVIOUS
<1>1. pid \in [Jobs -> BOOLEAN]
  BY DEF IndInv, TypeOK
<1> USE DEF ChildInv
<1>2. ASSUME NEW c \in Clients, RequestPlan(c) \/ RequestJob(c) \/ EnqueueJob(c) \/ FindJob(c)
      PROVE  ChildInv'
  BY <1>2 DEF RequestPlan, RequestJob, Receive, EnqueueJob, FindJob, jobVars, workerVars
<1>3. ASSUME NEW c \in Clients, Broadcast(c) PROVE ChildInv'
  BY <1>3 DEF Broadcast, jobVars
<1>4. ASSUME NEW c \in Clients, CancelJob(c) PROVE ChildInv'
  <2>1. child' # "none" => child # "none"
    BY <1>4 DEF CancelJob, CancelQueued, CancelRunning, CancelFinished, Kill
  <2> QED BY <1>4, <2>1 DEF CancelJob, workerVars
<1>5. CASE Sleep \/ TakeJob \/ Judge \/ Verdict \/ Archive
  <2>1. worker \notin {"record", "wait", "clear"} /\ UNCHANGED <<child, pid>>
    BY <1>5 DEF Sleep, TakeJob, Judge, Verdict, Archive, jobVars
  <2> QED BY <2>1
<1>6. CASE OpenLog \/ WriteState
  <2>1. worker \notin {"record", "wait", "clear"} /\ UNCHANGED <<child, pid>>
    BY <1>6 DEF OpenLog, WriteState
  <2> QED BY <2>1
<1>7. CASE Spawn
  BY <1>7 DEF Spawn, jobVars
<1>8. CASE RecordPid
  BY <1>1, <1>8 DEF RecordPid
<1>9. CASE Reap
  <2>1. child' = "none" /\ worker' = "clear" /\ UNCHANGED <<active, pid>>
    BY <1>9 DEF Reap
  <2> QED BY <2>1
<1>10. CASE ClearPid
  BY <1>1, <1>10 DEF ClearPid
<1>11. CASE ChildExit \/ UNCHANGED vars
  BY <1>11 DEF ChildExit, vars, jobVars, workerVars
<1> QED
  BY <1>2, <1>3, <1>4, <1>5, <1>6, <1>7, <1>8, <1>9, <1>10, <1>11 DEF Next, Worker, Handler

LEMMA ChildInvariant == Spec => []ChildInv
<1>1. Init => ChildInv
  BY DEF Init, ChildInv
<1> QED BY <1>1, ChildStays, Inductive, PTL DEF Spec

(***************************************************************************)
(* At most one ignite process exists at a time, it is that of the active   *)
(* job, and a pid a cancel may send a signal to is that of the active job: *)
(* the commands share a build root and checksum.lock and rely on it.       *)
(***************************************************************************)
THEOREM ChildIsOfActive == Spec => []OneChild
<1>1. IndInv /\ ChildInv => OneChild
  BY DEF IndInv, WorkerReady, ChildInv, OneChild
<1> QED BY <1>1, ChildInvariant, Inductive, PTL

-----------------------------------------------------------------------------
(***************************************************************************)
(* The outcome of a job.                                                   *)
(***************************************************************************)

\* Every job consists of a command at least, and none has run before its turn.
Sized ==
  /\ \A c \in Clients : \A i \in DOMAIN todo[c] : todo[c][i] >= 1
  /\ \A j \in Jobs : state[j] # "new" => commands[j] >= 1
  /\ \A j \in Jobs : state[j] \in {"new", "queued"} => passed[j] = 0
  /\ worker \in {"check", "asleep", "open"} => nth = 0 /\ ~runErr
  /\ worker = "open" => passed[active] = 0

\* What the worker knows of the active job, as long as nobody cancels it; once
\* it is about to write the outcome, also after a cancel.
Passed(n) == passed[active] = n /\ nth < commands[active] /\ ~runErr
Known ==
  /\ state[active] = "running" =>
       /\ worker \in {"spawn", "record", "wait"} => Passed(nth)
       /\ worker \in {"clear", "judge"} => Passed(IF exit = "ok" THEN nth + 1 ELSE nth)
  /\ worker = "write" \/ (worker = "verdict" /\ state[active] = "running") =>
       IF runErr THEN passed[active] < commands[active]
                 ELSE passed[active] = commands[active]

OutcomeInv == Sized /\ Known /\ TrueOutcome

LEMMA SizedStays == IndInv /\ Sized /\ [Next]_vars => Sized'
<1> SUFFICES ASSUME IndInv, Sized, [Next]_vars PROVE Sized'
  OBVIOUS
<1>1. /\ state \in [Jobs -> JobState \cup {"new"}] /\ commands \in [Jobs -> Nat]
      /\ passed \in [Jobs -> Nat] /\ todo \in [Clients -> Seq(Nat)] /\ nth \in Nat
      /\ runErr \in BOOLEAN /\ queue \in Seq(Jobs) /\ None \notin Jobs
      /\ active \in Jobs \cup {None}
  BY JobServerAssumption DEF IndInv, TypeOK
<1> USE DEF Sized
<1>2. ASSUME NEW c \in Clients, RequestPlan(c) PROVE Sized'
  <2>1. PICK n \in 0..MaxPlan : Receive(c, [i \in 1..n |-> 1])
    BY <1>2 DEF RequestPlan
  <2> QED BY <1>1, <2>1 DEF Receive, jobVars, workerVars
<1>3. ASSUME NEW c \in Clients, RequestJob(c) PROVE Sized'
  <2>1. PICK n \in 1..MaxCommands : Receive(c, <<n>>)
    BY <1>3 DEF RequestJob
  <2> QED BY <1>1, <2>1 DEF Receive, jobVars, workerVars
<1>4. ASSUME NEW c \in Clients, EnqueueJob(c) PROVE Sized'
  <2>1. todo[c] \in Seq(Nat) /\ todo[c] # <<>>
    BY <1>1, <1>4 DEF EnqueueJob, IndInv, HandlersReady
  <2>2. Head(todo[c]) >= 1 /\ \A i \in DOMAIN Tail(todo[c]) : Tail(todo[c])[i] >= 1
    BY <2>1
  <2>3. PICK j \in Unissued : /\ state' = [state EXCEPT ![j] = "queued"]
                              /\ commands' = [commands EXCEPT ![j] = Head(todo[c])]
    BY <1>4 DEF EnqueueJob
  <2>4. /\ todo' = [todo EXCEPT ![c] = Tail(@)]
        /\ UNCHANGED <<active, passed, worker, nth, runErr>>
    BY <1>4 DEF EnqueueJob, workerVars
  <2>5. \A d \in Clients : \A i \in DOMAIN todo'[d] : todo'[d][i] >= 1
    BY <1>1, <2>2, <2>4
  <2> QED BY <1>1, <2>2, <2>3, <2>4, <2>5 DEF Unissued
<1>5. ASSUME NEW c \in Clients, Broadcast(c) \/ FindJob(c) PROVE Sized'
  BY <1>5 DEF Broadcast, FindJob, jobVars, workerVars
<1>6. ASSUME NEW c \in Clients, CancelJob(c) PROVE Sized'
  <2>1. target[c] \in Jobs
    BY <1>6 DEF CancelJob, IndInv, HandlersReady
  <2>2. \/ UNCHANGED state
        \/ state[target[c]] # "new" /\ state' = [state EXCEPT ![target[c]] = "cancelled"]
    BY <1>6 DEF CancelJob, CancelQueued, CancelRunning, CancelFinished
  <2>3. UNCHANGED <<active, commands, passed, worker, nth, runErr, todo>>
    BY <1>6 DEF CancelJob, workerVars
  <2> QED BY <1>1, <2>1, <2>2, <2>3
<1>7. CASE TakeJob
  <2> DEFINE h == Head(queue)
  <2>1. /\ queue # <<>> /\ active' = h /\ worker' = "open" /\ worker = "check"
        /\ state' = [state EXCEPT ![h] = "running"]
        /\ UNCHANGED <<commands, passed, nth, runErr, todo>>
    BY <1>7 DEF TakeJob, handlerVars
  <2>2. h \in Jobs /\ h \in Range(queue)
    BY <1>1, <2>1, TailFacts
  <2>3. state[h] = "queued"
    BY <2>2 DEF IndInv, OnePlace
  <2> HIDE DEF h
  <2> QED BY <1>1, <2>1, <2>2, <2>3
<1>8. CASE OpenLog \/ WriteState
  <2>1. /\ \E v \in Terminal : state' = state \/ state' = [state EXCEPT ![active] = v]
        /\ worker' \in {"spawn", "archive"} /\ active \in Jobs
        /\ state[active] \notin {"new", "queued"}
        /\ UNCHANGED <<active, commands, passed, nth, runErr, todo>>
    BY <1>8, Zenon DEF OpenLog, WriteState, handlerVars, Terminal, IndInv, TypeOK, WorkerReady
  <2> QED BY <1>1, <2>1 DEF Terminal
<1>9. CASE Reap
  <2>1. /\ active \in Jobs /\ state[active] \notin {"new", "queued"}
        /\ \E n : passed' = [passed EXCEPT ![active] = n]
        /\ worker' = "clear" /\ UNCHANGED <<active, state, commands, nth, runErr, todo>>
    BY <1>1, <1>9 DEF Reap, IndInv, WorkerReady, handlerVars
  <2> QED BY <1>1, <2>1
<1>10. CASE Spawn \/ RecordPid \/ ClearPid \/ Judge \/ Verdict
  <2>1. worker' \notin {"check", "asleep", "open"} /\ UNCHANGED <<state, commands, passed, todo>>
    BY <1>10 DEF Spawn, RecordPid, ClearPid, Judge, Verdict, jobVars, handlerVars
  <2> QED BY <2>1
<1>11. CASE Archive
  BY <1>11 DEF Archive, jobVars, handlerVars
<1>12. CASE Sleep \/ ChildExit \/ UNCHANGED vars
  BY <1>12 DEF Sleep, ChildExit, vars, jobVars, workerVars, handlerVars
<1> QED
  BY <1>2, <1>3, <1>4, <1>5, <1>6, <1>7, <1>8, <1>9, <1>10, <1>11, <1>12
  DEF Next, Worker, Handler

\* No step but those of the worker says how a command ended, and no step but
\* those on the active job touches what is known of it.
LEMMA HandlerKeeps ==
  ASSUME IndInv, Sized, NEW c \in Clients, Handler(c)
  PROVE  /\ UNCHANGED <<active, passed, worker, exit, nth, runErr>> \/ Broadcast(c)
         /\ \A j \in Jobs : state[j] # "new" => commands'[j] = commands[j]
         /\ \A j \in Jobs :
              \/ state'[j] = state[j]
              \/ state[j] = "new" /\ state'[j] = "queued"
              \/ state[j] \in {"queued", "running"} /\ state'[j] = "cancelled"
<1>1. state \in [Jobs -> JobState \cup {"new"}] /\ commands \in [Jobs -> Nat]
  BY DEF IndInv, TypeOK
<1>2. CASE RequestPlan(c) \/ RequestJob(c) \/ Broadcast(c) \/ FindJob(c)
  BY <1>2 DEF RequestPlan, RequestJob, Receive, Broadcast, FindJob, jobVars, workerVars
<1>3. CASE EnqueueJob(c)
  BY <1>1, <1>3 DEF EnqueueJob, Unissued, workerVars
<1>4. CASE CancelJob(c)
  BY <1>1, <1>4 DEF CancelJob, CancelQueued, CancelRunning, CancelFinished, workerVars
<1> QED BY <1>2, <1>3, <1>4 DEF Handler

LEMMA HandlerKnown ==
  ASSUME IndInv, OutcomeInv, NEW c \in Clients, Handler(c)
  PROVE  Known' /\ TrueOutcome'
<1>1. worker' = worker \/ (worker = "asleep" /\ worker' = "check")
  BY HandlerKeeps DEF Broadcast, OutcomeInv
<1>2. UNCHANGED <<active, passed, exit, nth, runErr>>
  BY HandlerKeeps DEF Broadcast, jobVars, OutcomeInv
<1>3. /\ \A j \in Jobs : state[j] # "new" => commands'[j] = commands[j]
      /\ \A j \in Jobs : state'[j] = state[j] \/ state'[j] \in {"queued", "cancelled"}
      /\ \A j \in Jobs : state'[j] = "running" => state[j] = "running"
  BY HandlerKeeps DEF OutcomeInv
<1>4. TrueOutcome'
  BY <1>2, <1>3 DEF OutcomeInv, TrueOutcome
<1>5. worker \notin {"check", "asleep"} => active \in Jobs /\ state[active] # "new"
  BY DEF IndInv, TypeOK, WorkerReady, Terminal
<1>6. Known'
  BY <1>1, <1>2, <1>3, <1>5 DEF OutcomeInv, Known, Passed
<1> QED BY <1>4, <1>6

LEMMA KnownStaysTrue == IndInv /\ OutcomeInv /\ [Next]_vars => Known' /\ TrueOutcome'
<1> SUFFICES ASSUME IndInv, OutcomeInv, [Next]_vars PROVE Known' /\ TrueOutcome'
  OBVIOUS
<1>1. /\ state \in [Jobs -> JobState \cup {"new"}] /\ commands \in [Jobs -> Nat]
      /\ passed \in [Jobs -> Nat] /\ nth \in Nat
      /\ runErr \in BOOLEAN /\ queue \in Seq(Jobs) /\ exit \in {"ok", "fail"}
      /\ active \in Jobs \cup {None} /\ None \notin Jobs
  BY JobServerAssumption DEF IndInv, TypeOK
<1>2. /\ worker \notin {"check", "asleep"} => active \in Jobs
      /\ worker \notin {"check", "asleep", "archive"} => state[active] \in {"running", "cancelled"}
      /\ worker \in {"check", "asleep"} => active = None
  BY <1>1 DEF IndInv, WorkerReady
<1>3. \A j \in Jobs : state[j] # "new" => commands[j] >= 1
  BY DEF OutcomeInv, Sized
<1> USE DEF OutcomeInv, Known, Passed
<1>4. CASE Sleep \/ ChildExit \/ UNCHANGED vars
  <2>1. /\ UNCHANGED <<active, state, commands, passed, exit, nth, runErr>>
        /\ UNCHANGED worker \/ worker' = "asleep"
    BY <1>4 DEF Sleep, ChildExit, vars, jobVars, workerVars
  <2> QED BY <2>1 DEF TrueOutcome
<1>5. CASE TakeJob
  <2> DEFINE h == Head(queue)
  <2>1. /\ queue # <<>> /\ active' = h /\ worker' = "open"
        /\ state' = [state EXCEPT ![h] = "running"]
        /\ UNCHANGED <<commands, passed, nth, runErr>>
    BY <1>5 DEF TakeJob
  <2>2. h \in Jobs
    BY <1>1, <2>1, TailFacts
  <2> HIDE DEF h
  <2> QED BY <1>1, <2>1, <2>2 DEF TrueOutcome
<1>6. CASE OpenLog
  <2>1. passed[active] = 0 /\ nth = 0 /\ ~runErr /\ commands[active] >= 1 /\ active \in Jobs
    BY <1>2, <1>3, <1>6 DEF OpenLog, Sized
  <2>2. UNCHANGED <<active, commands, passed, nth, runErr>>
    BY <1>6 DEF OpenLog
  <2>3. CASE worker' = "spawn" /\ UNCHANGED state
    BY <1>1, <2>1, <2>2, <2>3 DEF TrueOutcome
  <2>4. CASE worker' = "archive" /\ state' = [state EXCEPT ![active] = "failed"]
    BY <1>1, <2>1, <2>2, <2>4 DEF TrueOutcome
  <2> QED BY <1>6, <2>3, <2>4 DEF OpenLog
<1>7. CASE Spawn
  <2>1. worker = "spawn" /\ UNCHANGED <<active, state, commands, passed, nth>>
    BY <1>7 DEF Spawn, jobVars
  <2>2. (worker' = "record" /\ UNCHANGED runErr) \/ (worker' = "verdict" /\ runErr' = TRUE)
    BY <1>7, Zenon DEF Spawn
  <2> QED BY <1>1, <1>2, <2>1, <2>2 DEF TrueOutcome
<1>8. CASE RecordPid \/ ClearPid
  <2>1. /\ UNCHANGED <<active, state, commands, passed, exit, nth, runErr>>
        /\ (worker = "record" /\ worker' = "wait") \/ (worker = "clear" /\ worker' = "judge")
    BY <1>8 DEF RecordPid, ClearPid
  <2> QED BY <2>1 DEF TrueOutcome
<1>9. CASE Reap
  <2>1. /\ worker = "wait" /\ worker' = "clear" /\ exit' \in {"ok", "fail"}
        /\ UNCHANGED <<active, state, commands, nth, runErr>>
        /\ passed' = [passed EXCEPT ![active] = IF exit' = "ok" THEN @ + 1 ELSE @]
    BY <1>9 DEF Reap
  <2>2. active \in Jobs /\ state[active] \in {"running", "cancelled"}
    BY <1>2, <2>1
  <2>3. TrueOutcome'
    BY <1>1, <2>1, <2>2 DEF TrueOutcome
  <2>4. state[active] = "running" =>
          passed[active] = nth /\ nth < commands[active] /\ ~runErr
    BY <2>1
  <2>5. passed'[active] = IF exit' = "ok" THEN passed[active] + 1 ELSE passed[active]
    BY <1>1, <2>1, <2>2
  <2>6. Known'
    BY <2>1, <2>4, <2>5
  <2> QED BY <2>3, <2>6
<1>10. CASE Judge
  <2>1. /\ worker = "judge" /\ exit' = "ok"
        /\ UNCHANGED <<active, state, commands, passed>>
    BY <1>10 DEF Judge, jobVars
  <2>2. active \in Jobs /\ state[active] \in {"running", "cancelled"}
    BY <1>2, <2>1
  <2>3. state[active] = "running" =>
          /\ passed[active] = IF exit = "ok" THEN nth + 1 ELSE nth
          /\ nth < commands[active] /\ ~runErr
    BY <2>1
  <2>4. CASE exit = "fail" /\ state[active] # "cancelled"
    <3>1. worker' = "verdict" /\ runErr'
      BY <1>10, <2>4 DEF Judge
    <3> QED BY <2>1, <2>2, <2>3, <2>4, <3>1 DEF TrueOutcome
  <2>5. CASE ~(exit = "fail" /\ state[active] # "cancelled")
    <3>1. /\ nth' = nth + 1 /\ UNCHANGED runErr
          /\ worker' = IF nth + 1 < commands[active] THEN "spawn" ELSE "verdict"
      BY <1>10, <2>5, Zenon DEF Judge
    <3>2. commands[active] \in Nat
      BY <1>1, <2>2
    <3>3. state[active] = "running" => exit = "ok"
      BY <1>1, <2>5
    <3> QED BY <1>1, <2>1, <2>2, <2>3, <3>1, <3>2, <3>3 DEF TrueOutcome
  <2> QED BY <2>4, <2>5
<1>11. CASE Verdict
  <2>1. /\ UNCHANGED <<active, state, commands, passed, nth, runErr>> /\ worker = "verdict"
        /\ worker' = IF state[active] = "cancelled" THEN "archive" ELSE "write"
    BY <1>11 DEF Verdict, jobVars
  <2> QED BY <1>2, <2>1 DEF TrueOutcome
<1>12. CASE WriteState
  <2>1. /\ UNCHANGED <<active, commands, passed, runErr>> /\ worker = "write"
        /\ worker' = "archive"
    BY <1>12 DEF WriteState
  <2>2. state' = [state EXCEPT ![active] = IF runErr THEN "failed" ELSE "success"]
    BY <1>12, Zenon DEF WriteState
  <2>3. active \in Jobs /\ commands[active] \in Nat /\ passed[active] \in Nat
    BY <1>1, <1>2, <2>1
  <2>4. /\ runErr => passed[active] < commands[active]
        /\ ~runErr => passed[active] = commands[active]
    BY <2>1
  <2> QED BY <1>1, <2>1, <2>2, <2>3, <2>4 DEF TrueOutcome
<1>13. CASE Archive
  <2>1. UNCHANGED <<state, commands, passed>> /\ worker' = "check"
    BY <1>13 DEF Archive, jobVars
  <2>2. active' \notin Jobs
    BY <1>1, <1>13 DEF Archive
  <2> QED BY <2>1 DEF TrueOutcome
<1> QED
  BY <1>4, <1>5, <1>6, <1>7, <1>8, <1>9, <1>10, <1>11, <1>12, <1>13, HandlerKnown
  DEF Next, Worker

LEMMA OutcomeInvariant == Spec => []OutcomeInv
<1>1. Init => OutcomeInv
  <2> SUFFICES ASSUME Init PROVE OutcomeInv
    OBVIOUS
  <2>1. \A c \in Clients : DOMAIN todo[c] = {}
    BY DEF Init
  <2> QED BY <2>1 DEF Init, OutcomeInv, Sized, Known, TrueOutcome
<1>2. IndInv /\ OutcomeInv /\ [Next]_vars => OutcomeInv'
  BY SizedStays, KnownStaysTrue DEF OutcomeInv
<1> QED BY <1>1, <1>2, Inductive, PTL DEF Spec

(***************************************************************************)
(* The outcome shown of a job is the truth about its commands, although a  *)
(* cancel may fall between any two statements of the worker, which reads   *)
(* and writes job.State without the mutex.                                 *)
(***************************************************************************)
THEOREM OutcomeIsTrue == Spec => []TrueOutcome
BY OutcomeInvariant, PTL DEF OutcomeInv

-----------------------------------------------------------------------------
(***************************************************************************)
(* The order of a plan.                                                    *)
(***************************************************************************)

\* In s, x does not come after y.
NotAfter(s, x, y) == \A m, n \in DOMAIN s : s[m] = x /\ s[n] = y => m < n

LEMMA TailKeepsOrder ==
  ASSUME NEW S, NEW s \in Seq(S), s # <<>>, NEW x, NEW y, NotAfter(s, x, y)
  PROVE  NotAfter(Tail(s), x, y)
<1>1. \A m \in DOMAIN Tail(s) : m \in Nat /\ m + 1 \in DOMAIN s /\ Tail(s)[m] = s[m + 1]
  OBVIOUS
<1> SUFFICES ASSUME NEW m \in DOMAIN Tail(s), NEW n \in DOMAIN Tail(s),
                    Tail(s)[m] = x, Tail(s)[n] = y
             PROVE  m < n
  BY DEF NotAfter
<1>2. m + 1 < n + 1
  BY <1>1 DEF NotAfter
<1> QED BY <1>1, <1>2

LEMMA RemoveKeepsOrder ==
  ASSUME NEW S, NEW s \in Seq(S), NEW i \in DOMAIN s, NEW x, NEW y, NotAfter(s, x, y)
  PROVE  NotAfter(RemoveAt(s, i), x, y)
<1> DEFINE t == RemoveAt(s, i)
           old(k) == IF k < i THEN k ELSE k + 1
<1>1. Len(s) \in Nat /\ i \in 1 .. Len(s) /\ DOMAIN s = 1 .. Len(s)
  OBVIOUS
<1>2. \A k \in DOMAIN t : k \in Nat /\ old(k) \in DOMAIN s /\ t[k] = s[old(k)]
  <2>1. /\ SubSeq(s, 1, i - 1) \in Seq(S) /\ Len(SubSeq(s, 1, i - 1)) = i - 1
        /\ \A k \in 1 .. i - 1 : SubSeq(s, 1, i - 1)[k] = s[k]
    <3>1. 1 \in 1 .. Len(s) + 1 /\ i - 1 \in 0 .. Len(s)
      BY <1>1
    <3>2. /\ SubSeq(s, 1, i - 1) \in Seq(S)
          /\ Len(SubSeq(s, 1, i - 1)) = IF 1 <= i - 1 THEN (i - 1) - 1 + 1 ELSE 0
          /\ \A k \in 1 .. Len(SubSeq(s, 1, i - 1)) : SubSeq(s, 1, i - 1)[k] = s[1 + k - 1]
      BY <3>1, SubSeqFacts
    <3>3. \A k \in 1 .. i - 1 : 1 + k - 1 = k
      OBVIOUS
    <3>4. Len(SubSeq(s, 1, i - 1)) = i - 1
      BY <1>1, <3>2
    <3> QED BY <3>2, <3>3, <3>4
  <2>2. /\ SubSeq(s, i + 1, Len(s)) \in Seq(S) /\ Len(SubSeq(s, i + 1, Len(s))) = Len(s) - i
        /\ \A k \in 1 .. Len(s) - i : SubSeq(s, i + 1, Len(s))[k] = s[i + k]
    <3>1. i + 1 \in 1 .. Len(s) + 1 /\ Len(s) \in 0 .. Len(s)
      BY <1>1
    <3>2. /\ SubSeq(s, i + 1, Len(s)) \in Seq(S)
          /\ Len(SubSeq(s, i + 1, Len(s))) =
               IF i + 1 <= Len(s) THEN Len(s) - (i + 1) + 1 ELSE 0
          /\ \A k \in 1 .. Len(SubSeq(s, i + 1, Len(s))) :
               SubSeq(s, i + 1, Len(s))[k] = s[(i + 1) + k - 1]
      BY <3>1, SubSeqFacts
    <3>3. \A k \in 1 .. Len(s) - i : (i + 1) + k - 1 = i + k
      BY <1>1
    <3>4. Len(SubSeq(s, i + 1, Len(s))) = Len(s) - i
      BY <1>1, <3>2
    <3> QED BY <3>2, <3>3, <3>4
  <2> DEFINE a == SubSeq(s, 1, i - 1)
             b == SubSeq(s, i + 1, Len(s))
  <2> HIDE DEF a, b
  <2>3. /\ a \o b \in Seq(S) /\ Len(a \o b) = Len(a) + Len(b)
        /\ \A k \in 1 .. Len(a) + Len(b) :
             (a \o b)[k] = IF k <= Len(a) THEN a[k] ELSE b[k - Len(a)]
    BY <2>1, <2>2, ConcatProperties DEF a, b
  <2>4. t = a \o b
    BY DEF RemoveAt, a, b
  <2>5. Len(a) = i - 1 /\ Len(b) = Len(s) - i
    BY <2>1, <2>2 DEF a, b
  <2> HIDE DEF t
  <2>6. DOMAIN t = 1 .. Len(s) - 1
    <3>1. Len(a) + Len(b) = Len(s) - 1
      BY <1>1, <2>5
    <3>2. DOMAIN (a \o b) = 1 .. Len(a \o b)
      BY <2>3
    <3> QED BY <2>3, <2>4, <3>1, <3>2
  <2>7. ASSUME NEW k \in DOMAIN t
        PROVE  k \in Nat /\ old(k) \in DOMAIN s /\ t[k] = s[old(k)]
    <3>1. CASE k < i
      <4>1. k \in 1 .. i - 1 /\ a[k] = s[k]
        BY <1>1, <2>1, <2>6, <3>1 DEF a
      <4>2. k \in 1 .. Len(a) + Len(b) /\ k <= Len(a)
        BY <1>1, <2>5, <2>6, <3>1
      <4>3. t[k] = a[k]
        BY <2>3, <2>4, <4>2
      <4> QED BY <1>1, <2>6, <3>1, <4>1, <4>3
    <3>2. CASE ~(k < i)
      <4>1. k - (i - 1) \in 1 .. Len(s) - i /\ i + (k - (i - 1)) = k + 1
        BY <1>1, <2>6, <3>2
      <4>2. b[k - (i - 1)] = s[k + 1]
        BY <2>2, <4>1 DEF b
      <4>3. k \in 1 .. Len(a) + Len(b) /\ ~(k <= Len(a)) /\ k - Len(a) = k - (i - 1)
        BY <1>1, <2>5, <2>6, <3>2
      <4>4. t[k] = b[k - (i - 1)]
        BY <2>3, <2>4, <4>3
      <4> QED BY <1>1, <2>6, <3>2, <4>2, <4>4
    <3> QED BY <3>1, <3>2
  <2> QED BY <2>7
<1> HIDE DEF t
<1> SUFFICES ASSUME NEW m \in DOMAIN t, NEW n \in DOMAIN t, t[m] = x, t[n] = y
             PROVE  m < n
  BY DEF NotAfter, t
<1>3. old(m) < old(n)
  BY <1>2 DEF NotAfter
<1> QED BY <1>1, <1>2, <1>3

\* A job the worker has taken: it is running, or has run.
Taken(j) == j = active \/ state[j] \in {"running", "success", "failed"}

LEMMA TakenBy ==
  ASSUME IndInv, [Next]_vars, NEW j \in Jobs, Taken(j)'
  PROVE  Taken(j) \/ (TakeJob /\ j = Head(queue))
<1>1. /\ state \in [Jobs -> JobState \cup {"new"}] /\ active \in Jobs \cup {None}
      /\ None \notin Jobs
  BY JobServerAssumption DEF IndInv, TypeOK
<1>2. ASSUME NEW c \in Clients, Handler(c) PROVE Taken(j)
  <2>1. UNCHANGED active /\ (state'[j] = state[j] \/ state'[j] \in {"queued", "cancelled"})
    <3>1. CASE RequestPlan(c) \/ RequestJob(c) \/ Broadcast(c) \/ FindJob(c)
      BY <3>1 DEF RequestPlan, RequestJob, Receive, Broadcast, FindJob, jobVars
    <3>2. CASE EnqueueJob(c)
      BY <1>1, <3>2 DEF EnqueueJob
    <3>3. CASE CancelJob(c)
      BY <1>1, <3>3 DEF CancelJob, CancelQueued, CancelRunning, CancelFinished
    <3> QED BY <1>2, <3>1, <3>2, <3>3 DEF Handler
  <2> QED BY <2>1 DEF Taken
<1>3. CASE TakeJob
  BY <1>1, <1>3 DEF TakeJob, Taken
<1>4. CASE Archive
  BY <1>1, <1>4 DEF Archive, Taken, jobVars
<1>5. CASE OpenLog \/ WriteState
  <2>1. UNCHANGED active /\ \E v : state' = state \/ state' = [state EXCEPT ![active] = v]
    BY <1>5, Zenon DEF OpenLog, WriteState
  <2> QED BY <1>1, <2>1 DEF Taken
<1>6. CASE \/ Sleep \/ Spawn \/ RecordPid \/ Reap \/ ClearPid \/ Judge \/ Verdict
           \/ ChildExit \/ UNCHANGED vars
  <2>1. UNCHANGED <<active, state>>
    BY <1>6 DEF Sleep, Spawn, RecordPid, Reap, ClearPid, Judge, Verdict, ChildExit,
                vars, jobVars
  <2> QED BY <2>1 DEF Taken
<1> QED BY <1>2, <1>3, <1>4, <1>5, <1>6 DEF Next, Worker

\* x waits before y, and is over when y is taken.
InOrder(x, y) == NotAfter(queue, x, y) /\ (Taken(y) => Archived(x))

LEMMA OrderStays ==
  ASSUME IndInv, [Next]_vars, NEW x \in Jobs, NEW y \in Jobs,
         state[x] # "new", state[y] # "new", InOrder(x, y)
  PROVE  InOrder(x, y)'
<1>1. /\ queue \in Seq(Jobs) /\ None \notin Jobs
      /\ state \in [Jobs -> JobState \cup {"new"}]
  BY JobServerAssumption DEF IndInv, TypeOK
<1>2. Archived(x) => Archived(x)'
  BY ArchivedStep DEF Settled
<1>3. (Taken(y) => Archived(x)) /\ NotAfter(queue, x, y)
  BY DEF InOrder
<1>4. Taken(y)' => Archived(x)'
  <2>1. CASE TakeJob /\ y = Head(queue)
    <3>1. active = None /\ queue # <<>>
      BY <2>1, TakeStep
    <3>2. 1 \in DOMAIN queue /\ queue[1] = y /\ \A m \in DOMAIN queue : ~(m < 1)
      BY <1>1, <2>1, <3>1
    <3>3. x \notin Range(queue)
      BY <1>3, <3>2 DEF NotAfter, Range
    <3> QED BY <1>1, <1>2, <3>1, <3>3 DEF Archived
  <2>2. CASE ~(TakeJob /\ y = Head(queue))
    BY <1>2, <1>3, <2>2, TakenBy
  <2> QED BY <2>1, <2>2
<1>5. NotAfter(queue', x, y)
  <2>1. ASSUME NEW c \in Clients, EnqueueJob(c) PROVE NotAfter(queue', x, y)
    <3>1. PICK j \in Jobs : state[j] = "new" /\ queue' = Append(queue, j)
      BY <2>1, EnqueueStep
    <3>2. j # x /\ j # y
      BY <3>1
    <3>3. /\ \A m \in DOMAIN queue' : m \in DOMAIN queue \/ queue'[m] = j
          /\ \A m \in DOMAIN queue : queue'[m] = queue[m]
      BY <1>1, <3>1
    <3> QED BY <1>3, <3>2, <3>3 DEF NotAfter
  <2>2. ASSUME NEW c \in Clients, CancelJob(c), CancelQueued(target[c])
        PROVE  NotAfter(queue', x, y)
    <3>1. PICK i \in DOMAIN queue : queue' = RemoveAt(queue, i)
      BY <2>2 DEF CancelQueued
    <3> QED BY <1>1, <1>3, <3>1, RemoveKeepsOrder
  <2>3. CASE TakeJob
    <3>1. queue # <<>> /\ queue' = Tail(queue)
      BY <2>3, TakeStep
    <3>2. NotAfter(Tail(queue), x, y)
      BY <1>1, <1>3, <3>1, TailKeepsOrder
    <3> QED BY <3>1, <3>2
  <2>4. CASE Archive
    BY <1>3, <2>4, ArchiveStep
  <2>5. CASE /\ ~(\E c \in Clients : EnqueueJob(c)) /\ ~TakeJob /\ ~Archive
             /\ ~(\E c \in Clients : CancelJob(c) /\ CancelQueued(target[c]))
    BY <1>3, <2>5, OtherStep
  <2> QED BY <2>1, <2>2, <2>3, <2>4, <2>5
<1> QED BY <1>4, <1>5 DEF InOrder

\* In the list p, x comes before y.
Before(p, x, y) == \E i, k \in DOMAIN p : i < k /\ p[i] = x /\ p[k] = y

PlanInv ==
  \A c \in Clients : \A x \in Jobs :
    /\ x \in Range(plan[c]) => state[x] # "new"
    /\ \A y \in Jobs : Before(plan[c], x, y) => InOrder(x, y)

LEMMA PlanStays == IndInv /\ PlanInv /\ [Next]_vars => PlanInv'
<1> SUFFICES ASSUME IndInv, PlanInv, [Next]_vars, NEW d \in Clients, NEW x \in Jobs
             PROVE  /\ x \in Range(plan'[d]) => state'[x] # "new"
                    /\ \A y \in Jobs : Before(plan'[d], x, y) => InOrder(x, y)'
  BY DEF PlanInv
<1>1. plan[d] \in Seq(Jobs) /\ plan \in [Clients -> Seq(Jobs)] /\ queue \in Seq(Jobs)
  BY DEF IndInv, TypeOK
<1>2. x \in Range(plan[d]) => state[x] # "new" /\ state'[x] # "new"
  BY KnownStays DEF PlanInv
<1>3. ASSUME NEW y \in Jobs, Before(plan[d], x, y) PROVE InOrder(x, y)'
  <2>1. x \in Range(plan[d]) /\ y \in Range(plan[d])
    BY <1>3 DEF Before, Range
  <2>2. state[x] # "new" /\ state[y] # "new" /\ InOrder(x, y)
    BY <1>3, <2>1 DEF PlanInv
  <2> QED BY <2>2, OrderStays
<1>4. CASE plan'[d] = plan[d]
  BY <1>2, <1>3, <1>4
<1>5. CASE plan'[d] = <<>>
  BY <1>5 DEF Range, Before
<1>6. CASE EnqueueJob(d)
  <2>1. PICK j \in Jobs : /\ state[j] = "new" /\ queue' = Append(queue, j)
                          /\ state' = [state EXCEPT ![j] = "queued"]
                          /\ plan' = [plan EXCEPT ![d] = Append(@, j)]
    BY <1>6 DEF EnqueueJob, Unissued
  <2>2. plan'[d] = Append(plan[d], j)
    BY <1>1, <2>1
  <2>3. Range(plan'[d]) = Range(plan[d]) \cup {j}
    BY <1>1, <2>2, AppendFacts
  <2>4. state'[j] = "queued" /\ active # j /\ UNCHANGED active
    BY <1>6, <2>1, ActiveIsKnown, JobServerAssumption DEF EnqueueJob, IndInv, TypeOK, Terminal
  <2>5. ASSUME x # j PROVE InOrder(x, j)'
    <3>1. /\ \A m \in DOMAIN queue' :
               m \in DOMAIN queue \/ (m = Len(queue) + 1 /\ queue'[m] = j)
          /\ \A m \in DOMAIN queue : queue'[m] = queue[m] /\ m < Len(queue) + 1
      BY <1>1, <2>1
    <3>2. j \notin Range(queue)
      BY <2>1 DEF IndInv, OnePlace
    <3>3. NotAfter(queue', x, j)
      BY <2>5, <3>1, <3>2 DEF NotAfter, Range
    <3>4. ~Taken(j)'
      BY <2>4 DEF Taken
    <3> QED BY <3>3, <3>4 DEF InOrder
  <2>6. ASSUME NEW y \in Jobs, Before(plan'[d], x, y) PROVE InOrder(x, y)'
    <3>1. PICK i, k \in DOMAIN plan'[d] : i < k /\ plan'[d][i] = x /\ plan'[d][k] = y
      BY <2>6 DEF Before
    <3>2. i \in DOMAIN plan[d] /\ plan[d][i] = x
      BY <1>1, <2>2, <3>1
    <3>3. x # j
      BY <1>2, <2>1, <3>2 DEF Range
    <3>4. CASE k \in DOMAIN plan[d]
      <4>1. plan[d][k] = y
        BY <1>1, <2>2, <3>1, <3>4
      <4>2. Before(plan[d], x, y)
        BY <3>1, <3>2, <3>4, <4>1 DEF Before
      <4> QED BY <1>3, <4>2
    <3>5. CASE k \notin DOMAIN plan[d]
      <4>1. y = j
        BY <1>1, <2>2, <3>1, <3>5
      <4> QED BY <2>5, <3>3, <4>1
    <3> QED BY <3>4, <3>5
  <2> QED BY <1>2, <2>3, <2>4, <2>6
<1>7. plan'[d] = plan[d] \/ plan'[d] = <<>> \/ EnqueueJob(d)
  <2>1. ASSUME NEW c \in Clients, Handler(c)
        PROVE  plan'[d] = plan[d] \/ plan'[d] = <<>> \/ EnqueueJob(d)
    BY <1>1, <2>1 DEF Handler, RequestPlan, RequestJob, Receive, EnqueueJob, Broadcast,
                      FindJob, CancelJob
  <2>2. CASE Worker \/ ChildExit \/ UNCHANGED vars
    BY <2>2 DEF Worker, Sleep, TakeJob, OpenLog, Spawn, RecordPid, Reap, ClearPid, Judge,
                Verdict, WriteState, Archive, ChildExit, vars, handlerVars
  <2> QED BY <2>1, <2>2 DEF Next
<1> QED BY <1>4, <1>5, <1>6, <1>7

LEMMA PlanInvariant == Spec => []PlanInv
<1>1. Init => PlanInv
  <2> SUFFICES ASSUME Init PROVE PlanInv
    OBVIOUS
  <2>1. \A c \in Clients : DOMAIN plan[c] = {}
    BY DEF Init
  <2> QED BY <2>1 DEF PlanInv, Range, Before
<1> QED BY <1>1, PlanStays, Inductive, PTL DEF Spec

(***************************************************************************)
(* The jobs of a build plan are taken in its order, dependencies first: a  *)
(* job runs only when all before it are over, whatever other requests      *)
(* enqueue between them and whichever jobs are cancelled out of the queue. *)
(***************************************************************************)
THEOREM PlansRunInOrder == Spec => []PlanOrder
<1>1. IndInv /\ PlanInv => PlanOrder
  <2> SUFFICES ASSUME IndInv, PlanInv, NEW c \in Clients,
                      NEW i \in DOMAIN plan[c], NEW k \in DOMAIN plan[c], i < k,
                      state[plan[c][k]] \in {"running", "success", "failed"}
               PROVE  Archived(plan[c][i])
    BY DEF PlanOrder
  <2>1. plan[c][i] \in Jobs /\ plan[c][k] \in Jobs
    BY DEF IndInv, TypeOK
  <2>2. Before(plan[c], plan[c][i], plan[c][k])
    BY DEF Before
  <2>3. InOrder(plan[c][i], plan[c][k])
    BY <2>1, <2>2 DEF PlanInv
  <2> QED BY <2>3 DEF InOrder, Taken
<1> QED BY <1>1, PlanInvariant, Inductive, PTL

-----------------------------------------------------------------------------
(***************************************************************************)
(* The cancel that killed.                                                 *)
(***************************************************************************)

\* A cancelled job that is over, or is active and will not be judged again: the
\* worker is past the opening of its log and not about to write an outcome.
Stuck(j) ==
  /\ state[j] = "cancelled"
  /\ \/ j \in Settled
     \/ /\ j = active
        /\ worker \in {"spawn", "record", "wait", "clear", "judge", "verdict", "archive"}

LEMMA StuckStays ==
  ASSUME IndInv, [Next]_vars, NEW j \in Jobs, Stuck(j)
  PROVE  Stuck(j)'
<1>1. CASE j \in Settled
  <2>1. j \in Settled' /\ state'[j] = state[j]
    BY <1>1, ArchivedStep
  <2> QED BY <2>1 DEF Stuck
<1>2. CASE j = active /\ worker \in {"spawn", "record", "wait", "clear", "judge", "verdict"}
  <2> USE DEF Stuck
  <2>1. /\ worker \in {"spawn", "record", "wait", "clear", "judge", "verdict"}
        /\ state[j] = "cancelled" /\ j # None
    BY <1>2, JobServerAssumption
  <2>2. ASSUME NEW c \in Clients, Handler(c) PROVE Stuck(j)'
    <3>1. UNCHANGED <<active, worker>> /\ state'[j] = state[j]
      <4>1. CASE RequestPlan(c) \/ RequestJob(c) \/ FindJob(c)
        BY <4>1 DEF RequestPlan, RequestJob, Receive, FindJob, jobVars, workerVars
      <4>2. CASE Broadcast(c)
        BY <2>1, <4>2 DEF Broadcast, jobVars
      <4>3. CASE EnqueueJob(c)
        <5>1. PICK i \in Jobs : state[i] = "new" /\ state' = [state EXCEPT ![i] = "queued"]
          BY <4>3 DEF EnqueueJob, Unissued
        <5> QED BY <2>1, <4>3, <5>1 DEF EnqueueJob, workerVars
      <4>4. CASE CancelJob(c)
        <5>1. UNCHANGED <<active, worker>>
          BY <4>4 DEF CancelJob, workerVars
        <5>2. UNCHANGED state \/ state' = [state EXCEPT ![target[c]] = "cancelled"]
          BY <4>4 DEF CancelJob, CancelQueued, CancelRunning, CancelFinished
        <5> QED BY <2>1, <5>1, <5>2 DEF IndInv, TypeOK
      <4> QED BY <2>2, <4>1, <4>2, <4>3, <4>4 DEF Handler
    <3> QED BY <1>2, <2>1, <3>1
  <2>3. CASE Spawn \/ RecordPid \/ Reap \/ ClearPid
    <3>1. UNCHANGED <<active, state>> /\ worker' \in {"record", "verdict", "wait", "clear", "judge"}
      BY <2>3 DEF Spawn, RecordPid, Reap, ClearPid, jobVars
    <3> QED BY <1>2, <2>1, <3>1
  <2>4. CASE Judge \/ Verdict
    <3>1. UNCHANGED <<active, state>> /\ worker' \in {"spawn", "verdict", "archive"}
      BY <1>2, <2>1, <2>4 DEF Judge, Verdict, jobVars
    <3> QED BY <1>2, <2>1, <3>1
  <2>5. CASE Sleep \/ TakeJob \/ OpenLog \/ WriteState \/ Archive
    BY <2>1, <2>5 DEF Sleep, TakeJob, OpenLog, WriteState, Archive
  <2>6. CASE ChildExit \/ UNCHANGED vars
    BY <1>2, <2>1, <2>6 DEF ChildExit, vars, jobVars, workerVars
  <2> QED BY <2>2, <2>3, <2>4, <2>5, <2>6 DEF Next, Worker
<1>3. CASE j = active /\ worker = "archive"
  <2>1. CASE Archive
    <3>1. state' = state /\ queue' = queue /\ active' = None
      BY <2>1 DEF Archive, jobVars
    <3>2. state[j] # "queued" /\ state[j] # "new" /\ j # None
      BY JobServerAssumption DEF Stuck
    <3>3. j \notin Range(queue)
      BY <3>2 DEF IndInv, OnePlace
    <3> QED BY <3>1, <3>2, <3>3 DEF Stuck, Settled, Archived
  <2>2. CASE ~Archive
    <3>1. UNCHANGED <<active, worker, state>>
          \/ \E c \in Clients : EnqueueJob(c) \/ CancelJob(c)
      BY <1>3, <2>2 DEF Next, Worker, Handler, Sleep, TakeJob, OpenLog, Spawn, RecordPid, Reap,
            ClearPid, Judge, Verdict, WriteState, ChildExit, RequestPlan, RequestJob, Receive,
            Broadcast, FindJob, vars, jobVars, workerVars
    <3>2. ASSUME NEW c \in Clients, EnqueueJob(c) PROVE Stuck(j)'
      <4>1. PICK i \in Jobs : state[i] = "new" /\ state' = [state EXCEPT ![i] = "queued"]
        BY <3>2 DEF EnqueueJob, Unissued
      <4>2. UNCHANGED <<active, worker>>
        BY <3>2 DEF EnqueueJob, workerVars
      <4> QED BY <1>3, <4>1, <4>2 DEF Stuck
    <3>3. ASSUME NEW c \in Clients, CancelJob(c) PROVE Stuck(j)'
      <4>1. UNCHANGED <<active, worker>>
        BY <3>3 DEF CancelJob, workerVars
      <4>2. UNCHANGED state \/ state' = [state EXCEPT ![target[c]] = "cancelled"]
        BY <3>3 DEF CancelJob, CancelQueued, CancelRunning, CancelFinished
      <4> QED BY <1>3, <4>1, <4>2 DEF Stuck, IndInv, TypeOK
    <3>4. CASE UNCHANGED <<active, worker, state>>
      BY <1>3, <3>4 DEF Stuck
    <3> QED BY <3>1, <3>2, <3>3, <3>4
  <2> QED BY <2>1, <2>2
<1> QED BY <1>1, <1>2, <1>3 DEF Stuck

(***************************************************************************)
(* A cancel that found a pid, and so sent its SIGTERM, sticks: no later    *)
(* statement of the worker, which reads and writes job.State without the   *)
(* mutex, reports another outcome.                                         *)
(***************************************************************************)
THEOREM KilledStays == Spec => KilledStaysCancelled
<1>1. ASSUME NEW j \in Jobs
      PROVE  Spec => [](state[j] = "cancelled" /\ pid[j] => [](state[j] = "cancelled"))
  <2>1. ChildInv /\ state[j] = "cancelled" /\ pid[j] => Stuck(j)
    BY DEF ChildInv, Stuck
  <2>2. IndInv /\ Stuck(j) /\ [Next]_vars => Stuck(j)'
    BY StuckStays
  <2>3. Stuck(j) => state[j] = "cancelled"
    BY DEF Stuck
  <2> QED BY <2>1, <2>2, <2>3, Inductive, ChildInvariant, PTL DEF Spec
<1> QED BY <1>1 DEF KilledStaysCancelled

-----------------------------------------------------------------------------
(* The server in the farm is the job server. *)

LEMMA NeedsAreRecipes ==
  ASSUME NEW r \in Recipes
  PROVE  A!Needs(r) \subseteq Recipes
BY BuildFarmAssumption DEF A!ArtifactsAssumption, A!Needs

\* A plan is a sequence of recipes.
LEMMA SortedFacts ==
  ASSUME NEW ids \in Requests, NEW force, NEW s \in Sorted(Plan(ids, force))
  PROVE  s \in Seq(Recipes)
<1> DEFINE rs == Plan(ids, force)
<1>1. rs \subseteq Recipes
  BY NeedsAreRecipes, BuildFarmAssumption DEF Plan, A!ArtifactsAssumption
<1>2. Cardinality(rs) \in Nat
  BY <1>1, FS_Subset, FS_CardinalityType, BuildFarmAssumption
<1>3. s \in [1 .. Cardinality(rs) -> rs]
  BY DEF Sorted
<1> HIDE DEF rs
<1> QED BY <1>1, <1>2, <1>3

LEMMA RequestRefines ==
  ASSUME NEW c \in Clients, NEW ids \in Requests, NEW force \in BOOLEAN,
         RequestBuild(c, ids, force)
  PROVE  RequestPlan(c)
<1>1. PICK s \in Sorted(Plan(ids, force)) :
         Len(s) <= MaxPlan /\ Receive(c, [i \in 1 .. Len(s) |-> 1])
  BY DEF RequestBuild
<1>2. Len(s) \in 0 .. MaxPlan
  BY <1>1, SortedFacts, LenProperties, JobServerAssumption
<1> QED BY <1>1, <1>2 DEF RequestPlan

LEMMA ServerStep == [FarmNext]_farmVars => [Next]_vars
<1> SUFFICES ASSUME [FarmNext]_farmVars PROVE [Next]_vars
  OBVIOUS
<1>1. ASSUME NEW c \in Clients, NEW ids \in Requests, NEW force \in BOOLEAN,
             RequestBuild(c, ids, force)
      PROVE  Next
  BY <1>1, RequestRefines DEF Next, Handler
<1>2. ASSUME NEW c \in Clients, EnqueueBuild(c) \/ ServerOnly(c) PROVE Next
  BY <1>2 DEF Next, Handler, EnqueueBuild, ServerOnly
<1>3. CASE WorkerOnly \/ StartChild
  BY <1>3 DEF WorkerOnly, StartChild, Next, Worker
<1>4. CASE ChildSucceeds \/ ChildFails
  BY <1>4 DEF ChildSucceeds, ChildFails, Next
<1>5. CASE ChildStep \/ Reload \/ People \/ UNCHANGED farmVars
  BY <1>5 DEF ChildStep, Reload, People, farmVars
<1> QED BY <1>1, <1>2, <1>3, <1>4, <1>5 DEF FarmNext

(***************************************************************************)
(* In the farm the dashboard and its worker behave as a job server that    *)
(* knows nothing of what its jobs build: all that is proved about the      *)
(* queue, the outcomes and the order of the jobs holds in it.              *)
(***************************************************************************)
THEOREM FarmHasJobServer == FarmSpec => Spec
<1>1. FarmInit => Init
  BY DEF FarmInit
<1> QED BY <1>1, ServerStep, PTL DEF FarmSpec, Spec

-----------------------------------------------------------------------------
(* The commands of the farm are the build pipeline. *)

\* The theorems about the pipeline, of this instance of it.
AP == INSTANCE ArtifactsProofs

LEMMA PipelineTheorems == A!Spec => [](A!TypeOK /\ A!NamesAreTrue)
<1>1. AP!ArtifactsAssumption
  BY BuildFarmAssumption DEF A!ArtifactsAssumption, AP!ArtifactsAssumption
<1>2. AP!Spec => []AP!TypeOK /\ []AP!NamesAreTrue
  BY <1>1, AP!TypeCorrect, AP!NamesTell
<1>3. AP!NamesAreTrue <=> A!NamesAreTrue
  BY DEF A!NamesAreTrue, AP!NamesAreTrue, A!Texts, AP!Texts, A!NeedsContainer, AP!NeedsContainer
<1>4. AP!TypeOK <=> A!TypeOK
  BY DEF A!TypeOK, AP!TypeOK, A!Name, AP!Name, A!Artifact, AP!Artifact, A!Ingredient,
         AP!Ingredient, A!Source, AP!Source, A!Process, AP!Process, A!Steps, AP!Steps
<1>5. A!Init <=> AP!Init
  BY DEF A!Init, AP!Init, A!Idle, AP!Idle
<1>6. A!Next <=> AP!Next
  BY DEF A!Next, AP!Next, A!People, AP!People, A!Command, AP!Command,
         A!EditRecipe, AP!EditRecipe, A!OpenWorkspace, AP!OpenWorkspace,
         A!CloseWorkspace, AP!CloseWorkspace, A!StartBuild, AP!StartBuild,
         A!StartBuildOne, AP!StartBuildOne, A!StartPull, AP!StartPull,
         A!Setup, AP!Setup, A!Integrate, AP!Integrate, A!Choose, AP!Choose,
         A!Prepare, AP!Prepare, A!BeginPack, AP!BeginPack, A!EndPack, AP!EndPack,
         A!BuildFails, AP!BuildFails, A!SkipPull, AP!SkipPull,
         A!BeginDownload, AP!BeginDownload, A!EndDownload, AP!EndDownload,
         A!DownloadFails, AP!DownloadFails, A!Succeed, AP!Succeed, A!Killed, AP!Killed,
         A!Start, AP!Start, A!Event, AP!Event, A!Busy, AP!Busy, A!Idle, AP!Idle,
         A!Needs, AP!Needs, A!Hash, AP!Hash, A!Package, AP!Package,
         A!WorkspacePackage, AP!WorkspacePackage, A!CacheFile, AP!CacheFile,
         A!Available, AP!Available, A!Cached, AP!Cached, A!Uncached, AP!Uncached,
         A!First, AP!First, A!Step, AP!Step, A!Fail, AP!Fail, A!Done, AP!Done,
         A!NeedsContainer, AP!NeedsContainer, A!Integratable, AP!Integratable,
         A!Sources, AP!Sources, A!Written, AP!Written, A!Offered, AP!Offered,
         A!Upstream, AP!Upstream, A!Downloaded, AP!Downloaded, A!outside, AP!outside
<1>7. [A!Next]_A!vars <=> [AP!Next]_AP!vars
  BY <1>6 DEF A!vars, AP!vars
<1> QED BY <1>2, <1>3, <1>4, <1>5, <1>7, PTL DEF AP!Spec, A!Spec

\* What a client is waiting for is a list of recipes, one job for each, and a
\* job is one `ignite build-one' of a recipe.
Plans ==
  /\ order \in [Clients -> Seq(Recipes)]
  /\ recipe \in [Jobs -> Recipes \cup {Nothing}]
  /\ \A c \in Clients : /\ Len(order[c]) = Len(todo[c])
                        /\ \A i \in DOMAIN todo[c] : todo[c][i] = 1
  /\ \A j \in Jobs : state[j] # "new" => recipe[j] \in Recipes /\ commands[j] = 1

\* A step that creates no job.
NoNewJob ==
  /\ UNCHANGED <<order, recipe, todo, commands>>
  /\ \A j \in Jobs : state[j] = "new" => state'[j] = "new"

LEMMA OldJobs ==
  ASSUME IndInv,
         \/ \E c \in Clients : ServerOnly(c)
         \/ WorkerOnly \/ StartChild \/ ChildStep \/ ChildSucceeds \/ ChildFails
         \/ Reload \/ People \/ UNCHANGED farmVars
  PROVE  NoNewJob
<1>1. state \in [Jobs -> JobState \cup {"new"}]
  BY DEF IndInv, TypeOK
<1> USE DEF NoNewJob
<1>2. ASSUME NEW c \in Clients, ServerOnly(c) PROVE NoNewJob
  <2>1. CASE Broadcast(c) \/ FindJob(c)
    BY <1>2, <2>1 DEF ServerOnly, Broadcast, FindJob, planVars, jobVars
  <2>2. CASE CancelJob(c)
    <3>1. target[c] \in Jobs /\ state[target[c]] # "new"
      BY <2>2 DEF CancelJob, IndInv, HandlersReady
    <3> QED BY <1>1, <1>2, <2>2, <3>1 DEF ServerOnly, CancelJob, CancelQueued, CancelRunning,
                                   CancelFinished, planVars
  <2> QED BY <1>2, <2>1, <2>2 DEF ServerOnly
<1>3. CASE Worker /\ UNCHANGED planVars
  <2>1. UNCHANGED <<order, recipe, todo, commands>>
    BY <1>3 DEF Worker, Sleep, TakeJob, OpenLog, Spawn, RecordPid, Reap, ClearPid, Judge,
                Verdict, WriteState, Archive, jobVars, handlerVars, planVars
  <2>2. CASE TakeJob
    <3>1. Head(queue) \in Range(queue) /\ Head(queue) \in Jobs
      BY <2>2, TailFacts DEF TakeJob, IndInv, TypeOK
    <3>2. state[Head(queue)] = "queued"
      BY <3>1 DEF IndInv, OnePlace
    <3> QED BY <1>1, <2>1, <2>2, <3>1, <3>2 DEF TakeJob
  <2>3. CASE OpenLog \/ WriteState
    <3>1. active \in Jobs /\ state[active] # "new"
      BY <2>3 DEF OpenLog, WriteState, IndInv, TypeOK, WorkerReady
    <3>2. UNCHANGED state \/ \E v : state' = [state EXCEPT ![active] = v]
      BY <2>3, Zenon DEF OpenLog, WriteState
    <3> QED BY <1>1, <2>1, <3>1, <3>2
  <2>4. CASE ~TakeJob /\ ~OpenLog /\ ~WriteState
    BY <1>3, <2>1, <2>4 DEF Worker, Sleep, Spawn, RecordPid, Reap, ClearPid, Judge,
                            Verdict, Archive, jobVars
  <2> QED BY <2>2, <2>3, <2>4
<1>4. CASE WorkerOnly \/ StartChild
  BY <1>3, <1>4 DEF WorkerOnly, StartChild, Worker
<1>5. CASE ChildSucceeds \/ ChildFails
  BY <1>5 DEF ChildSucceeds, ChildFails, ChildExit, jobVars, handlerVars, planVars
<1>6. CASE ChildStep \/ Reload \/ People \/ UNCHANGED farmVars
  BY <1>6 DEF ChildStep, Reload, People, farmVars, vars, jobVars, handlerVars, planVars
<1> QED BY <1>2, <1>4, <1>5, <1>6

LEMMA PlansStay == IndInv /\ Plans /\ [FarmNext]_farmVars => Plans'
<1> SUFFICES ASSUME IndInv, Plans, [FarmNext]_farmVars PROVE Plans'
  OBVIOUS
<1>1. /\ state \in [Jobs -> JobState \cup {"new"}] /\ commands \in [Jobs -> Nat]
      /\ todo \in [Clients -> Seq(Nat)] /\ plan \in [Clients -> Seq(Jobs)]
  BY DEF IndInv, TypeOK
<1>2. ASSUME NEW c \in Clients, NEW ids \in Requests, NEW force \in BOOLEAN,
             RequestBuild(c, ids, force)
      PROVE  Plans'
  <2>1. PICK s \in Sorted(Plan(ids, force)) :
           /\ Receive(c, [i \in 1 .. Len(s) |-> 1])
           /\ order' = [order EXCEPT ![c] = s]
    BY <1>2 DEF RequestBuild
  <2>2. s \in Seq(Recipes) /\ Len(s) \in Nat
    BY SortedFacts, LenProperties
  <2>3. todo' = [todo EXCEPT ![c] = [i \in 1 .. Len(s) |-> 1]] /\ UNCHANGED <<state, commands>>
    BY <2>1 DEF Receive, jobVars
  <2>4. Len([i \in 1 .. Len(s) |-> 1]) = Len(s)
    BY <2>2
  <2>5. UNCHANGED recipe
    BY <1>2 DEF RequestBuild
  <2> QED BY <1>1, <2>1, <2>2, <2>3, <2>4, <2>5 DEF Plans
<1>3. ASSUME NEW c \in Clients, EnqueueBuild(c) PROVE Plans'
  <2>1. PICK j \in Jobs : /\ state[j] = "new" /\ state' = [state EXCEPT ![j] = "queued"]
                          /\ commands' = [commands EXCEPT ![j] = Head(todo[c])]
                          /\ plan' = [plan EXCEPT ![c] = Append(@, j)]
    BY <1>3 DEF EnqueueBuild, EnqueueJob, Unissued
  <2>2. Last(plan'[c]) = j
    <3>1. plan'[c] = Append(plan[c], j) /\ plan[c] \in Seq(Jobs)
      BY <1>1, <2>1
    <3> QED BY <3>1 DEF Last
  <2>3. /\ recipe' = [recipe EXCEPT ![j] = Head(order[c])]
        /\ order' = [order EXCEPT ![c] = Tail(@)]
        /\ todo' = [todo EXCEPT ![c] = Tail(@)]
    BY <1>3, <2>2 DEF EnqueueBuild, EnqueueJob
  <2>4. todo[c] \in Seq(Nat) /\ todo[c] # <<>>
    BY <1>1, <1>3 DEF EnqueueBuild, EnqueueJob, IndInv, HandlersReady
  <2>5. order[c] \in Seq(Recipes) /\ order[c] # <<>>
    BY <2>4, EmptySeq DEF Plans
  <2>6. /\ Head(todo[c]) = 1 /\ Len(Tail(todo[c])) = Len(todo[c]) - 1
        /\ \A i \in DOMAIN Tail(todo[c]) : Tail(todo[c])[i] = 1
    BY <2>4 DEF Plans
  <2>7. /\ Head(order[c]) \in Recipes /\ Tail(order[c]) \in Seq(Recipes)
        /\ Len(Tail(order[c])) = Len(order[c]) - 1
    BY <2>5
  <2> QED BY <1>1, <2>1, <2>3, <2>6, <2>7 DEF Plans
<1>4. CASE NoNewJob
  BY <1>4 DEF NoNewJob, Plans
<1> QED BY <1>2, <1>3, <1>4, OldJobs DEF FarmNext

LEMMA PlansInvariant == FarmSpec => []Plans
<1>1. FarmInit => Plans
  <2> SUFFICES ASSUME FarmInit PROVE Plans
    OBVIOUS
  <2>1. <<>> \in Seq(Recipes) /\ Len(<<>>) = 0 /\ DOMAIN <<>> = {}
    OBVIOUS
  <2> QED BY <2>1 DEF FarmInit, Init, Plans
<1> QED BY <1>1, PlansStay, FarmHasJobServer, Inductive, PTL DEF FarmSpec

LEMMA PipelineStep == IndInv /\ Plans /\ [FarmNext]_farmVars => [A!Next]_A!vars
<1> SUFFICES ASSUME IndInv, Plans, [FarmNext]_farmVars PROVE [A!Next]_A!vars
  OBVIOUS
<1>1. CASE StartChild
  <2>1. active \in Jobs /\ state[active] # "new"
    BY <1>1 DEF StartChild, Spawn, IndInv, TypeOK, WorkerReady
  <2>2. recipe[active] \in Recipes
    BY <2>1 DEF Plans
  <2> QED BY <1>1, <2>2 DEF StartChild, A!Next, A!Command
<1>2. CASE ChildStep
  BY <1>2 DEF ChildStep, A!Next, A!Command
<1>3. CASE ChildSucceeds \/ ChildFails
  BY <1>3 DEF ChildSucceeds, ChildFails, A!Next, A!Command
<1>4. CASE People
  BY <1>4 DEF People, A!Next
<1>5. CASE UNCHANGED pipelineVars
  BY <1>5 DEF pipelineVars, A!vars
<1>6. CASE WorkerOnly \/ Reload \/ \E c \in Clients : EnqueueBuild(c) \/ ServerOnly(c)
  BY <1>5, <1>6 DEF WorkerOnly, Reload, EnqueueBuild, ServerOnly
<1>7. CASE \E c \in Clients : \E ids \in Requests, force \in BOOLEAN : RequestBuild(c, ids, force)
  BY <1>5, <1>7 DEF RequestBuild
<1>8. CASE UNCHANGED farmVars
  BY <1>5, <1>8 DEF farmVars
<1> QED BY <1>1, <1>2, <1>3, <1>4, <1>6, <1>7, <1>8 DEF FarmNext

(***************************************************************************)
(* What the children of the server do, one after the other, are the        *)
(* commands of the build pipeline, run one at a time: the assumption of    *)
(* Artifacts is what the worker of the job server provides.                *)
(***************************************************************************)
THEOREM FarmHasPipeline == FarmSpec => A!Spec
<1>1. FarmInit => A!Init
  BY DEF FarmInit
<1> QED BY <1>1, PipelineStep, PlansInvariant, FarmHasJobServer, Inductive, PTL
        DEF FarmSpec, A!Spec

(***************************************************************************)
(* Whatever jobs fail, are cancelled or killed, and whatever is edited     *)
(* between a plan and its jobs: no file of the cache of a build server     *)
(* holds anything but what its name says (PackageName, CacheFile).         *)
(***************************************************************************)
THEOREM FarmNamesTell == FarmSpec => []A!NamesAreTrue
BY FarmHasPipeline, PipelineTheorems, PTL

-----------------------------------------------------------------------------
(* What a job leaves. *)

\* The job has chosen one file, and that is in the cache and complete.
Delivered(j) == \E f : made[j] = {f} /\ Whole(f)

\* No child, no command; a command builds one recipe, chooses one file for it,
\* and has packed it when there is nothing left to do.
ChildKnows ==
  /\ child \in {"none", "ok", "fail"} <=> ~A!Busy
  /\ A!Busy =>
       /\ \A q, r \in proc.plan : q = r
       /\ proc.step \in {"next", "integrate"} /\ proc.plan # {} => made[active] = {}
       /\ proc.step \in {"prepare", "compile", "pack"} => made[active] = {proc.path}
       /\ proc.step = "next" /\ proc.plan = {} => Delivered(active)

\* On its way from the child through cmd.Wait to job.State the news of a
\* success stays true; before it starts a child a job has chosen nothing.
WorkerKnows ==
  /\ made \in [Jobs -> SUBSET (A!Name \cup {Nothing})]
  /\ \A j \in Jobs : state[j] \in {"new", "queued"} => made[j] = {}
  /\ worker \in {"open", "spawn"} => made[active] = {}
  /\ child = "ok" => Delivered(active)
  /\ worker \in {"clear", "judge"} /\ exit = "ok" => Delivered(active)
  /\ worker = "verdict" /\ state[active] = "running" /\ ~runErr => Delivered(active)
  /\ worker = "write" /\ ~runErr => Delivered(active)

FarmInv == ChildKnows /\ WorkerKnows /\ SuccessLasts

\* What is known from the theorems about the parts.
PartsInv == IndInv /\ Sized /\ ChildInv /\ Plans /\ A!TypeOK

LEMMA PartsInvariant == FarmSpec => []PartsInv
<1>1. OutcomeInv => Sized
  BY DEF OutcomeInv
<1> QED BY <1>1, FarmHasJobServer, FarmHasPipeline, Inductive, OutcomeInvariant, ChildInvariant,
           PlansInvariant, PipelineTheorems, PTL DEF PartsInv

LEMMA ActiveFacts ==
  ASSUME PartsInv
  PROVE  /\ state \in [Jobs -> JobState \cup {"new"}] /\ active \in Jobs \cup {None}
         /\ worker \notin {"check", "asleep"} => active \in Jobs
         /\ worker \notin {"check", "asleep", "archive"} => state[active] \in {"running", "cancelled"}
         /\ child # "none" => worker \in {"record", "wait"}
         /\ nth \in Nat /\ None \notin Jobs
BY JobServerAssumption DEF PartsInv, IndInv, TypeOK, WorkerReady, ChildInv

\* Requests, cancels, reloads, and what people do to files.
LEMMA OthersKeep ==
  ASSUME PartsInv, FarmInv, UNCHANGED <<cache, proc, made, active, exit, runErr>>,
         worker' = worker \/ (worker = "asleep" /\ worker' = "check"),
         child' = child \/ (child = "alive" /\ child' = "signalled"),
         \A j \in Jobs : \/ state'[j] = state[j]
                         \/ state[j] = "new" /\ state'[j] = "queued"
                         \/ state[j] \in {"queued", "running"} /\ state'[j] = "cancelled"
  PROVE  FarmInv'
<1> USE DEF FarmInv
<1>1. /\ \A f : Whole(f)' <=> Whole(f)
      /\ \A j : Delivered(j)' <=> Delivered(j)
      /\ A!Busy' <=> A!Busy
  BY DEF Whole, Delivered, A!Busy
<1>2. ChildKnows'
  BY <1>1 DEF ChildKnows
<1>3. WorkerKnows'
  BY <1>1, ActiveFacts DEF WorkerKnows
<1>4. \A k \in Jobs : Unhappy(k) \/ state[k] = "running" =>
                        Unhappy(k)' \/ state'[k] = "running"
  BY DEF Unhappy
<1>5. SuccessLasts'
  BY <1>1, <1>4 DEF SuccessLasts
<1> QED BY <1>2, <1>3, <1>5


\* The worker takes a job, waits for its child and writes down the outcome: a
\* success only if the child left the artifact.
LEMMA WorkerKeeps ==
  ASSUME PartsInv, FarmInv, WorkerOnly
  PROVE  FarmInv'
<1> USE DEF FarmInv
<1>1. UNCHANGED <<cache, proc, made>>
  BY DEF WorkerOnly, pipelineVars
<1>2. /\ \A f : Whole(f)' <=> Whole(f)
      /\ A!Busy' <=> A!Busy
  BY <1>1 DEF Whole, A!Busy
<1>3. \A j : Delivered(j)' <=> Delivered(j)
  BY <1>1, <1>2 DEF Delivered
<1>4. ~A!Busy \/ child \notin {"none", "ok", "fail"}
  BY DEF ChildKnows
<1>5. \A j \in Jobs : commands[j] = 1 \/ state[j] = "new"
  BY DEF PartsInv, Plans
<1>6. CASE TakeJob
  <2> DEFINE h == Head(queue)
  <2>1. /\ queue # <<>> /\ active' = h /\ worker' = "open"
        /\ state' = [state EXCEPT ![h] = "running"] /\ UNCHANGED <<child, exit, runErr>>
    BY <1>6 DEF TakeJob
  <2>2. h \in Jobs /\ h \in Range(queue)
    BY <2>1, TailFacts DEF PartsInv, IndInv, TypeOK
  <2>3. state[h] = "queued" /\ made[h] = {}
    BY <2>2 DEF PartsInv, IndInv, OnePlace, WorkerKnows
  <2>4. child = "none"
    BY <1>6, ActiveFacts DEF TakeJob
  <2> HIDE DEF h
  <2>5. ChildKnows'
    BY <1>2, <1>4, <2>1, <2>4 DEF ChildKnows
  <2>6. WorkerKnows'
    BY <1>1, <2>1, <2>2, <2>3, <2>4, ActiveFacts DEF WorkerKnows
  <2>7. SuccessLasts'
    BY <1>1, <1>2, <2>1, <2>2, <2>3, ActiveFacts DEF SuccessLasts, Unhappy
  <2> QED BY <2>5, <2>6, <2>7
<1>7. CASE Sleep \/ RecordPid \/ ClearPid \/ Verdict
  <2>1. UNCHANGED <<state, active, child, exit, runErr>>
    BY <1>7 DEF Sleep, RecordPid, ClearPid, Verdict, jobVars
  <2>2. \/ worker' \in {"asleep", "wait", "archive"}
        \/ worker = "clear" /\ worker' = "judge"
        \/ worker = "verdict" /\ worker' = "write" /\ state[active] # "cancelled"
    BY <1>7 DEF Sleep, RecordPid, ClearPid, Verdict
  <2>3. ChildKnows'
    BY <1>1, <1>2, <1>3, <2>1 DEF ChildKnows
  <2>4. WorkerKnows'
    BY <1>1, <1>3, <2>1, <2>2, ActiveFacts DEF WorkerKnows
  <2>5. SuccessLasts'
    BY <1>1, <1>2, <2>1 DEF SuccessLasts, Unhappy
  <2> QED BY <2>3, <2>4, <2>5
<1>8. CASE OpenLog
  <2>1. /\ UNCHANGED <<active, child, exit, runErr>> /\ active \in Jobs
        /\ state[active] \in {"running", "cancelled"} /\ worker = "open"
        /\ \/ worker' = "spawn" /\ UNCHANGED state
           \/ worker' = "archive" /\ state' = [state EXCEPT ![active] = "failed"]
    BY <1>8, ActiveFacts DEF OpenLog
  <2>2. ChildKnows'
    BY <1>1, <1>2, <1>3, <2>1 DEF ChildKnows
  <2>3. WorkerKnows'
    BY <1>1, <1>3, <2>1, ActiveFacts DEF WorkerKnows
  <2>4. SuccessLasts'
    BY <1>1, <1>2, <2>1, ActiveFacts DEF SuccessLasts, Unhappy
  <2> QED BY <2>2, <2>3, <2>4
<1>9. CASE Spawn /\ UNCHANGED child
  <2>1. /\ UNCHANGED <<state, active, exit, child>> /\ child = "none"
        /\ worker' = "verdict" /\ runErr'
    BY <1>9, ActiveFacts DEF Spawn, jobVars
  <2> QED BY <1>1, <1>2, <1>3, <2>1 DEF ChildKnows, WorkerKnows, SuccessLasts, Unhappy
<1>10. CASE Reap
  <2>1. /\ UNCHANGED <<state, active, runErr>> /\ exit' = child /\ child \in {"ok", "fail"}
        /\ child' = "none" /\ worker' = "clear"
    BY <1>10 DEF Reap
  <2> QED BY <1>1, <1>2, <1>3, <2>1 DEF ChildKnows, WorkerKnows, SuccessLasts, Unhappy
<1>11. CASE Judge
  <2>1. /\ UNCHANGED <<state, active, child>> /\ worker = "judge" /\ active \in Jobs
        /\ state[active] \in {"running", "cancelled"} /\ nth \in Nat /\ commands[active] = 1
    BY <1>5, <1>11, ActiveFacts DEF Judge, jobVars
  <2>2. /\ worker' = "verdict"
        /\ runErr' \/ exit = "ok" \/ state[active] = "cancelled"
    <3>1. ~(nth + 1 < commands[active])
      BY <2>1
    <3>2. exit \in {"ok", "fail"}
      BY DEF PartsInv, IndInv, TypeOK
    <3> QED BY <1>11, <3>1, <3>2 DEF Judge
  <2>3. child = "none"
    BY <1>11, ActiveFacts DEF Judge, PartsInv, IndInv, TypeOK
  <2> QED BY <1>1, <1>2, <1>3, <2>1, <2>2, <2>3 DEF ChildKnows, WorkerKnows, SuccessLasts, Unhappy
<1>12. CASE WriteState
  <2>1. /\ UNCHANGED <<active, child, exit, runErr>> /\ worker = "write" /\ worker' = "archive"
        /\ active \in Jobs /\ child = "none"
        /\ state' = [state EXCEPT ![active] = IF runErr THEN "failed" ELSE "success"]
    BY <1>12, ActiveFacts DEF WriteState, PartsInv, IndInv, TypeOK
  <2>2. ChildKnows'
    BY <1>1, <1>2, <1>3, <2>1 DEF ChildKnows
  <2>3. WorkerKnows'
    BY <1>1, <1>3, <2>1, ActiveFacts DEF WorkerKnows
  <2>4. ~runErr => Delivered(active)
    BY <2>1 DEF WorkerKnows
  <2>5. SuccessLasts'
    BY <1>1, <1>2, <2>1, <2>4, ActiveFacts DEF SuccessLasts, Unhappy, Delivered
  <2> QED BY <2>2, <2>3, <2>5
<1>13. CASE Archive
  <2>1. UNCHANGED <<state, child, exit>> /\ worker' = "check" /\ worker = "archive"
    BY <1>13 DEF Archive, jobVars
  <2>2. child = "none"
    BY <2>1, ActiveFacts DEF PartsInv, IndInv, TypeOK
  <2> QED BY <1>1, <1>2, <1>3, <2>1, <2>2 DEF ChildKnows, WorkerKnows, SuccessLasts, Unhappy
<1> QED
  BY <1>6, <1>7, <1>8, <1>9, <1>10, <1>11, <1>12, <1>13 DEF WorkerOnly


LEMMA ChildFacts ==
  ASSUME PartsInv, FarmInv, A!Busy
  PROVE  /\ child \in {"alive", "signalled"} /\ worker \in {"record", "wait"}
         /\ active \in Jobs /\ state[active] \in {"running", "cancelled"}
<1>1. child \in {"none", "alive", "signalled", "ok", "fail"}
  BY DEF PartsInv, IndInv, TypeOK
<1> QED BY <1>1, ActiveFacts DEF FarmInv, ChildKnows

\* The child starts, and later ends: well when it has packed its recipe.
LEMMA ChildComesAndGoes ==
  ASSUME PartsInv, FarmInv, StartChild \/ ChildSucceeds \/ ChildFails
  PROVE  FarmInv'
<1> USE DEF FarmInv
<1>1. UNCHANGED <<cache, made, active, state>>
  BY DEF StartChild, ChildSucceeds, ChildFails, Spawn, ChildExit, jobVars, A!StartBuildOne, A!Start,
         A!Succeed, A!BuildFails, A!Integrate, A!Killed
<1>2. /\ \A f : Whole(f)' <=> Whole(f)
      /\ \A j \in Jobs : Unhappy(j)' <=> Unhappy(j)
  BY <1>1 DEF Whole, Unhappy
<1>3. /\ \A j : Delivered(j)' <=> Delivered(j)
      /\ SuccessLasts'
  BY <1>1, <1>2 DEF Delivered, SuccessLasts
<1>4. CASE StartChild
  <2>1. /\ worker = "spawn" /\ worker' = "record" /\ child' = "alive" /\ UNCHANGED <<exit, runErr>>
    BY <1>4, ActiveFacts DEF StartChild, Spawn
  <2>2. proc'.step = "next" /\ proc'.plan = {recipe[active]} /\ A!Busy'
    BY <1>4 DEF StartChild, A!StartBuildOne, A!Start, A!Idle, A!Busy
  <2>3. ChildKnows'
    BY <1>1, <2>1, <2>2 DEF ChildKnows, WorkerKnows
  <2>4. WorkerKnows'
    BY <1>1, <1>3, <2>1 DEF WorkerKnows
  <2> QED BY <1>3, <2>3, <2>4
<1>5. CASE ChildSucceeds
  <2>1. /\ UNCHANGED <<worker, exit, runErr>> /\ child' = "ok" /\ child \in {"alive", "signalled"}
    BY <1>5 DEF ChildSucceeds, ChildExit, workerVars
  <2>2. A!Busy /\ proc.step = "next" /\ proc.plan = {} /\ ~A!Busy'
    <3>1. proc.step = "next" /\ proc.plan = {} /\ proc' = A!Idle
      BY <1>5 DEF ChildSucceeds, A!Succeed
    <3>2. A!Busy
      BY <2>1 DEF ChildKnows
    <3> QED BY <3>1, <3>2 DEF A!Busy, A!Idle
  <2>3. Delivered(active)
    BY <2>2 DEF ChildKnows
  <2>4. ChildKnows' /\ WorkerKnows'
    BY <1>1, <1>3, <2>1, <2>2, <2>3 DEF ChildKnows, WorkerKnows
  <2> QED BY <1>3, <2>4
<1>6. CASE ChildFails
  <2>1. /\ UNCHANGED <<worker, exit, runErr>> /\ child' = "fail" /\ child \in {"alive", "signalled"}
    BY <1>6 DEF ChildFails, ChildExit, workerVars
  <2>2. ~A!Busy'
    BY <1>6 DEF ChildFails, A!BuildFails, A!Fail, A!Killed, A!Idle, A!Busy
  <2>3. ChildKnows' /\ WorkerKnows'
    BY <1>1, <1>3, <2>1, <2>2 DEF ChildKnows, WorkerKnows
  <2> QED BY <1>3, <2>3
<1> QED BY <1>4, <1>5, <1>6


\* The child builds its recipe.  Where it writes on a file that is complete,
\* its own job is the one that runs.
LEMMA ChildBuilds ==
  ASSUME PartsInv, PartsInv', FarmInv, ChildStep
  PROVE  FarmInv'
<1> USE DEF FarmInv
<1>1. /\ UNCHANGED <<worker, child, active, state, exit, runErr>> /\ A!Busy'
      /\ proc \in A!Process /\ made \in [Jobs -> SUBSET (A!Name \cup {Nothing})]
      /\ proc.step \notin {"idle", "next"} => proc.now \in proc.plan
  BY DEF ChildStep, vars, jobVars, workerVars, PartsInv, A!TypeOK, WorkerKnows
<1>2. A!Busy
  <2>1. proc'.cmd = proc.cmd \/ proc' = A!Idle
    BY <1>1 DEF ChildStep, A!Setup, A!Integrate, A!Choose, A!Prepare, A!BeginPack, A!EndPack,
                A!Step, A!Done, A!Fail, A!Process
  <2> QED BY <1>1, <2>1 DEF A!Busy, A!Idle
<1>3. /\ child \in {"alive", "signalled"} /\ worker \in {"record", "wait"}
      /\ active \in Jobs /\ state[active] \in {"running", "cancelled"}
  BY <1>2, ChildFacts
<1>4. \A j \in Jobs : Unhappy(j)' <=> Unhappy(j)
  BY <1>1 DEF Unhappy
<1>5. CASE \E r \in Recipes : A!Setup(r) \/ A!Integrate(r)
  <2>1. /\ UNCHANGED cache /\ proc.plan # {} /\ proc.step \in {"next", "integrate"}
        /\ proc'.plan = proc.plan /\ proc'.step = "integrate"
    <3>1. PICK r \in Recipes : A!Setup(r) \/ A!Integrate(r)
      BY <1>5
    <3>2. CASE A!Setup(r)
      BY <1>1, <3>2 DEF A!Setup, A!First, A!Process
    <3>3. CASE A!Integrate(r)
      <4>1. A!Integratable(r)
        BY <1>1, <3>3 DEF A!Integrate, A!Fail, A!Idle, A!Busy
      <4>2. PICK d, e : proc' = [proc EXCEPT !.todo = d, !.root = e]
        BY <3>3, <4>1 DEF A!Integrate
      <4>3. proc'.plan = proc.plan /\ proc'.step = proc.step
        BY <1>1, <4>2 DEF A!Process
      <4> QED BY <1>1, <3>3, <4>3 DEF A!Integrate
    <3> QED BY <3>1, <3>2, <3>3
  <2>2. ~A!Choose
    BY <1>1, <2>1 DEF A!Choose, A!Process
  <2>3. UNCHANGED made
    BY <2>2 DEF ChildStep
  <2>4. ChildKnows'
    BY <1>1, <1>2, <2>1, <2>3 DEF ChildKnows
  <2> QED BY <1>1, <1>3, <1>4, <2>1, <2>3, <2>4 DEF WorkerKnows, SuccessLasts, Whole
<1>6. CASE A!Choose
  <2>1. /\ UNCHANGED cache /\ proc'.plan = proc.plan /\ proc'.step = "prepare"
        /\ proc.step = "integrate" /\ proc.plan # {}
    BY <1>1, <1>6 DEF A!Choose, A!Process
  <2>2. made' = [made EXCEPT ![active] = @ \cup {proc'.path}] /\ made[active] = {}
    BY <1>2, <1>6, <2>1 DEF ChildStep, ChildKnows
  <2>3. made'[active] = {proc'.path} /\ \A j \in Jobs \ {active} : made'[j] = made[j]
    BY <1>1, <1>3, <2>2
  <2>4. ChildKnows'
    BY <1>1, <1>2, <2>1, <2>3 DEF ChildKnows
  <2>5. proc'.path \in A!Name \cup {Nothing}
    BY DEF PartsInv, A!TypeOK, A!Process
  <2> QED BY <1>1, <1>3, <1>4, <2>1, <2>2, <2>3, <2>4, <2>5 DEF WorkerKnows, SuccessLasts, Whole
<1>7. CASE A!Prepare
  <2>1. /\ UNCHANGED cache /\ proc'.plan = proc.plan /\ proc'.step = "compile"
        /\ proc'.path = proc.path /\ proc.step = "prepare" /\ ~A!Choose
    BY <1>1, <1>7 DEF A!Prepare, A!Choose, A!Process
  <2>2. UNCHANGED made
    BY <2>1 DEF ChildStep
  <2>3. ChildKnows'
    BY <1>1, <1>2, <2>1, <2>2 DEF ChildKnows
  <2> QED BY <1>1, <1>3, <1>4, <2>1, <2>2, <2>3 DEF WorkerKnows, SuccessLasts, Whole

<1>8. CASE A!BeginPack \/ A!EndPack
  <2>1. PICK p : p = proc.path
    OBVIOUS
  <2>2. /\ proc.step \in {"compile", "pack"} /\ proc.plan = {proc.now} /\ made[active] = {p}
    BY <1>1, <1>2, <1>8, <2>1 DEF A!BeginPack, A!EndPack, ChildKnows
  <2>3. UNCHANGED made
    BY <2>2 DEF ChildStep, A!Choose
  <2>4. ASSUME NEW f, f # p, Whole(f) PROVE Whole(f)'
    BY <1>8, <2>1, <2>4 DEF Whole, A!BeginPack, A!EndPack, A!Written
  <2>5. SuccessLasts'
    <3> SUFFICES ASSUME NEW j \in Jobs, state[j] = "success"
                 PROVE  \E f \in made[j] : Whole(f)' \/ \E k \in Jobs :
                            f \in made[k] /\ (Unhappy(k) \/ state[k] = "running")
      BY <1>1, <1>4, <2>3 DEF SuccessLasts
    <3>1. PICK f \in made[j] : Whole(f) \/ \E k \in Jobs :
                            f \in made[k] /\ (Unhappy(k) \/ state[k] = "running")
      BY DEF SuccessLasts
    <3>2. f = p => f \in made[active] /\ (Unhappy(active) \/ state[active] = "running")
      BY <1>3, <2>2 DEF Unhappy
    <3> QED BY <1>3, <2>4, <3>1, <3>2
  <2>6. WorkerKnows'
    BY <1>1, <1>3, <2>3 DEF WorkerKnows
  <2>7. CASE A!BeginPack
    <3>1. proc'.plan = proc.plan /\ proc'.step = "pack" /\ proc'.path = proc.path
      BY <1>1, <2>7 DEF A!BeginPack, A!Step, A!Process
    <3>2. ChildKnows'
      BY <1>1, <1>2, <2>1, <2>2, <2>3, <3>1 DEF ChildKnows
    <3> QED BY <2>5, <2>6, <3>2
  <2>8. CASE A!EndPack
    <3>1. proc'.plan = {} /\ proc'.step = "next"
      BY <1>1, <2>2, <2>8 DEF A!EndPack, A!Done, A!Process
    <3>2. Whole(p)'
      BY <2>1, <2>8 DEF Whole, A!EndPack, A!Written
    <3>3. Delivered(active)'
      BY <1>1, <2>2, <2>3, <3>2 DEF Delivered
    <3>4. ChildKnows'
      BY <1>1, <1>2, <3>1, <3>3 DEF ChildKnows
    <3> QED BY <2>5, <2>6, <3>4
  <2> QED BY <1>8, <2>7, <2>8
<1> QED BY <1>5, <1>6, <1>7, <1>8 DEF ChildStep


LEMMA FarmStarts == FarmInit => FarmInv
<1> SUFFICES ASSUME FarmInit PROVE FarmInv
  OBVIOUS
<1>1. child = "none" /\ ~A!Busy
  BY DEF FarmInit, Init, A!Init, A!Idle, A!Busy
<1> QED BY <1>1 DEF FarmInit, Init, FarmInv, ChildKnows, WorkerKnows, SuccessLasts

LEMMA FarmStays == PartsInv /\ PartsInv' /\ FarmInv /\ [FarmNext]_farmVars => FarmInv'
<1> SUFFICES ASSUME PartsInv, PartsInv', FarmInv, [FarmNext]_farmVars PROVE FarmInv'
  OBVIOUS
<1> DEFINE Old(j) == \/ state'[j] = state[j]
                     \/ state[j] = "new" /\ state'[j] = "queued"
                     \/ state[j] \in {"queued", "running"} /\ state'[j] = "cancelled"
<1>1. ASSUME NEW c \in Clients, Handler(c), UNCHANGED <<cache, proc, made>>
      PROVE  FarmInv'
  <2>1. \A j \in Jobs : Old(j)
    BY <1>1, HandlerKeeps DEF PartsInv
  <2>2. /\ UNCHANGED <<active, exit, runErr>>
        /\ worker' = worker \/ (worker = "asleep" /\ worker' = "check")
    BY <1>1, HandlerKeeps DEF PartsInv, Broadcast
  <2>3. child' = child \/ (child = "alive" /\ child' = "signalled")
    <3>1. CASE CancelJob(c)
      BY <3>1 DEF CancelJob, CancelQueued, CancelRunning, CancelFinished, Kill
    <3>2. CASE ~CancelJob(c)
      BY <1>1, <3>2 DEF Handler, RequestPlan, RequestJob, Receive, EnqueueJob, Broadcast, FindJob
    <3> QED BY <3>1, <3>2
  <2> QED BY <1>1, <2>1, <2>2, <2>3, OthersKeep
<1>2. ASSUME NEW c \in Clients, NEW ids \in Requests, NEW force \in BOOLEAN,
             RequestBuild(c, ids, force)
      PROVE  FarmInv'
  BY <1>1, <1>2, RequestRefines DEF RequestBuild, Handler, pipelineVars
<1>3. ASSUME NEW c \in Clients, EnqueueBuild(c) \/ ServerOnly(c) PROVE FarmInv'
  BY <1>1, <1>3 DEF EnqueueBuild, ServerOnly, Handler, pipelineVars
<1>4. CASE Reload \/ People \/ UNCHANGED farmVars
  <2>1. UNCHANGED <<cache, proc, made, vars>>
    BY <1>4 DEF Reload, People, farmVars, pipelineVars, A!People, A!EditRecipe,
                A!OpenWorkspace, A!CloseWorkspace
  <2>2. UNCHANGED <<active, exit, runErr, worker, child, state>>
    BY <2>1 DEF vars, jobVars, workerVars
  <2> QED BY <2>1, <2>2, OthersKeep
<1> QED BY <1>2, <1>3, <1>4, WorkerKeeps, ChildComesAndGoes, ChildBuilds DEF FarmNext

(***************************************************************************)
(* A job that the dashboard shows as success has left its artifact,        *)
(* complete, under the name it chose, until a job on the same artifact     *)
(* that is running or did not end well wrote there: for every project,     *)
(* whatever is cancelled, edited or planned meanwhile.                     *)
(***************************************************************************)
THEOREM FarmSuccessLasts == FarmSpec => []SuccessLasts
<1>1. FarmInv => SuccessLasts
  BY DEF FarmInv
<1> QED BY <1>1, FarmStarts, FarmStays, PartsInvariant, PTL DEF FarmSpec

-----------------------------------------------------------------------------
(***************************************************************************)
(* What a plan is worth as long as nobody touches recipes and workspaces.  *)
(***************************************************************************)

\* There is a file for q as the recipes and workspaces are now.
InCache(q) == A!CacheFile(text, q) \in DOMAIN cache

\* What was planned was planned before, or for recipes the server had not read.
Date == (0 .. events) \cup {Outdated}
Dates ==
  /\ planned \in [Clients -> Date] /\ since \in [Jobs -> Date]
  /\ asked \in [Clients -> SUBSET Recipes]

\* A command builds the recipe of the active job, from the texts as they are if
\* nothing has happened since the job was planned.
ChildInPlan ==
  A!Busy => /\ proc.plan \subseteq {recipe[active]}
            /\ proc.todo \subseteq Below[recipe[active]]
            /\ since[active] = events => proc.pool = text

\* A file that is not complete was chosen by a job that runs or did not end well;
\* a job chooses files of its recipe, and those of now if nothing has happened
\* since it was planned; a success has left one.
Blamed(k) == Unhappy(k) \/ state[k] = "running"
FilesKnown ==
  /\ \A f \in DOMAIN cache : Whole(f) \/ \E k \in Jobs : f \in made[k] /\ Blamed(k)
  /\ \A j \in Jobs : \A f \in made[j] :
       f.recipe = recipe[j] /\ (since[j] = events => f = A!CacheFile(text, recipe[j]))
  /\ \A j \in Jobs : state[j] = "success" => \E f \in made[j] : f \in DOMAIN cache

\* What is needed below a job that was planned for the recipes as they are is in
\* the cache or has a job that is over when this one is taken.
HasJob(q, j) ==
  \E k \in Jobs : state[k] # "new" /\ recipe[k] = q /\ since[k] = events /\ InOrder(k, j)
JobsPlanned ==
  \A j \in Jobs : state[j] # "new" /\ since[j] = events =>
    \A q \in Below[recipe[j]] : InCache(q) \/ HasJob(q, j)

\* The same of what a client has still to enqueue, and of all it asked for.
Enqueued(c, q) == \E j \in Range(plan[c]) : recipe[j] = q
RestOf(c) ==
  /\ \A j \in Range(plan[c]) : since[j] = planned[c]
  /\ planned[c] = events =>
       /\ \A i \in asked[c] : \A q \in A!Needs(i) :
            InCache(q) \/ q \in Range(order[c]) \/ Enqueued(c, q)
       /\ \A i \in DOMAIN order[c] : \A q \in Below[order[c][i]] :
            \/ InCache(q) \/ Enqueued(c, q)
            \/ \E m \in DOMAIN order[c] : m < i /\ order[c][m] = q
RestPlanned == \A c \in Clients : RestOf(c)

WorthInv == Dates /\ ChildInPlan /\ FilesKnown /\ JobsPlanned /\ RestPlanned

\* Only people change what names files; and no file ever leaves the cache.
LEMMA OutsideStays ==
  ASSUME [FarmNext]_farmVars
  PROVE  /\ People \/ UNCHANGED <<text, open, events>>
         /\ DOMAIN cache \subseteq DOMAIN cache'
<1>1. CASE People
  BY <1>1 DEF People, A!People, A!EditRecipe, A!OpenWorkspace, A!CloseWorkspace
<1>2. CASE StartChild \/ ChildStep \/ ChildSucceeds \/ ChildFails
  BY <1>2 DEF StartChild, ChildStep, ChildSucceeds, ChildFails, A!StartBuildOne, A!Start,
     A!Setup, A!Integrate, A!Choose, A!Prepare, A!BeginPack, A!EndPack, A!Written, A!Succeed,
     A!BuildFails, A!Killed, A!outside
<1>3. CASE UNCHANGED pipelineVars
  BY <1>3 DEF pipelineVars
<1> QED
  BY <1>1, <1>2, <1>3 DEF FarmNext, RequestBuild, EnqueueBuild, ServerOnly, WorkerOnly, Reload,
     farmVars

\* When people do something, nothing is planned for the recipes as they are.
LEMMA PeopleOutdate ==
  ASSUME PartsInv, FarmInv, WorthInv, People
  PROVE  WorthInv'
<1>1. /\ events' = events + 1 /\ events < MaxEvents /\ events \in Nat /\ MaxEvents \in Nat
      /\ UNCHANGED <<cache, proc>>
  BY BuildFarmAssumption DEF People, A!People, A!EditRecipe, A!OpenWorkspace, A!CloseWorkspace,
     A!Event, PartsInv, A!TypeOK, A!ArtifactsAssumption
<1>2. UNCHANGED <<state, active, plan, order, recipe, asked, planned, since, made>>
  BY DEF People, vars, jobVars, handlerVars, planVars
<1>3. Dates' /\ \A n \in Date : n \in Date' /\ n # events'
  <2>1. \A n \in Date : n \in Date' /\ n # events'
    BY <1>1 DEF Date, Outdated
  <2> QED BY <1>2, <2>1 DEF WorthInv, Dates
<1>4. (\A c \in Clients : planned'[c] # events') /\ (\A j \in Jobs : since'[j] # events')
  BY <1>2, <1>3 DEF WorthInv, Dates
<1>5. ChildInPlan'
  <2>1. A!Busy => active \in Jobs
    BY ChildFacts
  <2> QED BY <1>1, <1>2, <1>4, <2>1 DEF WorthInv, ChildInPlan, A!Busy
<1>6. FilesKnown'
  BY <1>1, <1>2, <1>4 DEF WorthInv, FilesKnown, Whole, Blamed, Unhappy
<1>7. JobsPlanned' /\ RestPlanned'
  BY <1>2, <1>4 DEF WorthInv, JobsPlanned, RestPlanned, RestOf
<1> QED BY <1>3, <1>5, <1>6, <1>7 DEF WorthInv

LEMMA DatesStay ==
  ASSUME PartsInv, Dates, [FarmNext]_farmVars, UNCHANGED events
  PROVE  Dates'
<1>1. Date' = Date
  BY DEF Date
<1>2. Current \in Date
  BY DEF Current, Date, PartsInv, A!TypeOK
<1>3. ASSUME NEW c \in Clients, NEW ids \in Requests, NEW force \in BOOLEAN,
             RequestBuild(c, ids, force)
      PROVE  Dates'
  <2>1. ids \subseteq Recipes
    BY BuildFarmAssumption DEF A!ArtifactsAssumption
  <2> QED BY <1>1, <1>2, <1>3, <2>1 DEF RequestBuild, Dates
<1>4. ASSUME NEW c \in Clients, EnqueueBuild(c) PROVE Dates'
  <2>1. PICK j : since' = [since EXCEPT ![j] = planned[c]]
    BY <1>4 DEF EnqueueBuild
  <2> QED BY <1>1, <1>4, <2>1 DEF EnqueueBuild, Dates
<1>5. CASE UNCHANGED planVars
  BY <1>1, <1>5 DEF planVars, Dates
<1> QED
  BY <1>3, <1>4, <1>5 DEF FarmNext, ServerOnly, WorkerOnly, StartChild, ChildStep, ChildSucceeds,
     ChildFails, Reload, People, farmVars

\* The job that is enqueued is a new one, of the recipe that is first.
LEMMA NewJob ==
  ASSUME PartsInv, Dates, NEW c \in Clients, EnqueueBuild(c)
  PROVE  \E j \in Jobs :
           /\ state[j] = "new" /\ state' = [state EXCEPT ![j] = "queued"] /\ j # active
           /\ plan' = [plan EXCEPT ![c] = Append(@, j)]
           /\ recipe' = [recipe EXCEPT ![j] = Head(order[c])]
           /\ since' = [since EXCEPT ![j] = planned[c]]
           /\ order' = [order EXCEPT ![c] = Tail(@)]
           /\ order[c] \in Seq(Recipes) /\ order[c] # <<>>
           /\ recipe'[j] = Head(order[c]) /\ since'[j] = planned[c]
           /\ plan'[c] = Append(plan[c], j) /\ order'[c] = Tail(order[c])
<1>1. /\ plan \in [Clients -> Seq(Jobs)] /\ todo \in [Clients -> Seq(Nat)] /\ IndInv
      /\ order \in [Clients -> Seq(Recipes)] /\ recipe \in [Jobs -> Recipes \cup {Nothing}]
      /\ since \in [Jobs -> Date]
  BY DEF PartsInv, IndInv, TypeOK, Plans, Dates
<1>2. PICK j \in Jobs : /\ state[j] = "new" /\ state' = [state EXCEPT ![j] = "queued"]
                        /\ plan' = [plan EXCEPT ![c] = Append(@, j)]
  BY DEF EnqueueBuild, EnqueueJob, Unissued
<1>3. plan'[c] = Append(plan[c], j)
  BY <1>1, <1>2
<1>4. Last(plan'[c]) = j
  <2>1. plan[c] \in Seq(Jobs)
    BY <1>1
  <2> QED BY <1>3, <2>1 DEF Last
<1>5. /\ recipe' = [recipe EXCEPT ![j] = Head(order[c])]
      /\ since' = [since EXCEPT ![j] = planned[c]]
      /\ order' = [order EXCEPT ![c] = Tail(@)]
  BY <1>4 DEF EnqueueBuild
<1>6. order[c] \in Seq(Recipes) /\ order[c] # <<>>
  <2>1. todo[c] \in Seq(Nat) /\ todo[c] # <<>>
    BY <1>1 DEF EnqueueBuild, EnqueueJob, IndInv, HandlersReady
  <2> QED BY <2>1, EmptySeq DEF PartsInv, Plans
<1>7. j # active
  BY <1>1, <1>2, ActiveIsKnown, JobServerAssumption DEF IndInv, TypeOK, Terminal
<1> QED BY <1>1, <1>2, <1>3, <1>5, <1>6, <1>7

\* The recipe of a job that exists, and the plan it is part of, stay.
LEMMA KnownJobStays ==
  ASSUME PartsInv, Dates, [FarmNext]_farmVars, NEW j \in Jobs, state[j] # "new"
  PROVE  recipe'[j] = recipe[j] /\ since'[j] = since[j] /\ state'[j] # "new"
<1>1. recipe \in [Jobs -> Recipes \cup {Nothing}] /\ since \in [Jobs -> Date]
  BY DEF PartsInv, Plans, Dates
<1>2. state'[j] # "new"
  BY ServerStep, KnownStays DEF PartsInv
<1>3. ASSUME NEW c \in Clients, EnqueueBuild(c) PROVE UNCHANGED <<recipe[j], since[j]>>
  BY <1>1, <1>3, NewJob
<1>4. CASE UNCHANGED <<recipe, since>>
  BY <1>2, <1>4
<1> QED
  BY <1>2, <1>3, <1>4 DEF FarmNext, RequestBuild, ServerOnly, WorkerOnly, StartChild, ChildStep,
     ChildSucceeds, ChildFails, Reload, People, farmVars, planVars

\* What is known of the command stays known while it runs.
LEMMA ChildInPlanStays ==
  ASSUME PartsInv, FarmInv, Dates, ChildInPlan, [FarmNext]_farmVars,
         UNCHANGED <<text, open, events>>
  PROVE  ChildInPlan'
<1>1. proc \in A!Process /\ (proc.step \notin {"idle", "next"} => proc.now \in proc.plan)
      /\ A!Idle.cmd = "none"
  BY DEF PartsInv, A!TypeOK, A!Idle
<1>2. A!Busy => active \in Jobs /\ state[active] # "new"
  BY ChildFacts
<1>3. A!Busy => recipe'[active] = recipe[active] /\ since'[active] = since[active]
  BY <1>2, KnownJobStays
\* A step of the command that keeps to its recipe.
<1>4. ASSUME A!Busy, UNCHANGED active, proc'.plan \subseteq proc.plan, proc'.pool = proc.pool,
             proc'.todo \subseteq Below[recipe[active]]
      PROVE  ChildInPlan'
  BY <1>3, <1>4 DEF ChildInPlan
<1>5. ASSUME ~A!Busy' PROVE ChildInPlan'
  BY <1>5 DEF ChildInPlan
<1>6. CASE StartChild
  <2>1. /\ proc'.pool = text /\ proc'.plan = {recipe[active]} /\ proc'.todo = {}
        /\ UNCHANGED <<active, recipe>>
    BY <1>6 DEF StartChild, Spawn, A!StartBuildOne, A!Start, A!Idle, planVars
  <2> QED BY <2>1 DEF ChildInPlan
<1>7. CASE ChildStep
  <2>1. A!Busy
    <3>1. proc'.cmd = proc.cmd \/ proc' = A!Idle
      BY <1>1, <1>7 DEF ChildStep, A!Setup, A!Integrate, A!Choose, A!Prepare, A!BeginPack,
                        A!EndPack, A!Step, A!Done, A!Fail, A!Process
    <3> QED BY <1>1, <1>7, <3>1 DEF ChildStep, A!Busy
  <2>2. /\ UNCHANGED active /\ A!Busy'
        /\ proc.plan \subseteq {recipe[active]} /\ proc.todo \subseteq Below[recipe[active]]
    BY <1>7, <2>1 DEF ChildStep, vars, ChildInPlan
  <2>3. ASSUME NEW r \in Recipes, A!Setup(r) PROVE ChildInPlan'
    <3>1. /\ proc'.plan = proc.plan /\ proc'.pool = proc.pool /\ proc'.todo \subseteq Below[r]
          /\ r \in proc.plan
      BY <1>1, <2>3 DEF A!Setup, A!First, A!Process
    <3> QED BY <1>4, <2>1, <2>2, <3>1
  <2>4. ASSUME NEW q \in Recipes, A!Integrate(q) PROVE ChildInPlan'
    <3>1. A!Integratable(q)
      BY <1>1, <2>2, <2>4 DEF A!Integrate, A!Fail, A!Busy
    <3>2. PICK e : proc' = [proc EXCEPT !.todo = @ \ {q}, !.root = e]
      BY <2>4, <3>1 DEF A!Integrate
    <3>3. proc'.plan = proc.plan /\ proc'.pool = proc.pool /\ proc'.todo \subseteq proc.todo
      BY <1>1, <3>2 DEF A!Process
    <3> QED BY <1>4, <2>1, <2>2, <3>3
  <2>5. CASE A!Choose \/ A!Prepare \/ A!BeginPack \/ A!EndPack
    <3>1. proc'.plan \subseteq proc.plan /\ proc'.pool = proc.pool /\ proc'.todo \subseteq proc.todo
      BY <1>1, <2>5 DEF A!Choose, A!Prepare, A!BeginPack, A!EndPack, A!Step, A!Done, A!Process
    <3> QED BY <1>4, <2>1, <2>2, <3>1
  <2> QED BY <1>7, <2>3, <2>4, <2>5 DEF ChildStep
<1>8. CASE ChildSucceeds \/ ChildFails
  <2>1. ~A!Busy'
    BY <1>1, <1>8 DEF ChildSucceeds, ChildFails, A!Succeed, A!BuildFails, A!Fail, A!Killed, A!Busy
  <2> QED BY <1>5, <2>1
<1>9. ASSUME UNCHANGED proc, UNCHANGED active \/ ~A!Busy PROVE ChildInPlan'
  <2>1. A!Busy' <=> A!Busy
    BY <1>9 DEF A!Busy
  <2> QED BY <1>3, <1>9, <2>1 DEF ChildInPlan
<1>10. CASE WorkerOnly
  <2>1. ~A!Busy \/ worker \in {"record", "wait"}
    BY ChildFacts
  <2>2. UNCHANGED active \/ ~A!Busy
    BY <1>10, <2>1 DEF WorkerOnly, Sleep, TakeJob, OpenLog, RecordPid, Reap, ClearPid, Judge,
       Verdict, WriteState, Archive, Spawn
  <2>3. UNCHANGED proc
    BY <1>10 DEF WorkerOnly, pipelineVars
  <2> QED BY <1>9, <2>2, <2>3
<1>11. ASSUME NEW c \in Clients, NEW ids \in Requests, NEW force \in BOOLEAN,
              RequestBuild(c, ids, force)
       PROVE  UNCHANGED <<proc, active>>
  BY <1>11 DEF RequestBuild, Receive, pipelineVars
<1>12. ASSUME NEW c \in Clients, EnqueueBuild(c) \/ ServerOnly(c) PROVE UNCHANGED <<proc, active>>
  BY <1>12 DEF EnqueueBuild, EnqueueJob, ServerOnly, Broadcast, FindJob, CancelJob, pipelineVars
<1>13. CASE Reload \/ People \/ UNCHANGED farmVars
  <2>1. UNCHANGED <<proc, active>>
    BY <1>13 DEF Reload, People, A!People, A!EditRecipe, A!OpenWorkspace, A!CloseWorkspace,
       vars, farmVars, pipelineVars
  <2> QED BY <1>9, <2>1
<1> QED
  BY <1>6, <1>7, <1>8, <1>9, <1>10, <1>11, <1>12, <1>13 DEF FarmNext

\* No outcome but that of a command that has delivered comes into the state of a
\* job, and blame is taken back for such an outcome only.
LEMMA BlameStays ==
  ASSUME PartsInv, FarmInv, [FarmNext]_farmVars, NEW j \in Jobs
  PROVE  /\ Blamed(j) => Blamed(j)' \/ (Delivered(j) /\ UNCHANGED <<cache, made>>)
         /\ state'[j] = "success" => state[j] = "success"
                                     \/ (Delivered(j) /\ UNCHANGED <<cache, made>>)
<1>1. /\ state \in [Jobs -> JobState \cup {"new"}] /\ queue \in Seq(Jobs)
      /\ IndInv /\ Sized
  BY DEF PartsInv, IndInv, TypeOK
<1> USE DEF Blamed, Unhappy
<1>2. ASSUME NEW c \in Clients, Handler(c)
      PROVE  /\ Blamed(j) => Blamed(j)'
             /\ state'[j] = "success" => state[j] = "success"
  BY <1>1, <1>2, HandlerKeeps
<1>3. CASE UNCHANGED state
  BY <1>3
<1>4. CASE WorkerOnly /\ TakeJob
  <2>1. Head(queue) \in Jobs /\ Head(queue) \in Range(queue)
    BY <1>1, <1>4, TailFacts DEF TakeJob
  <2>2. state[Head(queue)] = "queued"
    BY <1>1, <2>1 DEF IndInv, OnePlace
  <2> QED BY <1>1, <1>4, <2>1, <2>2 DEF TakeJob
<1>5. CASE WorkerOnly /\ OpenLog
  <2>1. active \in Jobs /\ (UNCHANGED state \/ state' = [state EXCEPT ![active] = "failed"])
    BY <1>5, ActiveFacts DEF OpenLog
  <2> QED BY <1>1, <2>1
<1>6. CASE WorkerOnly /\ WriteState
  <2>1. /\ active \in Jobs /\ worker = "write"
        /\ state' = [state EXCEPT ![active] = IF runErr THEN "failed" ELSE "success"]
        /\ UNCHANGED <<cache, made>>
    BY <1>6, ActiveFacts DEF WriteState, WorkerOnly, pipelineVars
  <2>2. ~runErr => Delivered(active)
    BY <2>1 DEF FarmInv, WorkerKnows
  <2> QED BY <1>1, <2>1, <2>2
<1>7. CASE WorkerOnly /\ ~TakeJob /\ ~OpenLog /\ ~WriteState
  <2>1. UNCHANGED state
    BY <1>7 DEF WorkerOnly, Sleep, RecordPid, Reap, ClearPid, Judge, Verdict, Archive, Spawn, jobVars
  <2> QED BY <1>3, <2>1
<1>8. CASE StartChild \/ ChildStep \/ ChildSucceeds \/ ChildFails \/ Reload \/ People
           \/ UNCHANGED farmVars
  <2>1. UNCHANGED state
    BY <1>8 DEF StartChild, ChildStep, ChildSucceeds, ChildFails, Reload, People, farmVars, vars,
       Spawn, ChildExit, jobVars
  <2> QED BY <1>3, <2>1
<1>9. ASSUME NEW c \in Clients, NEW ids \in Requests, NEW force \in BOOLEAN,
             RequestBuild(c, ids, force)
      PROVE  Handler(c)
  BY <1>9, RequestRefines DEF Handler
<1>10. ASSUME NEW c \in Clients, EnqueueBuild(c) \/ ServerOnly(c) PROVE Handler(c)
  BY <1>10 DEF EnqueueBuild, ServerOnly, Handler
<1> QED BY <1>2, <1>4, <1>5, <1>6, <1>7, <1>8, <1>9, <1>10 DEF FarmNext

\* Which files the jobs have chosen changes in ChildStep only, and so does the cache.
LEMMA CacheByChild ==
  ASSUME [FarmNext]_farmVars, ~ChildStep
  PROVE  UNCHANGED <<cache, made>>
BY DEF FarmNext, RequestBuild, EnqueueBuild, ServerOnly, WorkerOnly, StartChild, ChildSucceeds,
   ChildFails, Reload, People, farmVars, pipelineVars, A!StartBuildOne, A!Start, A!Succeed,
   A!BuildFails, A!Integrate, A!Killed, A!People, A!EditRecipe, A!OpenWorkspace, A!CloseWorkspace

\* A job that has chosen files exists.
LEMMA MakersExist ==
  ASSUME PartsInv, FarmInv, Dates, [FarmNext]_farmVars, NEW j \in Jobs, made[j] # {}
  PROVE  recipe'[j] = recipe[j] /\ since'[j] = since[j]
<1>1. state[j] # "new"
  BY DEF FarmInv, WorkerKnows
<1> QED BY <1>1, KnownJobStays

LEMMA FilesStayKnown ==
  ASSUME PartsInv, PartsInv', FarmInv, Dates, ChildInPlan, FilesKnown, [FarmNext]_farmVars,
         UNCHANGED <<text, open, events>>
  PROVE  FilesKnown'
<1>1. /\ made \in [Jobs -> SUBSET (A!Name \cup {Nothing})] /\ proc \in A!Process
      /\ (proc.step \notin {"idle", "next"} => proc.now \in proc.plan)
      /\ DOMAIN cache \subseteq DOMAIN cache'
  BY OutsideStays DEF FarmInv, WorkerKnows, PartsInv, A!TypeOK
<1>4. CASE UNCHANGED <<cache, made>>
  <2>1. \A f : Whole(f)' <=> Whole(f)
    BY <1>4 DEF Whole
  <2>2. ASSUME NEW f \in DOMAIN cache PROVE Whole(f) \/ \E k \in Jobs : f \in made[k] /\ Blamed(k)'
    <3>1. CASE Whole(f)
      BY <3>1
    <3>2. ASSUME NEW k \in Jobs, f \in made[k], Blamed(k)
          PROVE  Whole(f) \/ Blamed(k)'
      BY <3>2, BlameStays DEF Delivered
    <3> QED BY <3>1, <3>2 DEF FilesKnown
  <2>3. ASSUME NEW j \in Jobs, NEW f \in made[j]
        PROVE  f.recipe = recipe'[j] /\ (since'[j] = events => f = A!CacheFile(text, recipe'[j]))
    BY <2>3, MakersExist DEF FilesKnown
  <2>4. ASSUME NEW j \in Jobs, state'[j] = "success" PROVE \E f \in made[j] : f \in DOMAIN cache
    BY <2>4, BlameStays DEF FilesKnown, Delivered, Whole
  <2>5. \A j \in Jobs : A!CacheFile(text, recipe[j])' = A!CacheFile(text, recipe'[j])
    BY DEF A!CacheFile, A!Package, A!WorkspacePackage, A!Hash, A!Needs
  <2> QED BY <1>4, <2>1, <2>2, <2>3, <2>4, <2>5 DEF FilesKnown
<1>5. CASE ChildStep
  <2>1. /\ UNCHANGED <<state, active, recipe, since>> /\ A!Busy'
    BY <1>5 DEF ChildStep, vars, jobVars, planVars
  <2>2. \A k \in Jobs : Blamed(k)' <=> Blamed(k)
    BY <2>1 DEF Blamed, Unhappy
  <2>3. A!Busy
    <3>1. proc'.cmd = proc.cmd \/ proc' = A!Idle
      BY <1>1, <1>5 DEF ChildStep, A!Setup, A!Integrate, A!Choose, A!Prepare, A!BeginPack,
                        A!EndPack, A!Step, A!Done, A!Fail, A!Process
    <3> QED BY <2>1, <3>1 DEF A!Busy, A!Idle
  <2>4. active \in Jobs /\ Blamed(active) /\ state[active] # "success"
    BY <2>3, ChildFacts DEF Blamed, Unhappy
  <2>5. \A j : A!CacheFile(text, recipe[j])' = A!CacheFile(text, recipe[j])
    BY <2>1 DEF A!CacheFile, A!Package, A!WorkspacePackage, A!Hash, A!Needs
  <2>6. CASE A!Choose
    <3> DEFINE p == A!CacheFile(proc.pool, proc.now)
    <3>1. UNCHANGED cache /\ proc'.path = p /\ proc.step = "integrate"
      BY <1>1, <2>6 DEF A!Choose, A!Process
    <3>2. proc.now = recipe[active] /\ (since[active] = events => proc.pool = text)
      BY <1>1, <2>3, <3>1 DEF ChildInPlan
    <3>3. p.recipe = proc.now
      BY DEF A!CacheFile, A!Package, A!WorkspacePackage
    <3>4. since[active] = events => p = A!CacheFile(text, recipe[active])
      BY <3>2
    <3> HIDE DEF p
    <3>5. made' = [made EXCEPT ![active] = @ \cup {p}]
      BY <1>5, <2>6, <3>1 DEF ChildStep
    <3>6. \A j \in Jobs : made'[j] = made[j] \/ (j = active /\ made'[j] = made[j] \cup {p})
      BY <1>1, <3>5
    <3>7. \A f : Whole(f)' <=> Whole(f)
      BY <3>1 DEF Whole
    <3>8. \A f \in DOMAIN cache' : Whole(f)' \/ \E k \in Jobs : f \in made'[k] /\ Blamed(k)'
      BY <2>2, <3>1, <3>6, <3>7 DEF FilesKnown
    <3>9. \A j \in Jobs : \A f \in made'[j] :
            f.recipe = recipe[j] /\ (since[j] = events => f = A!CacheFile(text, recipe[j]))
      BY <3>2, <3>3, <3>4, <3>6 DEF FilesKnown
    <3>10. \A j \in Jobs : state[j] = "success" => \E f \in made'[j] : f \in DOMAIN cache
      BY <3>6 DEF FilesKnown
    <3> QED BY <2>1, <2>5, <3>1, <3>8, <3>9, <3>10 DEF FilesKnown
  <2>7. CASE A!BeginPack \/ A!EndPack
    <3>1. PICK p : p = proc.path
      OBVIOUS
    <3>2. proc.step \in {"compile", "pack"} /\ made[active] = {p}
      BY <1>1, <2>3, <2>7, <3>1 DEF A!BeginPack, A!EndPack, FarmInv, ChildKnows
    <3>3. UNCHANGED made
      BY <1>5, <3>2 DEF ChildStep, A!Choose
    <3>4. ASSUME NEW f, f # p, Whole(f) PROVE Whole(f)'
      BY <2>7, <3>1, <3>4 DEF Whole, A!BeginPack, A!EndPack, A!Written
    <3>5. DOMAIN cache' = DOMAIN cache \cup {p}
      BY <2>7, <3>1 DEF A!BeginPack, A!EndPack, A!Written
    <3>6. \A f \in DOMAIN cache' : Whole(f)' \/ \E k \in Jobs : f \in made'[k] /\ Blamed(k)'
      BY <2>2, <2>4, <3>2, <3>3, <3>4, <3>5 DEF FilesKnown
    <3> QED BY <2>1, <2>5, <3>3, <3>5, <3>6 DEF FilesKnown
  <2>8. CASE ~A!Choose /\ ~A!BeginPack /\ ~A!EndPack
    <3>1. UNCHANGED cache
      BY <1>5, <2>8 DEF ChildStep, A!Setup, A!Integrate, A!Prepare
    <3>2. UNCHANGED made
      BY <1>5, <2>8 DEF ChildStep
    <3> QED BY <1>4, <3>1, <3>2
  <2> QED BY <2>6, <2>7, <2>8
<1> QED BY <1>4, <1>5, CacheByChild

\* Once there is a file, or a job that comes first, there stays one.
LEMMA FileStays ==
  ASSUME [FarmNext]_farmVars, UNCHANGED <<text, open, events>>, NEW q, InCache(q)
  PROVE  InCache(q)'
<1>1. A!CacheFile(text, q)' = A!CacheFile(text, q)
  BY DEF A!CacheFile, A!Package, A!WorkspacePackage, A!Hash, A!Needs
<1> QED BY <1>1, OutsideStays DEF InCache

LEMMA JobStays ==
  ASSUME PartsInv, Dates, [FarmNext]_farmVars, UNCHANGED events,
         NEW j \in Jobs, state[j] # "new", NEW q, HasJob(q, j)
  PROVE  HasJob(q, j)'
<1>1. PICK k \in Jobs : state[k] # "new" /\ recipe[k] = q /\ since[k] = events /\ InOrder(k, j)
  BY DEF HasJob
<1>2. state'[k] # "new" /\ recipe'[k] = q /\ since'[k] = events'
  BY <1>1, KnownJobStays
<1>3. InOrder(k, j)'
  BY <1>1, ServerStep, OrderStays DEF PartsInv
<1> QED BY <1>2, <1>3 DEF HasJob

LEMMA JobsStayPlanned ==
  ASSUME PartsInv, PlanInv, PlanInv', Dates, JobsPlanned, RestPlanned, [FarmNext]_farmVars,
         UNCHANGED <<text, open, events>>
  PROVE  JobsPlanned'
<1> SUFFICES ASSUME NEW j \in Jobs, state'[j] # "new", since'[j] = events',
                    NEW q \in Below[recipe'[j]]
             PROVE  InCache(q)' \/ HasJob(q, j)'
  BY DEF JobsPlanned
<1>1. CASE state[j] # "new"
  <2>1. recipe'[j] = recipe[j] /\ since[j] = events
    BY <1>1, KnownJobStays
  <2>2. InCache(q) \/ HasJob(q, j)
    BY <1>1, <2>1 DEF JobsPlanned
  <2> QED BY <1>1, <2>2, FileStays, JobStays
<1>2. CASE state[j] = "new"
  <2>1. PICK c \in Clients : EnqueueBuild(c)
    <3>1. ~NoNewJob
      BY <1>2 DEF NoNewJob
    <3>2. ASSUME NEW c \in Clients, NEW ids \in Requests, NEW force \in BOOLEAN,
                 RequestBuild(c, ids, force)
          PROVE  FALSE
      BY <1>2, <3>2 DEF RequestBuild, Receive, jobVars
    <3> QED BY <3>1, <3>2, OldJobs DEF FarmNext, PartsInv
  <2>2. PICK i \in Jobs :
           /\ state[i] = "new" /\ state' = [state EXCEPT ![i] = "queued"]
           /\ order[c] \in Seq(Recipes) /\ order[c] # <<>>
           /\ recipe'[i] = Head(order[c]) /\ since'[i] = planned[c]
           /\ plan'[c] = Append(plan[c], i)
    BY <2>1, NewJob
  <2>3. /\ state \in [Jobs -> JobState \cup {"new"}] /\ plan[c] \in Seq(Jobs)
    BY DEF PartsInv, IndInv, TypeOK
  <2>4. i = j
    BY <1>2, <2>2, <2>3
  <2>5. planned[c] = events /\ 1 \in DOMAIN order[c] /\ recipe'[j] = order[c][1]
        /\ \A m \in DOMAIN order[c] : ~(m < 1)
    BY <2>2, <2>4
  <2>6. InCache(q) \/ Enqueued(c, q)
    BY <2>5 DEF RestPlanned, RestOf
  <2>7. ASSUME Enqueued(c, q) PROVE HasJob(q, j)'
    <3>1. PICK k \in Range(plan[c]) : recipe[k] = q
      BY <2>7 DEF Enqueued
    <3>2. k \in Jobs /\ since[k] = events
      BY <2>3, <2>5, <3>1 DEF RestPlanned, RestOf, Range
    <3>3. state[k] # "new"
      BY <3>1, <3>2 DEF PlanInv
    <3>4. recipe'[k] = q /\ since'[k] = events' /\ state'[k] # "new"
      BY <3>1, <3>2, <3>3, KnownJobStays
    <3>5. PICK m \in DOMAIN plan[c] : plan[c][m] = k
      BY <3>1 DEF Range
    <3>6. /\ m \in DOMAIN plan'[c] /\ Len(plan'[c]) \in DOMAIN plan'[c]
          /\ m < Len(plan'[c]) /\ plan'[c][m] = k /\ plan'[c][Len(plan'[c])] = j
      BY <2>2, <2>3, <2>4, <3>5
    <3>7. Before(plan'[c], k, j)
      BY <3>6 DEF Before
    <3>8. InOrder(k, j)'
      BY <3>2, <3>7 DEF PlanInv
    <3> QED BY <3>2, <3>4, <3>8 DEF HasJob
  <2> QED BY <2>6, <2>7, FileStays
<1> QED BY <1>1, <1>2

\* What Sorted lists: all of the plan, each after those it needs.
LEMMA SortedLists ==
  ASSUME NEW ids \in Requests, NEW force, NEW s \in Sorted(Plan(ids, force))
  PROVE  /\ Range(s) = Plan(ids, force)
         /\ \A i, k \in DOMAIN s : s[i] \in Below[s[k]] => i < k
<1> DEFINE rs == Plan(ids, force)
<1> DEFINE n == Cardinality(rs)
<1>1. rs \subseteq Recipes
  BY NeedsAreRecipes, BuildFarmAssumption DEF Plan, A!ArtifactsAssumption
<1>2. IsFiniteSet(rs) /\ n \in Nat
  BY <1>1, FS_Subset, FS_CardinalityType, BuildFarmAssumption
<1>3. /\ s \in [1 .. n -> rs] /\ IsInjective(s)
      /\ \A i, k \in DOMAIN s : s[i] \in Below[s[k]] => i < k
  BY DEF Sorted
<1>4. IsFiniteSet(1 .. n) /\ Cardinality(1 .. n) = n
  BY <1>2, FS_Interval
<1> HIDE DEF rs
<1>5. s \in Injection(1 .. n, rs)
  BY <1>3 DEF Injection, IsInjective
<1>6. s \in Surjection(1 .. n, rs)
  BY <1>2, <1>4, <1>5, FS_Injection
<1>7. Range(s) = rs
  BY <1>3, <1>6 DEF Surjection, Range
<1> QED BY <1>3, <1>7 DEF rs

\* A plan that was made for the recipes as they are covers what is needed.
LEMMA RequestPlans ==
  ASSUME PartsInv, Dates, NEW c \in Clients, NEW ids \in Requests, NEW force \in BOOLEAN,
         RequestBuild(c, ids, force), UNCHANGED events
  PROVE  RestOf(c)'
<1>1. PICK s \in Sorted(Plan(ids, force)) :
         Receive(c, [i \in 1 .. Len(s) |-> 1]) /\ order' = [order EXCEPT ![c] = s]
  BY DEF RequestBuild
<1>2. /\ plan \in [Clients -> Seq(Jobs)] /\ order \in [Clients -> Seq(Recipes)]
      /\ planned \in [Clients -> Date] /\ asked \in [Clients -> SUBSET Recipes]
      /\ events \in 0 .. MaxEvents /\ MaxEvents \in Nat
  BY BuildFarmAssumption DEF PartsInv, IndInv, TypeOK, Plans, Dates, A!TypeOK, A!ArtifactsAssumption
<1>3. /\ plan'[c] = <<>> /\ order'[c] = s /\ planned'[c] = Current /\ asked'[c] = ids
      /\ UNCHANGED <<text, open, cache, served>>
  BY <1>1, <1>2 DEF RequestBuild, Receive, pipelineVars
<1>4. Range(plan'[c]) = {}
  BY <1>3 DEF Range
<1>5. planned'[c] = events' => served = text
  BY <1>2, <1>3 DEF Current, Outdated
<1>6. \A q : InCache(q)' <=> InCache(q)
  <2>1. \A q : A!CacheFile(text, q)' = A!CacheFile(text, q)
    BY <1>3 DEF A!CacheFile, A!Package, A!WorkspacePackage, A!Hash, A!Needs
  <2> QED BY <1>3, <2>1 DEF InCache
<1>7. ASSUME NEW r, ~(r \in Plan(ids, force)), served = text,
             NEW i \in ids, r \in A!Needs(i)
      PROVE  InCache(r)
  <2>1. A!Cached(text, r)
    BY <1>7 DEF Plan
  <2>2. r \notin open /\ A!Package(text, r) \in DOMAIN cache
    BY <2>1 DEF A!Cached, A!Available, A!Needs
  <2> QED BY <2>2 DEF InCache, A!CacheFile
<1>8. ASSUME NEW i \in ids, NEW q \in A!Needs(i), served = text
      PROVE  InCache(q) \/ q \in Range(s)
  BY <1>7, <1>8, SortedLists
<1>9. ASSUME NEW k \in DOMAIN s, NEW q \in Below[s[k]], served = text
      PROVE  InCache(q) \/ \E m \in DOMAIN s : m < k /\ s[m] = q
  <2>1. s[k] \in Plan(ids, force)
    BY SortedLists DEF Range
  <2>2. PICK i \in ids : s[k] \in A!Needs(i)
    BY <2>1 DEF Plan
  <2>3. i \in Recipes
    BY BuildFarmAssumption DEF A!ArtifactsAssumption
  <2>4. q \in A!Needs(i)
    BY <2>2, <2>3, BuildFarmAssumption DEF A!ArtifactsAssumption, A!Needs
  <2>5. ASSUME q \in Range(s) PROVE \E m \in DOMAIN s : m < k /\ s[m] = q
    <3>1. PICK m \in DOMAIN s : s[m] = q
      BY <2>5 DEF Range
    <3> QED BY <3>1, SortedLists
  <2> QED BY <1>8, <1>9, <2>4, <2>5
<1> QED BY <1>3, <1>4, <1>5, <1>6, <1>8, <1>9 DEF RestOf

\* Enqueuing its first job, a client has one recipe less to enqueue and one job
\* more.
LEMMA EnqueuePlans ==
  ASSUME PartsInv, PlanInv, Dates, RestPlanned, NEW c \in Clients, EnqueueBuild(c),
         [FarmNext]_farmVars, UNCHANGED <<text, open, events>>
  PROVE  RestOf(c)'
<1>1. PICK j \in Jobs :
         /\ state[j] = "new" /\ recipe'[j] = Head(order[c]) /\ since'[j] = planned[c]
         /\ order[c] \in Seq(Recipes) /\ order[c] # <<>>
         /\ plan'[c] = Append(plan[c], j) /\ order'[c] = Tail(order[c])
  BY NewJob
<1>2. plan[c] \in Seq(Jobs) /\ UNCHANGED <<asked, planned>>
  BY DEF PartsInv, IndInv, TypeOK, EnqueueBuild
<1>3. Range(plan'[c]) = Range(plan[c]) \cup {j} /\ Range(plan[c]) \subseteq Jobs
  BY <1>1, <1>2, AppendFacts DEF Range
<1>4. \A k \in Range(plan[c]) : state[k] # "new" /\ recipe'[k] = recipe[k] /\ since'[k] = since[k]
  BY <1>3, KnownJobStays DEF PlanInv
<1>5. \A q : Enqueued(c, q) => Enqueued(c, q)'
  BY <1>3, <1>4 DEF Enqueued
<1>6. \A q : q = order[c][1] => Enqueued(c, q)'
  BY <1>1, <1>3 DEF Enqueued
<1>7. \A m \in DOMAIN order[c] :
        m = 1 \/ (m - 1 \in DOMAIN order'[c] /\ order'[c][m - 1] = order[c][m])
  BY <1>1
<1>8. \A i \in DOMAIN order'[c] : i + 1 \in DOMAIN order[c] /\ order'[c][i] = order[c][i + 1]
  BY <1>1
<1>9. \A k \in Range(plan'[c]) : since'[k] = planned'[c]
  BY <1>1, <1>2, <1>3, <1>4 DEF RestPlanned, RestOf
<1>10. ASSUME planned'[c] = events', NEW i \in asked'[c], NEW q \in A!Needs(i)
       PROVE  InCache(q)' \/ q \in Range(order'[c]) \/ Enqueued(c, q)'
  <2>1. InCache(q) \/ q \in Range(order[c]) \/ Enqueued(c, q)
    BY <1>2, <1>10 DEF RestPlanned, RestOf
  <2>2. ASSUME q \in Range(order[c]) PROVE q \in Range(order'[c]) \/ Enqueued(c, q)'
    <3>1. PICK m \in DOMAIN order[c] : order[c][m] = q
      BY <2>2 DEF Range
    <3> QED BY <1>6, <1>7, <3>1 DEF Range
  <2> QED BY <1>5, <2>1, <2>2, FileStays
<1>11. ASSUME planned'[c] = events', NEW i \in DOMAIN order'[c], NEW q \in Below[order'[c][i]]
       PROVE  \/ InCache(q)' \/ Enqueued(c, q)'
              \/ \E m \in DOMAIN order'[c] : m < i /\ order'[c][m] = q
  <2>1. q \in Below[order[c][i + 1]] /\ i + 1 \in DOMAIN order[c]
    BY <1>8, <1>11
  <2>2. \/ InCache(q) \/ Enqueued(c, q)
        \/ \E m \in DOMAIN order[c] : m < i + 1 /\ order[c][m] = q
    BY <1>2, <1>11, <2>1 DEF RestPlanned, RestOf
  <2>3. ASSUME NEW m \in DOMAIN order[c], m < i + 1, order[c][m] = q, m # 1
        PROVE  \E n \in DOMAIN order'[c] : n < i /\ order'[c][n] = q
    <3>1. m \in Nat /\ i \in Nat
      BY <1>1
    <3> QED BY <1>7, <2>3, <3>1
  <2> QED BY <1>5, <1>6, <2>2, <2>3, FileStays
<1>12. \A q, i : q \in A!Needs(i)' <=> q \in A!Needs(i)
  BY DEF A!Needs
<1> QED BY <1>9, <1>10, <1>11, <1>12 DEF RestOf

LEMMA RestStaysPlanned ==
  ASSUME PartsInv, PlanInv, Dates, RestPlanned, [FarmNext]_farmVars,
         UNCHANGED <<text, open, events>>
  PROVE  RestPlanned'
<1> SUFFICES ASSUME NEW d \in Clients PROVE RestOf(d)'
  BY DEF RestPlanned
<1>1. /\ plan \in [Clients -> Seq(Jobs)] /\ order \in [Clients -> Seq(Recipes)]
      /\ planned \in [Clients -> Date] /\ asked \in [Clients -> SUBSET Recipes]
  BY DEF PartsInv, IndInv, TypeOK, Plans, Dates
\* A client that receives and enqueues nothing.
<1>2. ASSUME UNCHANGED <<plan[d], order[d], planned[d], asked[d]>> PROVE RestOf(d)'
  <2>1. \A k \in Range(plan[d]) : k \in Jobs /\ state[k] # "new"
    BY <1>1 DEF PlanInv, Range
  <2>2. \A k \in Range(plan[d]) : recipe'[k] = recipe[k] /\ since'[k] = since[k]
    BY <2>1, KnownJobStays
  <2>3. \A q : Enqueued(d, q)' <=> Enqueued(d, q)
    BY <1>2, <2>2 DEF Enqueued
  <2>4. \A q, i : q \in A!Needs(i)' <=> q \in A!Needs(i)
    BY DEF A!Needs
  <2>5. RestOf(d)
    BY DEF RestPlanned
  <2> QED BY <1>2, <2>2, <2>3, <2>4, <2>5, FileStays DEF RestOf
<1>3. ASSUME NEW c \in Clients, NEW ids \in Requests, NEW force \in BOOLEAN,
             RequestBuild(c, ids, force)
      PROVE  RestOf(d)'
  <2>1. CASE c = d
    BY <1>3, <2>1, RequestPlans
  <2>2. CASE c # d
    BY <1>1, <1>2, <1>3, <2>2 DEF RequestBuild, Receive
  <2> QED BY <2>1, <2>2
<1>4. ASSUME NEW c \in Clients, EnqueueBuild(c) PROVE RestOf(d)'
  <2>1. CASE c = d
    BY <1>4, <2>1, EnqueuePlans
  <2>2. CASE c # d
    <3>1. PICK j : plan' = [plan EXCEPT ![c] = Append(@, j)]
      BY <1>4, NewJob
    <3> QED BY <1>1, <1>2, <1>4, <2>2, <3>1 DEF EnqueueBuild
  <2> QED BY <2>1, <2>2
<1>5. CASE UNCHANGED <<plan, planVars>>
  BY <1>2, <1>5 DEF planVars
<1>6. CASE WorkerOnly \/ StartChild \/ ChildStep \/ ChildSucceeds \/ ChildFails \/ Reload
           \/ People \/ (\E c \in Clients : ServerOnly(c)) \/ UNCHANGED farmVars
  <2>1. UNCHANGED <<plan, planVars>>
    BY <1>6 DEF WorkerOnly, StartChild, ChildStep, ChildSucceeds, ChildFails, Reload, People,
       ServerOnly, farmVars, vars, handlerVars, Broadcast, FindJob, CancelJob, ChildExit, Sleep,
       TakeJob, OpenLog, RecordPid, Reap, ClearPid, Judge, Verdict, WriteState, Archive, Spawn
  <2> QED BY <1>5, <2>1
<1> QED BY <1>3, <1>4, <1>6 DEF FarmNext

LEMMA WorthStays ==
  PartsInv /\ PartsInv' /\ PlanInv /\ PlanInv' /\ FarmInv /\ WorthInv /\ [FarmNext]_farmVars
    => WorthInv'
<1> SUFFICES ASSUME PartsInv, PartsInv', PlanInv, PlanInv', FarmInv, WorthInv,
                    [FarmNext]_farmVars
             PROVE  WorthInv'
  OBVIOUS
<1>1. CASE People
  BY <1>1, PeopleOutdate
<1>2. CASE UNCHANGED <<text, open, events>>
  BY <1>2, DatesStay, ChildInPlanStays, FilesStayKnown, JobsStayPlanned, RestStaysPlanned
  DEF WorthInv
<1> QED BY <1>1, <1>2, OutsideStays

LEMMA WorthInvariant == FarmSpec => [](PartsInv /\ PlanInv /\ FarmInv /\ WorthInv)
<1>1. FarmInit => WorthInv
  <2> SUFFICES ASSUME FarmInit PROVE WorthInv
    OBVIOUS
  <2>1. /\ ~A!Busy /\ cache = <<>> /\ events = 0 /\ \A j \in Jobs : state[j] = "new" /\ made[j] = {}
    BY DEF FarmInit, Init, A!Init, A!Idle, A!Busy
  <2>2. Dates
    BY <2>1 DEF FarmInit, Dates, Date
  <2>3. FilesKnown /\ ChildInPlan /\ JobsPlanned
    BY <2>1 DEF FilesKnown, ChildInPlan, JobsPlanned
  <2>4. RestPlanned
    BY DEF FarmInit, Init, RestPlanned, RestOf, Range
  <2> QED BY <2>2, <2>3, <2>4 DEF WorthInv
<1> QED BY <1>1, FarmStarts, FarmStays, WorthStays, PartsInvariant, FarmHasJobServer, PlanInvariant, PTL
        DEF FarmSpec

(***************************************************************************)
(* A build that misses a dependency is explained by what the dashboard     *)
(* shows: if nobody touched recipes and workspaces since its plan was      *)
(* made, a job on that dependency has failed or was cancelled; for every   *)
(* project, whatever other plans, cancels and reloads come between.        *)
(***************************************************************************)
THEOREM FarmBlameIsShown == FarmSpec => []BlameIsShown
<1>1. PartsInv /\ PlanInv /\ FarmInv /\ WorthInv => BlameIsShown
  <2> SUFFICES ASSUME PartsInv, PlanInv, FarmInv, WorthInv, A!Busy, since[active] = events,
                      NEW q \in proc.todo, ~A!Integratable(q)
               PROVE  \E k \in Jobs : recipe[k] = q /\ Unhappy(k)
    BY DEF BlameIsShown
  <2>1. /\ active \in Jobs /\ state[active] \in {"running", "cancelled"}
        /\ worker \in {"record", "wait"}
    BY ChildFacts
  <2>2. q \in Below[recipe[active]] /\ proc.pool = text
    BY DEF WorthInv, ChildInPlan
  <2>3. ~Whole(A!CacheFile(text, q)) /\ A!CacheFile(text, q).recipe = q
    BY <2>2 DEF A!Integratable, Whole, A!CacheFile, A!Package, A!WorkspacePackage
  <2>4. recipe[active] \in Recipes
    BY <2>1 DEF PartsInv, Plans
  <2>5. q # recipe[active]
    BY <2>2, <2>4, BuildFarmAssumption DEF A!ArtifactsAssumption
  \* Only the active job is running.
  <2>6. ASSUME NEW k \in Jobs, Blamed(k), k # active PROVE Unhappy(k)
    BY <2>1, <2>6 DEF Blamed, Unhappy, PartsInv, IndInv, OnePlace, Archived, Terminal
  \* A file that is not complete is that of a job which is to blame.
  <2>7. ASSUME InCache(q) PROVE \E k \in Jobs : recipe[k] = q /\ Unhappy(k)
    <3>1. PICK k \in Jobs : A!CacheFile(text, q) \in made[k] /\ Blamed(k)
      BY <2>3, <2>7 DEF InCache, WorthInv, FilesKnown
    <3>2. recipe[k] = q
      BY <2>3, <3>1 DEF WorthInv, FilesKnown
    <3> QED BY <2>5, <2>6, <3>1, <3>2
  \* The job on q is over, and if well it has left its file.
  <2>8. ASSUME HasJob(q, active) PROVE InCache(q) \/ \E k \in Jobs : recipe[k] = q /\ Unhappy(k)
    <3>1. PICK k \in Jobs : recipe[k] = q /\ since[k] = events /\ InOrder(k, active)
      BY <2>8 DEF HasJob
    <3>2. Archived(k)
      BY <3>1 DEF InOrder, Taken
    <3>3. state[k] \in Terminal
      BY <3>2 DEF PartsInv, IndInv, OnePlace
    <3>4. CASE state[k] = "success"
      BY <3>1, <3>4 DEF WorthInv, FilesKnown, InCache
    <3> QED BY <3>1, <3>3, <3>4 DEF Terminal, Unhappy
  <2>9. InCache(q) \/ HasJob(q, active)
    BY <2>1, <2>2 DEF WorthInv, JobsPlanned
  <2> QED BY <2>7, <2>8, <2>9
<1> QED BY <1>1, WorthInvariant, PTL

(***************************************************************************)
(* When all jobs of a build plan are shown as success and nobody touched   *)
(* recipes and workspaces since it was made, there are files for all that  *)
(* was asked for and all it needs, those of the workspaces there are.      *)
(***************************************************************************)
THEOREM FarmPlanDelivers == FarmSpec => []PlanDelivers
<1>1. PartsInv /\ PlanInv /\ FarmInv /\ WorthInv => PlanDelivers
  <2> SUFFICES ASSUME PartsInv, WorthInv, NEW c \in Clients,
                      todo[c] = <<>>, planned[c] = events,
                      \A i \in DOMAIN plan[c] : state[plan[c][i]] = "success",
                      NEW i \in asked[c], NEW q \in A!Needs(i)
               PROVE  InCache(q)
    BY DEF PlanDelivers, InCache
  <2>1. /\ order[c] \in Seq(Recipes) /\ Len(order[c]) = Len(todo[c])
        /\ plan[c] \in Seq(Jobs)
    BY DEF PartsInv, Plans, IndInv, TypeOK
  <2>2. Range(order[c]) = {}
    BY <2>1 DEF Range
  <2>3. InCache(q) \/ Enqueued(c, q)
    BY <2>2 DEF WorthInv, RestPlanned, RestOf
  <2>4. ASSUME Enqueued(c, q) PROVE InCache(q)
    <3>1. PICK m \in DOMAIN plan[c] : recipe[plan[c][m]] = q
      BY <2>4 DEF Enqueued, Range
    <3>2. plan[c][m] \in Jobs /\ plan[c][m] \in Range(plan[c])
      BY <2>1, <3>1 DEF Range
    <3>3. since[plan[c][m]] = events /\ state[plan[c][m]] = "success"
      BY <3>1, <3>2 DEF WorthInv, RestPlanned, RestOf
    <3> QED BY <3>1, <3>2, <3>3 DEF WorthInv, FilesKnown, InCache
  <2> QED BY <2>3, <2>4
<1> QED BY <1>1, WorthInvariant, PTL
=============================================================================
