--------------------------- MODULE DispatchProofs ---------------------------
(***************************************************************************)
(* Theorems about Dispatch, for any jobs, workers, queue capacity and      *)
(* number of resume requests.                                              *)
(***************************************************************************)
EXTENDS Dispatch, SequenceTheorems, FunctionTheorems, FiniteSetTheorems, TLAPS

\* What Send, SendPast and Receive do to the jobs in the queue.
LEMMA AppendKeeps ==
    ASSUME NEW q \in Seq(Jobs), NEW j \in Jobs
    PROVE  /\ Append(q, j) \in Seq(Jobs)
           /\ InQueue(Append(q, j), j)
           /\ \A k : InQueue(q, k) => InQueue(Append(q, j), k)
<1>1. /\ Append(q, j) \in Seq(Jobs)
      /\ Len(Append(q, j)) = Len(q) + 1 /\ Len(q) \in Nat
      /\ DOMAIN q = 1..Len(q) /\ DOMAIN Append(q, j) = 1..(Len(q) + 1)
      /\ \A i \in 1..Len(q) : Append(q, j)[i] = q[i]
      /\ Append(q, j)[Len(q) + 1] = j
  BY AppendProperties, LenProperties
<1>2. /\ Len(q) + 1 \in 1..(Len(q) + 1)
      /\ 1..Len(q) \subseteq 1..(Len(q) + 1)
  BY <1>1
<1>3. InQueue(Append(q, j), j)
  BY <1>1, <1>2 DEF InQueue
<1>4. \A k : InQueue(q, k) => InQueue(Append(q, j), k)
  BY <1>1, <1>2 DEF InQueue
<1> QED
  BY <1>1, <1>3, <1>4

LEMMA TailKeeps ==
    ASSUME NEW q \in Seq(Jobs), q # << >>
    PROVE  /\ Head(q) \in Jobs /\ Tail(q) \in Seq(Jobs)
           /\ \A k : InQueue(q, k) => k = Head(q) \/ InQueue(Tail(q), k)
<1>1. /\ Head(q) \in Jobs /\ Tail(q) \in Seq(Jobs)
      /\ Len(q) \in Nat \ {0} /\ Len(Tail(q)) = Len(q) - 1
      /\ Head(q) = q[1]
      /\ DOMAIN q = 1..Len(q) /\ DOMAIN Tail(q) = 1..(Len(q) - 1)
      /\ \A i \in 1..(Len(q) - 1) : Tail(q)[i] = q[i + 1]
  BY HeadTailProperties, LenProperties, EmptySeq
<1>2. ASSUME NEW k, InQueue(q, k), k # Head(q)
      PROVE  InQueue(Tail(q), k)
  <2>1. PICK i \in 1..Len(q) : q[i] = k
    BY <1>1, <1>2 DEF InQueue
  <2>2. i # 1
    BY <2>1, <1>1, <1>2
  <2>3. i - 1 \in 1..(Len(q) - 1) /\ (i - 1) + 1 = i
    BY <2>1, <2>2, <1>1
  <2>4. Tail(q)[i - 1] = k
    BY <2>1, <2>3, <1>1
  <2> QED
    BY <2>3, <2>4, <1>1 DEF InQueue
<1> QED
  BY <1>1, <1>2

-----------------------------------------------------------------------------
(* Types.                                                                  *)

LEMMA IncTypes ==
    ASSUME NEW f \in [Jobs -> Nat], NEW j \in Jobs
    PROVE  Inc(f, j) \in [Jobs -> Nat] /\ (f[j] > 0 => Dec(f, j) \in [Jobs -> Nat])
  BY DEF Inc, Dec

\* One more goroutine for a job changes the count of no other job (Inc).
LEMMA IncCounts ==
    ASSUME NEW f \in [Jobs -> Nat], NEW j \in Jobs
    PROVE  /\ Inc(f, j)[j] = f[j] + 1 /\ Inc(f, j)[j] > 0
           /\ \A k \in Jobs : k # j => Inc(f, j)[k] = f[k]
           /\ \A k \in Jobs : f[k] > 0 => Inc(f, j)[k] > 0
<1>1. Inc(f, j)[j] = f[j] + 1 /\ f[j] \in Nat
  BY DEF Inc
<1>2. \A k \in Jobs : k # j => Inc(f, j)[k] = f[k]
  BY DEF Inc
<1>3. Inc(f, j)[j] > 0
  BY <1>1
<1>. QED BY <1>1, <1>2, <1>3

\* Every variable of dispatch has its type in every state (Dispatch!TypeOK).
THEOREM DispatchTypeCorrect == Spec => []TypeOK
<1>1. Init => TypeOK
  BY DispatchAssumption, EmptySeq DEF Init, TypeOK, Status
<1>2. TypeOK /\ [Next]_vars => TypeOK'
  <2> SUFFICES ASSUME TypeOK, [Next]_vars PROVE TypeOK'
    OBVIOUS
  <2> USE DEF TypeOK, scheduling, requests, executing, Status
  <2>1. ASSUME NEW j \in Jobs, JobStep(j) PROVE TypeOK'
    <3>1. CASE CreateJob(j)
      BY <3>1, IncTypes DEF CreateJob
    <3>2. CASE CreateScheduled(j)
      BY <3>2 DEF CreateScheduled
    <3>3. CASE ScheduleLater(j)
      BY <3>3 DEF ScheduleLater
    <3>4. CASE SchedulePast(j)
      BY <3>4 DEF SchedulePast
    <3>5. CASE ResumeCheck(j)
      <4>1. /\ resumes[j] \in 0..MaxResumes /\ resumes[j] < MaxResumes
            /\ resumes' = [resumes EXCEPT ![j] = @ + 1]
        BY <3>5 DEF ResumeCheck, Inc
      <4>2. resumes[j] + 1 \in 0..MaxResumes
        BY <4>1, DispatchAssumption
      <4>3. resumes' \in [Jobs -> 0..MaxResumes]
        BY <4>1, <4>2
      <4> QED
        BY <3>5, <4>3, IncTypes DEF ResumeCheck
    <3>6. CASE ResumeEnqueue(j)
      BY <3>6, IncTypes DEF ResumeEnqueue
    <3>7. CASE Send(j)
      BY <3>7, IncTypes, AppendKeeps DEF Send
    <3>8. CASE TimerFires(j)
      BY <3>8 DEF TimerFires
    <3>9. CASE ExecuteScheduledJob(j)
      <4>1. CASE j \in scheduled
        <5>1. /\ status' = [status EXCEPT ![j] = "QUEUED"]
              /\ sending' = Inc(sending, j)
          BY <3>9, <4>1 DEF ExecuteScheduledJob
        <5>2. status' \in [Jobs -> Status] /\ sending' \in [Jobs -> Nat]
          BY <5>1, IncTypes
        <5> QED
          BY <3>9, <5>2 DEF ExecuteScheduledJob
      <4>2. CASE j \notin scheduled
        BY <3>9, <4>2 DEF ExecuteScheduledJob
      <4> QED
        BY <4>1, <4>2
    <3>10. CASE StartRunning(j)
      BY <3>10, IncTypes DEF StartRunning
    <3>11. CASE FailToStart(j)
      BY <3>11, IncTypes DEF FailToStart
    <3>12. CASE ShowProgress(j)
      BY <3>12 DEF ShowProgress
    <3>13. CASE Finish(j)
      BY <3>13, IncTypes DEF Finish
    <3> QED
      BY <2>1, <3>1, <3>2, <3>3, <3>4, <3>5, <3>6, <3>7, <3>8, <3>9, <3>10,
         <3>11, <3>12, <3>13 DEF JobStep
  <2>2. CASE SendPast
    BY <2>2, AppendKeeps DEF SendPast
  <2>3. ASSUME NEW w \in Workers, Receive(w) PROVE TypeOK'
    BY <2>3, TailKeeps, IncTypes DEF Receive
  <2>4. ASSUME NEW w \in Workers, WorkerStops(w) PROVE TypeOK'
    BY <2>4 DEF WorkerStops
  <2>5. CASE Signal
    BY <2>5 DEF Signal
  <2>6. CASE StopScheduler
    BY <2>6 DEF StopScheduler
  <2>7. CASE UNCHANGED vars
    BY <2>7 DEF vars
  <2> QED
    BY <2>1, <2>2, <2>3, <2>4, <2>5, <2>6, <2>7 DEF Next, Rest
<1> QED
  BY <1>1, <1>2, PTL DEF Spec

-----------------------------------------------------------------------------
(* Somebody takes care of every job.  StatusBacked is inductive with the   *)
(* types, which are needed to count: a goroutine that leaves one of several *)
(* leaves at least one.                                                    *)

\* In every state a QUEUED job is in somebody's hand, a SCHEDULED one with the
\* scheduler until the shutdown, a RUNNING one in an Execute
\* (Dispatch!StatusBacked).
THEOREM StatusBackedCorrect == Spec => []StatusBacked
<1>1. Init => StatusBacked
  BY DEF Init, StatusBacked
<1>2. TypeOK /\ StatusBacked /\ [Next]_vars => StatusBacked'
  <2> SUFFICES ASSUME TypeOK, StatusBacked, [Next]_vars PROVE StatusBacked'
    OBVIOUS
  <2> USE DEF StatusBacked, InHand, scheduling, requests, executing
  <2>1. ASSUME NEW j \in Jobs, JobStep(j) PROVE StatusBacked'
    <3> USE DEF TypeOK, Inc, Dec
    <3>1. CASE CreateJob(j)
      <4>1. /\ sending'[j] > 0
            /\ \A k \in Jobs : sending[k] > 0 => sending'[k] > 0
        BY <3>1, IncCounts DEF CreateJob
      <4> QED
        BY <3>1, <4>1 DEF CreateJob
    <3>2. CASE CreateScheduled(j)
      BY <3>2 DEF CreateScheduled
    <3>3. CASE ScheduleLater(j)
      BY <3>3 DEF ScheduleLater
    <3>4. CASE SchedulePast(j)
      BY <3>4, DispatchAssumption DEF SchedulePast
    <3>5. CASE ResumeCheck(j)
      BY <3>5 DEF ResumeCheck
    <3>6. CASE ResumeEnqueue(j)
      <4>1. /\ sending'[j] > 0
            /\ \A k \in Jobs : sending[k] > 0 => sending'[k] > 0
        BY <3>6, IncCounts DEF ResumeEnqueue
      <4> QED
        BY <3>6, <4>1 DEF ResumeEnqueue
    <3>7. CASE Send(j)
      BY <3>7, AppendKeeps DEF Send
    <3>8. CASE TimerFires(j)
      BY <3>8 DEF TimerFires
    <3>9. CASE ExecuteScheduledJob(j)
      BY <3>9 DEF ExecuteScheduledJob
    <3>10. CASE StartRunning(j)
      BY <3>10 DEF StartRunning
    <3>11. CASE FailToStart(j)
      BY <3>11 DEF FailToStart
    <3>12. CASE ShowProgress(j)
      BY <3>12 DEF ShowProgress
    <3>13. CASE Finish(j)
      BY <3>13 DEF Finish
    <3> QED
      BY <2>1, <3>1, <3>2, <3>3, <3>4, <3>5, <3>6, <3>7, <3>8, <3>9, <3>10,
         <3>11, <3>12, <3>13 DEF JobStep
  <2>2. CASE SendPast
    BY <2>2, AppendKeeps DEF SendPast, TypeOK
  <2>3. ASSUME NEW w \in Workers, Receive(w) PROVE StatusBacked'
    <3> DEFINE h == Head(jobQueue)
    <3>1. /\ h \in Jobs /\ starting' = Inc(starting, h)
          /\ jobQueue' = Tail(jobQueue)
          /\ \A k : InQueue(jobQueue, k) => k = h \/ InQueue(jobQueue', k)
          /\ UNCHANGED <<ctx, status, sending, arriving, holder, scheduled, running>>
      BY <2>3, TailKeeps DEF Receive, TypeOK
    <3>2. /\ starting'[h] > 0
          /\ \A k \in Jobs : starting[k] > 0 => starting'[k] > 0
      BY <3>1, IncCounts DEF TypeOK
    <3>3. \A k \in Jobs : InHand(k) => InHand(k)'
      BY <3>1, <3>2
    <3> QED
      BY <3>1, <3>3
  <2>4. ASSUME NEW w \in Workers, WorkerStops(w) PROVE StatusBacked'
    BY <2>4 DEF WorkerStops
  <2>5. CASE Signal
    BY <2>5 DEF Signal
  <2>6. CASE StopScheduler
    BY <2>6 DEF StopScheduler
  <2>7. CASE UNCHANGED vars
    BY <2>7 DEF vars
  <2> QED
    BY <2>1, <2>2, <2>3, <2>4, <2>5, <2>6, <2>7 DEF Next, Rest
<1> QED
  BY <1>1, <1>2, DispatchTypeCorrect, PTL DEF Spec

-----------------------------------------------------------------------------
(* No execution that nobody asked for: what a job weighs in all the places  *)
(* that may lead to an execution, or are one.                               *)

\* How often a queue holds a job.
Count(q, k) == Cardinality({i \in DOMAIN q : q[i] = k})

LEMMA CountTypes ==
    ASSUME NEW q \in Seq(Jobs), NEW k
    PROVE  /\ IsFiniteSet({i \in DOMAIN q : q[i] = k}) /\ Count(q, k) \in Nat
<1>1. DOMAIN q = 1..Len(q) /\ Len(q) \in Nat
  BY LenProperties
<1>2. IsFiniteSet(1..Len(q))
  BY <1>1, FS_Interval
<1>3. IsFiniteSet({i \in DOMAIN q : q[i] = k})
  BY <1>1, <1>2, FS_Subset
<1> QED
  BY <1>3, FS_CardinalityType DEF Count

LEMMA CountAppend ==
    ASSUME NEW q \in Seq(Jobs), NEW j \in Jobs, NEW k
    PROVE  Count(Append(q, j), k) = Count(q, k) + Times(k = j)
<1> DEFINE I == {i \in DOMAIN q : q[i] = k}
           A == {i \in DOMAIN Append(q, j) : Append(q, j)[i] = k}
<1>1. /\ Len(q) \in Nat /\ DOMAIN q = 1..Len(q)
      /\ DOMAIN Append(q, j) = 1..(Len(q) + 1)
      /\ \A i \in 1..Len(q) : Append(q, j)[i] = q[i]
      /\ Append(q, j)[Len(q) + 1] = j
  BY AppendProperties, LenProperties
<1>2. \A i : i \in 1..(Len(q) + 1) <=> i \in 1..Len(q) \/ i = Len(q) + 1
  BY <1>1
<1>3. Len(q) + 1 \notin I
  BY <1>1
<1>4. IsFiniteSet(I)
  BY CountTypes
<1>5. Count(q, k) = Cardinality(I) /\ Count(Append(q, j), k) = Cardinality(A)
  BY DEF Count
<1>6. Count(q, k) \in Nat
  BY CountTypes
<1>7. CASE k = j
  <2>1. A = I \cup {Len(q) + 1}
    BY <1>1, <1>2, <1>7
  <2>2. Cardinality(A) = Cardinality(I) + 1
    <3> HIDE DEF I, A
    <3> QED
      BY <1>3, <1>4, <2>1, FS_AddElement
  <2> QED
    BY <1>5, <1>7, <2>2 DEF Times
<1>8. CASE k # j
  <2>1. A = I
    BY <1>1, <1>2, <1>8
  <2>2. Count(Append(q, j), k) = Count(q, k)
    BY <1>5, <2>1
  <2> QED
    BY <1>6, <1>8, <2>2 DEF Times
<1> QED
  BY <1>7, <1>8

LEMMA CountTail ==
    ASSUME NEW q \in Seq(Jobs), q # << >>, NEW k
    PROVE  Count(q, k) = Count(Tail(q), k) + Times(k = Head(q))
<1> DEFINE I == {i \in DOMAIN q : q[i] = k}
           J == {i \in DOMAIN Tail(q) : Tail(q)[i] = k}
           shift == [i \in J |-> i + 1]
<1>1. /\ Tail(q) \in Seq(Jobs) /\ Len(q) \in Nat \ {0} /\ Head(q) = q[1]
      /\ DOMAIN q = 1..Len(q) /\ DOMAIN Tail(q) = 1..(Len(q) - 1)
      /\ \A i \in 1..(Len(q) - 1) : Tail(q)[i] = q[i + 1]
  BY HeadTailProperties, LenProperties, EmptySeq
<1>2. IsFiniteSet(J) /\ IsFiniteSet(I)
  BY <1>1, CountTypes
<1>3. Count(q, k) = Cardinality(I) /\ Count(Tail(q), k) = Cardinality(J)
  BY DEF Count
<1>4. Count(q, k) \in Nat /\ Count(Tail(q), k) \in Nat
  BY <1>1, CountTypes
<1>5. Cardinality(I \ {1}) = Cardinality(J)
  <2>1. \A i \in J : i + 1 \in I \ {1}
    BY <1>1
  <2>2. \A i \in I \ {1} : i - 1 \in J /\ shift[i - 1] = i
    BY <1>1
  <2>3. shift \in [J -> I \ {1}]
    BY <2>1
  <2>4. \A a, b \in J : shift[a] = shift[b] => a = b
    BY <1>1
  <2>5. \A i \in I \ {1} : \E a \in J : shift[a] = i
    BY <2>2
  <2> HIDE DEF I, J, shift
  <2>6. shift \in Bijection(J, I \ {1})
    BY <2>3, <2>4, <2>5, Fun_IsBij
  <2>7. ExistsBijection(J, I \ {1})
    BY <2>6 DEF ExistsBijection
  <2> QED
    BY <1>2, <2>7, FS_Bijection
<1>6. 1 \in I <=> k = Head(q)
  BY <1>1
<1>7. Cardinality(I \ {1}) = IF 1 \in I THEN Cardinality(I) - 1 ELSE Cardinality(I)
  <2> HIDE DEF I
  <2> QED
    BY <1>2, FS_RemoveElement
<1> HIDE DEF I, J
<1> QED
  BY <1>3, <1>4, <1>5, <1>6, <1>7 DEF Times

\* What job j weighs: the executions of it that are begun or to come.
Weight(j) ==
    Queued(j) + sending[j] + starting[j] + running[j] + resuming[j]
      + Times(j \in arriving) + Times(j = holder) + Times(j \in scheduled)

\* A job nobody has created is nowhere; every other one weighs at most its
\* creation and its resume requests.
Weighed(j) ==
    /\ status[j] = "none" => Weight(j) = 0
    /\ Weight(j) <= 1 + resumes[j]

LEMMA WeightTypes ==
    ASSUME TypeOK, NEW j \in Jobs
    PROVE  /\ Queued(j) = Count(jobQueue, j) /\ Queued(j) \in Nat
           /\ Weight(j) \in Nat
<1>1. Queued(j) = Count(jobQueue, j) /\ Queued(j) \in Nat
  BY CountTypes DEF Queued, Count, TypeOK
<1>2. /\ sending[j] \in Nat /\ starting[j] \in Nat /\ running[j] \in Nat
      /\ resuming[j] \in Nat
  BY DEF TypeOK
<1>3. /\ Times(j \in arriving) \in Nat /\ Times(j = holder) \in Nat
      /\ Times(j \in scheduled) \in Nat
  BY DEF Times
<1>4. Weight(j) \in Nat
  BY <1>1, <1>2, <1>3 DEF Weight
<1> QED
  BY <1>1, <1>4

\* In every state the executions of a job, begun or to come, are at most its
\* creation and the resume requests accepted for it (Dispatch!AskedFor).
THEOREM AskedForCorrect == Spec => []AskedFor
<1> DEFINE Inv == \A j \in Jobs : Weighed(j)
<1>1. Init => Inv
  <2> SUFFICES ASSUME Init, NEW j \in Jobs PROVE Weighed(j)
    OBVIOUS
  <2>1. TypeOK
    BY DispatchAssumption, EmptySeq DEF Init, TypeOK, Status
  <2>2. Queued(j) = 0
    <3>1. {i \in DOMAIN jobQueue : jobQueue[i] = j} = {}
      BY DEF Init
    <3> QED
      BY <3>1, FS_EmptySet DEF Queued
  <2> QED
    BY <2>2, DispatchAssumption DEF Init, Weighed, Weight, Times
<1>2. TypeOK /\ TypeOK' /\ Inv /\ [Next]_vars => Inv'
  <2> SUFFICES ASSUME TypeOK, TypeOK', Inv, [Next]_vars, NEW k \in Jobs
               PROVE  Weighed(k)'
    OBVIOUS
  <2> DEFINE q == Queued(k)
             s == sending[k]
             t == starting[k]
             r == running[k]
             m == resuming[k]
             a == Times(k \in arriving)
             h == Times(k = holder)
             d == Times(k \in scheduled)
             n == resumes[k]
  <2>1. /\ q \in Nat /\ s \in Nat /\ t \in Nat /\ r \in Nat /\ m \in Nat
        /\ a \in Nat /\ h \in Nat /\ d \in Nat /\ n \in Nat
    <3>1. q \in Nat
      BY WeightTypes
    <3> QED
      BY <3>1, DispatchAssumption DEF TypeOK, Times
  <2>0. /\ q' \in Nat /\ s' \in Nat /\ t' \in Nat /\ r' \in Nat /\ m' \in Nat
        /\ a' \in Nat /\ h' \in Nat /\ d' \in Nat /\ n' \in Nat
    <3>1. q' \in Nat
      <4>1. q' = Count(jobQueue', k)
        BY DEF Queued, Count
      <4> QED
        BY <4>1, CountTypes DEF TypeOK
    <3> QED
      BY <3>1, DispatchAssumption DEF TypeOK, Times
  <2>2. /\ status[k] = "none" => q + s + t + r + m + a + h + d = 0
        /\ q + s + t + r + m + a + h + d <= 1 + n
    BY DEF Weighed, Weight
  <2>3. ASSUME /\ status'[k] = "none" => q' + s' + t' + r' + m' + a' + h' + d' = 0
               /\ q' + s' + t' + r' + m' + a' + h' + d' <= 1 + n'
        PROVE  Weighed(k)'
    BY <2>3 DEF Weighed, Weight
  <2>4. jobQueue' = jobQueue => q' = q
    BY DEF Queued
  <2>5. ASSUME NEW j \in Jobs, jobQueue' = Append(jobQueue, j)
        PROVE  q' = q + Times(k = j)
    <3>1. q = Count(jobQueue, k) /\ q' = Count(jobQueue', k)
      BY DEF Queued, Count
    <3> QED
      BY <2>5, <3>1, CountAppend DEF TypeOK
  <2>6. ASSUME NEW j \in Jobs, JobStep(j), k # j PROVE Weighed(k)'
    <3>1. /\ s' = s /\ t' = t /\ r' = r /\ m' = m /\ n' = n
          /\ status'[k] = status[k]
      BY <2>6 DEF TypeOK, Inc, Dec, JobStep, executing, requests, scheduling,
         CreateJob, CreateScheduled, ScheduleLater, SchedulePast, ResumeCheck,
         ResumeEnqueue, Send, TimerFires, ExecuteScheduledJob, StartRunning,
         FailToStart, ShowProgress, Finish
    <3>2. k \in arriving' <=> k \in arriving
      BY <2>6 DEF JobStep, scheduling,
         CreateJob, CreateScheduled, ScheduleLater, SchedulePast, ResumeCheck,
         ResumeEnqueue, Send, TimerFires, ExecuteScheduledJob, StartRunning,
         FailToStart, ShowProgress, Finish
    <3>3. k = holder' <=> k = holder
      BY <2>6, DispatchAssumption DEF JobStep, scheduling,
         CreateJob, CreateScheduled, ScheduleLater, SchedulePast, ResumeCheck,
         ResumeEnqueue, Send, TimerFires, ExecuteScheduledJob, StartRunning,
         FailToStart, ShowProgress, Finish
    <3>4. k \in scheduled' <=> k \in scheduled
      BY <2>6 DEF JobStep, scheduling,
         CreateJob, CreateScheduled, ScheduleLater, SchedulePast, ResumeCheck,
         ResumeEnqueue, Send, TimerFires, ExecuteScheduledJob, StartRunning,
         FailToStart, ShowProgress, Finish
    <3>5. a' = a /\ h' = h /\ d' = d
      BY <3>2, <3>3, <3>4 DEF Times
    <3>6. q' = q
      <4>1. jobQueue' = jobQueue \/ jobQueue' = Append(jobQueue, j)
        BY <2>6 DEF JobStep,
           CreateJob, CreateScheduled, ScheduleLater, SchedulePast, ResumeCheck,
           ResumeEnqueue, Send, TimerFires, ExecuteScheduledJob, StartRunning,
           FailToStart, ShowProgress, Finish
      <4>2. Times(k = j) = 0
        BY <2>6 DEF Times
      <4> QED
        BY <2>1, <2>4, <2>5, <4>1, <4>2
    <3> HIDE DEF q, s, t, r, m, a, h, d, n
    <3> QED
      BY <2>2, <2>3, <3>1, <3>5, <3>6
  <2>7. ASSUME NEW j \in Jobs, JobStep(j), k = j PROVE Weighed(k)'
    <3>1. CASE CreateJob(k)
      <4>1. /\ q' = q /\ s' = s + 1 /\ t' = t /\ r' = r /\ m' = m
            /\ a' = a /\ h' = h /\ d' = d /\ n' = n
            /\ status[k] = "none" /\ status'[k] # "none"
        BY <2>1, <2>4, <3>1, DispatchAssumption
           DEF CreateJob, TypeOK, Inc, Dec, Times, requests, scheduling, executing
      <4> HIDE DEF q, s, t, r, m, a, h, d, n
      <4> QED
        BY <2>0, <2>1, <2>2, <2>3, <4>1
    <3>2. CASE CreateScheduled(k)
      <4>1. /\ q' = q /\ s' = s /\ t' = t /\ r' = r /\ m' = m /\ a' = 1
            /\ h' = h /\ d' = d /\ n' = n
            /\ status[k] = "none" /\ status'[k] # "none"
        BY <2>1, <2>4, <3>2, DispatchAssumption
           DEF CreateScheduled, TypeOK, Inc, Dec, Times, requests, scheduling, executing
      <4> HIDE DEF q, s, t, r, m, a, h, d, n
      <4> QED
        BY <2>0, <2>1, <2>2, <2>3, <4>1
    <3>3. CASE ScheduleLater(k)
      <4>1. /\ q' = q /\ s' = s /\ t' = t /\ r' = r /\ m' = m
            /\ a = a' + 1 /\ h' = h /\ d' = 1 /\ n' = n
            /\ status'[k] = status[k]
        BY <2>1, <2>4, <3>3, DispatchAssumption
           DEF ScheduleLater, TypeOK, Inc, Dec, Times, requests, scheduling, executing
      <4> HIDE DEF q, s, t, r, m, a, h, d, n
      <4> QED
        BY <2>0, <2>1, <2>2, <2>3, <4>1
    <3>4. CASE SchedulePast(k)
      <4>1. /\ q' = q /\ s' = s /\ t' = t /\ r' = r /\ m' = m
            /\ d' = d /\ n' = n /\ status'[k] = status[k]
            /\ a = 1 /\ a' = 0 /\ h = 0 /\ h' = 1
        BY <2>1, <2>4, <3>4, DispatchAssumption
           DEF SchedulePast, TypeOK, Inc, Dec, Times, requests, scheduling, executing
      <4> HIDE DEF q, s, t, r, m, a, h, d, n
      <4> QED
        BY <2>0, <2>1, <2>2, <2>3, <4>1
    <3>5. CASE ResumeCheck(k)
      <4>1. /\ q' = q /\ s' = s /\ t' = t /\ r' = r /\ m' = m + 1
            /\ a' = a /\ h' = h /\ d' = d /\ n' = n + 1
            /\ status'[k] # "none"
        BY <2>1, <2>4, <3>5, DispatchAssumption
           DEF ResumeCheck, TypeOK, Inc, Dec, Times, requests, scheduling, executing
      <4> HIDE DEF q, s, t, r, m, a, h, d, n
      <4> QED
        BY <2>0, <2>1, <2>2, <2>3, <4>1
    <3>6. CASE ResumeEnqueue(k)
      <4>1. /\ q' = q /\ s' = s + 1 /\ t' = t /\ r' = r /\ m = m' + 1
            /\ a' = a /\ h' = h /\ d' = d /\ n' = n
            /\ status'[k] # "none"
        BY <2>1, <2>4, <3>6, DispatchAssumption
           DEF ResumeEnqueue, TypeOK, Inc, Dec, Times, requests, scheduling, executing
      <4> HIDE DEF q, s, t, r, m, a, h, d, n
      <4> QED
        BY <2>0, <2>1, <2>2, <2>3, <4>1
    <3>7. CASE Send(k)
      <4>1. /\ q' = q + 1 /\ s = s' + 1 /\ t' = t /\ r' = r /\ m' = m
            /\ a' = a /\ h' = h /\ d' = d /\ n' = n
            /\ status'[k] = status[k]
        BY <2>1, <2>5, <3>7, DispatchAssumption
           DEF Send, TypeOK, Inc, Dec, Times, requests, scheduling, executing
      <4> HIDE DEF q, s, t, r, m, a, h, d, n
      <4> QED
        BY <2>0, <2>1, <2>2, <2>3, <4>1
    <3>8. CASE TimerFires(k)
      <4>1. /\ q' = q /\ s' = s /\ t' = t /\ r' = r /\ m' = m /\ a' = a
            /\ h' = h /\ d' = d /\ n' = n /\ status'[k] = status[k]
        BY <2>1, <2>4, <3>8, DispatchAssumption
           DEF TimerFires, TypeOK, Inc, Dec, Times, requests, scheduling, executing
      <4> HIDE DEF q, s, t, r, m, a, h, d, n
      <4> QED
        BY <2>0, <2>1, <2>2, <2>3, <4>1
    <3>9. CASE ExecuteScheduledJob(k)
      <4>1. /\ q' = q /\ t' = t /\ r' = r /\ m' = m /\ a' = a /\ h' = h /\ n' = n
            /\ \/ d = 1 /\ d' = 0 /\ s' = s + 1 /\ status'[k] # "none"
               \/ d' = d /\ s' = s /\ status'[k] = status[k]
        BY <2>1, <2>4, <3>9, DispatchAssumption
           DEF ExecuteScheduledJob, TypeOK, Inc, Dec, Times, requests, scheduling, executing
      <4> HIDE DEF q, s, t, r, m, a, h, d, n
      <4> QED
        BY <2>0, <2>1, <2>2, <2>3, <4>1
    <3>10. CASE StartRunning(k)
      <4>1. /\ q' = q /\ s' = s /\ t = t' + 1 /\ r' = r + 1 /\ m' = m
            /\ a' = a /\ h' = h /\ d' = d /\ n' = n
            /\ status'[k] # "none"
        BY <2>1, <2>4, <3>10, DispatchAssumption
           DEF StartRunning, TypeOK, Inc, Dec, Times, requests, scheduling, executing
      <4> HIDE DEF q, s, t, r, m, a, h, d, n
      <4> QED
        BY <2>0, <2>1, <2>2, <2>3, <4>1
    <3>11. CASE FailToStart(k)
      <4>1. /\ q' = q /\ s' = s /\ t = t' + 1 /\ r' = r /\ m' = m
            /\ a' = a /\ h' = h /\ d' = d /\ n' = n
            /\ status'[k] # "none"
        BY <2>1, <2>4, <3>11, DispatchAssumption
           DEF FailToStart, TypeOK, Inc, Dec, Times, requests, scheduling, executing
      <4> HIDE DEF q, s, t, r, m, a, h, d, n
      <4> QED
        BY <2>0, <2>1, <2>2, <2>3, <4>1
    <3>12. CASE ShowProgress(k)
      <4>1. /\ q' = q /\ s' = s /\ t' = t /\ r' = r /\ m' = m /\ a' = a
            /\ h' = h /\ d' = d /\ n' = n /\ status'[k] # "none"
        BY <2>1, <2>4, <3>12, DispatchAssumption
           DEF ShowProgress, TypeOK, Inc, Dec, Times, requests, scheduling, executing
      <4> HIDE DEF q, s, t, r, m, a, h, d, n
      <4> QED
        BY <2>0, <2>1, <2>2, <2>3, <4>1
    <3>13. CASE Finish(k)
      <4>1. /\ q' = q /\ s' = s /\ t' = t /\ r = r' + 1 /\ m' = m
            /\ a' = a /\ h' = h /\ d' = d /\ n' = n
            /\ status'[k] # "none"
        BY <2>1, <2>4, <3>13, DispatchAssumption
           DEF Finish, TypeOK, Inc, Dec, Times, requests, scheduling, executing
      <4> HIDE DEF q, s, t, r, m, a, h, d, n
      <4> QED
        BY <2>0, <2>1, <2>2, <2>3, <4>1
    <3> QED
      BY <2>7, <3>1, <3>2, <3>3, <3>4, <3>5, <3>6, <3>7, <3>8, <3>9, <3>10,
         <3>11, <3>12, <3>13 DEF JobStep
  <2>8. CASE SendPast
    <3>1. /\ q' = q + h /\ h' = 0
          /\ s' = s /\ t' = t /\ r' = r /\ m' = m /\ a' = a /\ d' = d /\ n' = n
          /\ status'[k] = status[k]
      BY <2>1, <2>5, <2>8, DispatchAssumption
         DEF SendPast, TypeOK, Times, requests, executing
    <3> HIDE DEF q, s, t, r, m, a, h, d, n
    <3> QED
      BY <2>1, <2>2, <2>3, <3>1
  <2>9. ASSUME NEW w \in Workers, Receive(w) PROVE Weighed(k)'
    <3> DEFINE f == Head(jobQueue)
    <3>1. /\ jobQueue \in Seq(Jobs) /\ jobQueue # << >>
          /\ jobQueue' = Tail(jobQueue) /\ starting' = Inc(starting, f)
      BY <2>9 DEF Receive, TypeOK
    <3>2. q = q' + Times(k = f)
      <4>1. q = Count(jobQueue, k) /\ q' = Count(jobQueue', k)
        BY DEF Queued, Count
      <4> QED
        BY <3>1, <4>1, CountTail
    <3>4. t' = t + Times(k = f)
      <4> HIDE DEF f
      <4>1. CASE k = f
        BY <3>1, <4>1 DEF TypeOK, Inc, Times
      <4>2. CASE k # f
        BY <2>1, <3>1, <4>2 DEF TypeOK, Inc, Times
      <4> QED
        BY <4>1, <4>2
    <3>5. /\ s' = s /\ r' = r /\ m' = m /\ a' = a /\ h' = h /\ d' = d /\ n' = n
          /\ status'[k] = status[k]
      BY <2>9 DEF Receive, scheduling, requests
    <3>6. Times(k = f) \in Nat
      BY DEF Times
    <3> HIDE DEF q, s, t, r, m, a, h, d, n, f
    <3> QED
      BY <2>0, <2>1, <2>2, <2>3, <3>2, <3>4, <3>5, <3>6
  <2>10. CASE (\E w \in Workers : WorkerStops(w)) \/ Signal \/ UNCHANGED vars
    BY <2>10, <2>2, <2>3, <2>4
       DEF WorkerStops, Signal, vars, scheduling, requests, executing
  <2>11. CASE StopScheduler
    <3>1. /\ q' = q /\ s' = s /\ t' = t /\ r' = r /\ m' = m /\ a' = a /\ h' = h
          /\ d' = 0 /\ n' = n /\ status'[k] = status[k]
      BY <2>4, <2>11 DEF StopScheduler, Times, requests, executing
    <3> HIDE DEF q, s, t, r, m, a, h, d, n
    <3> QED
      BY <2>1, <2>2, <2>3, <3>1
  <2> QED
    BY <2>6, <2>7, <2>8, <2>9, <2>10, <2>11 DEF Next, Rest
<1>3. Inv => AskedFor
  BY DEF Weighed, Weight, AskedFor
<1> QED
  BY <1>1, <1>2, <1>3, DispatchTypeCorrect, PTL DEF Spec
=============================================================================
