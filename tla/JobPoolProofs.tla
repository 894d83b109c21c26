---------------------------- MODULE JobPoolProofs ----------------------------
(***************************************************************************)
(* Machine-checked proofs about JobPool, for any number of threads, any    *)
(* chunk size, threshold, task counts and number of calls.  The invariant  *)
(* IInv is inductive; NoStraggler and the refinement of ParallelLoop's     *)
(* safety part follow from it.                                             *)
(***************************************************************************)
EXTENDS JobPool, FiniteSetTheorems, TLAPS

(* Caller is a thread and no worker; workers are threads. *)
LEMMA ThreadFacts ==
  /\ Caller \in Threads
  /\ Workers \subseteq Threads
  /\ Caller \notin Workers
  /\ NoOwner \notin Threads
  /\ \A t \in Threads : t = Caller \/ t \in Workers
BY PoolAssumption DEF Caller, Threads, Workers, NoOwner

(* Executing a task only changes the counter of a task and the thread's      *)
(* position.                                                               *)
LEMMA RunType ==
  ASSUME TypeOK, NEW t \in Threads, NEW L, Run(t, L)
  PROVE  ran' \in [Tasks(total') -> Nat] /\ cur' \in [Threads -> Nat]
<1>1. total' = total /\ ran \in [Tasks(total) -> Nat] /\ cur \in [Threads -> Nat]
  BY DEF TypeOK, Run
<1>2. CASE cur[t] \in Tasks(total)
  BY <1>1, <1>2 DEF Run
<1>3. CASE cur[t] \notin Tasks(total)
  <2>1. ran' = ran
    BY <1>1, <1>3 DEF Run
  <2>2. cur' = [cur EXCEPT ![t] = cur[t] + 1] /\ cur[t] \in Nat
    BY <1>1 DEF Run
  <2> QED BY <1>1, <2>1, <2>2
<1> QED BY <1>2, <1>3

(* A call starts with every counter at zero. *)
LEMMA CallType ==
  ASSUME TypeOK, NEW k \in Counts, BeginCall(k)
  PROVE  ran' \in [Tasks(total') -> Nat] /\ total' \in Nat /\ calls' \in Nat
BY PoolAssumption DEF TypeOK, BeginCall

(* Types are preserved: no step stores a value outside its variable's range. *)
LEMMA TypeStep == TypeOK /\ [Next]_vars => TypeOK'
<1> SUFFICES ASSUME TypeOK, [Next]_vars PROVE TypeOK'
  OBVIOUS
<1> USE PoolAssumption, ThreadFacts
<1> USE DEF TypeOK, Goto, AtLabel, WorkerLabels, CallerLabels, callVars, localVars, sharedVars
<1>1. CASE UNCHANGED vars
  BY <1>1 DEF vars
<1>2. ASSUME NEW w \in Workers, WorkerStep(w) \/ SpuriousWakeup(w) PROVE TypeOK'
  <2>1. CASE WorkerLock(w)
    BY <2>1 DEF WorkerLock
  <2>2. CASE WorkerTest(w)
    BY <2>2 DEF WorkerTest
  <2>3. CASE WorkerWait(w)
    BY <2>3 DEF WorkerWait
  <2>4. CASE SpuriousWakeup(w)
    BY <2>4 DEF SpuriousWakeup
  <2>5. CASE WorkerCheckStop(w)
    BY <2>5 DEF WorkerCheckStop
  <2>6. CASE WorkerReadSeq(w)
    BY <2>6 DEF WorkerReadSeq
  <2>7. CASE WorkerReadCount(w)
    BY <2>7 DEF WorkerReadCount
  <2>8. CASE WorkerClaim(w)
    BY <2>8 DEF WorkerClaim, Claim, Smaller
  <2>9. CASE WorkerRun(w)
    BY <2>9, RunType DEF WorkerRun, Run
  <2>10. CASE WorkerDone(w)
    BY <2>10 DEF WorkerDone
  <2> QED BY <1>2, <2>1, <2>2, <2>3, <2>4, <2>5, <2>6, <2>7, <2>8, <2>9, <2>10 DEF WorkerStep
<1>3. CASE CallerStep
  <2>1. CASE InlineRun
    BY <2>1, RunType DEF InlineRun, Run
  <2>2. CASE PublishLock
    BY <2>2 DEF PublishLock
  <2>3. CASE SetCount
    BY <2>3 DEF SetCount
  <2>4. CASE SetJob
    BY <2>4 DEF SetJob
  <2>5. CASE SetDone
    BY <2>5 DEF SetDone
  <2>6. CASE BumpSeq
    BY <2>6 DEF BumpSeq
  <2>7. CASE NotifyWorkers
    BY <2>7 DEF NotifyWorkers, NotifyAll
  <2>8. CASE CallerClaim
    BY <2>8 DEF CallerClaim, Claim, Smaller
  <2>9. CASE CallerRun
    BY <2>9, RunType DEF CallerRun, Run
  <2>10. CASE SpinDone
    BY <2>10 DEF SpinDone
  <2>11. CASE CallReturns
    BY <2>11 DEF CallReturns
  <2>12. CASE StopLock
    BY <2>12 DEF StopLock
  <2>13. CASE SetStop
    BY <2>13 DEF SetStop, NotifyAll
  <2>14. CASE Join
    BY <2>14 DEF Join
  <2> QED BY <1>3, <2>1, <2>2, <2>3, <2>4, <2>5, <2>6, <2>7, <2>8, <2>9, <2>10,
             <2>11, <2>12, <2>13, <2>14 DEF CallerStep
<1>4. ASSUME NEW k \in Counts, CallInline(k) \/ CallPool(k) PROVE TypeOK'
  <2>1. k \in Nat /\ BeginCall(k)
    BY <1>4 DEF CallInline, CallPool
  <2>2. CASE CallInline(k)
    BY <2>1, <2>2, CallType DEF CallInline
  <2>3. CASE CallPool(k)
    BY <2>1, <2>3, CallType DEF CallPool
  <2> QED BY <1>4, <2>2, <2>3
<1>5. CASE Shutdown
  BY <1>5 DEF Shutdown
<1>6. CASE Terminated
  BY <1>6 DEF Terminated, vars
<1> QED BY <1>1, <1>2, <1>3, <1>4, <1>5, <1>6 DEF Next

(* Types hold initially. *)
LEMMA InitTypeOK == Init => TypeOK
<1> SUFFICES ASSUME Init PROVE TypeOK
  OBVIOUS
<1>1. ran \in [Tasks(total) -> Nat]
  BY DEF Init
<1> QED BY <1>1, PoolAssumption, ThreadFacts DEF Init, TypeOK, WorkerLabels, CallerLabels

(* The mutex has one owner, the thread whose label says it holds it. *)
LEMMA MutexStep == TypeOK /\ MutexInv /\ [Next]_vars => MutexInv'
<1> SUFFICES ASSUME TypeOK, MutexInv, [Next]_vars PROVE MutexInv'
  OBVIOUS
<1> USE PoolAssumption, ThreadFacts
<1> USE DEF TypeOK, Goto, AtLabel, WorkerLabels, CallerLabels, callVars, localVars, sharedVars, MutexInv, HoldsMutex
<1>1. CASE UNCHANGED vars
  BY <1>1 DEF vars
<1>2. ASSUME NEW w \in Workers, WorkerStep(w) \/ SpuriousWakeup(w) PROVE MutexInv'
  <2>1. CASE WorkerLock(w)
    BY <2>1 DEF WorkerLock
  <2>2. CASE WorkerTest(w)
    BY <2>2 DEF WorkerTest
  <2>3. CASE WorkerWait(w)
    BY <2>3 DEF WorkerWait
  <2>4. CASE SpuriousWakeup(w)
    BY <2>4 DEF SpuriousWakeup
  <2>5. CASE WorkerCheckStop(w)
    BY <2>5 DEF WorkerCheckStop
  <2>6. CASE WorkerReadSeq(w)
    BY <2>6 DEF WorkerReadSeq
  <2>7. CASE WorkerReadCount(w)
    BY <2>7 DEF WorkerReadCount
  <2>8. CASE WorkerClaim(w)
    BY <2>8 DEF WorkerClaim, Claim
  <2>9. CASE WorkerRun(w)
    BY <2>9 DEF WorkerRun, Run
  <2>10. CASE WorkerDone(w)
    BY <2>10 DEF WorkerDone
  <2> QED BY <1>2, <2>1, <2>2, <2>3, <2>4, <2>5, <2>6, <2>7, <2>8, <2>9, <2>10 DEF WorkerStep
<1>3. CASE CallerStep
  <2>1. CASE InlineRun
    BY <2>1 DEF InlineRun, Run
  <2>2. CASE PublishLock
    BY <2>2 DEF PublishLock
  <2>3. CASE SetCount
    BY <2>3 DEF SetCount
  <2>4. CASE SetJob
    BY <2>4 DEF SetJob
  <2>5. CASE SetDone
    BY <2>5 DEF SetDone
  <2>6. CASE BumpSeq
    BY <2>6 DEF BumpSeq
  <2>7. CASE NotifyWorkers
    BY <2>7 DEF NotifyWorkers, NotifyAll
  <2>8. CASE CallerClaim
    BY <2>8 DEF CallerClaim, Claim
  <2>9. CASE CallerRun
    BY <2>9 DEF CallerRun, Run
  <2>10. CASE SpinDone
    BY <2>10 DEF SpinDone
  <2>11. CASE CallReturns
    BY <2>11 DEF CallReturns
  <2>12. CASE StopLock
    BY <2>12 DEF StopLock
  <2>13. CASE SetStop
    BY <2>13 DEF SetStop, NotifyAll
  <2>14. CASE Join
    BY <2>14 DEF Join
  <2> QED BY <1>3, <2>1, <2>2, <2>3, <2>4, <2>5, <2>6, <2>7, <2>8,
             <2>9, <2>10, <2>11, <2>12, <2>13, <2>14 DEF CallerStep
<1>4. ASSUME NEW k \in Counts, CallInline(k) \/ CallPool(k) PROVE MutexInv'
  BY <1>4 DEF CallInline, CallPool, BeginCall
<1>5. CASE Shutdown
  BY <1>5 DEF Shutdown
<1>6. CASE Terminated
  BY <1>1, <1>6 DEF Terminated
<1> QED BY <1>1, <1>2, <1>3, <1>4, <1>5, <1>6 DEF Next

(* A worker in a call has read that call's arguments. *)
LEMMA ArgumentsStep == TypeOK /\ HandshakeInv /\ ArgumentsInv /\ [Next]_vars => ArgumentsInv'
<1> SUFFICES ASSUME TypeOK, HandshakeInv, ArgumentsInv, [Next]_vars PROVE ArgumentsInv'
  OBVIOUS
<1> USE PoolAssumption, ThreadFacts
<1> USE DEF TypeOK, Goto, AtLabel, WorkerLabels, CallerLabels, callVars, localVars, sharedVars, ArgumentsInv, HandshakeInv, InFlight, ParkedLabels
<1>1. CASE UNCHANGED vars
  BY <1>1 DEF vars
<1>2. ASSUME NEW w \in Workers, WorkerStep(w) \/ SpuriousWakeup(w) PROVE ArgumentsInv'
  <2>1. CASE WorkerLock(w)
    BY <2>1 DEF WorkerLock
  <2>2. CASE WorkerTest(w)
    BY <2>2 DEF WorkerTest
  <2>3. CASE WorkerWait(w)
    BY <2>3 DEF WorkerWait
  <2>4. CASE SpuriousWakeup(w)
    BY <2>4 DEF SpuriousWakeup
  <2>5. CASE WorkerCheckStop(w)
    BY <2>5 DEF WorkerCheckStop
  <2>6. CASE WorkerReadSeq(w)
    BY <2>6 DEF WorkerReadSeq
  <2>7. CASE WorkerReadCount(w)
    BY <2>7 DEF WorkerReadCount
  <2>8. CASE WorkerClaim(w)
    BY <2>8 DEF WorkerClaim, Claim
  <2>9. CASE WorkerRun(w)
    BY <2>9 DEF WorkerRun, Run
  <2>10. CASE WorkerDone(w)
    BY <2>10 DEF WorkerDone
  <2> QED BY <1>2, <2>1, <2>2, <2>3, <2>4, <2>5, <2>6, <2>7, <2>8, <2>9, <2>10 DEF WorkerStep
<1>3. CASE CallerStep
  <2>1. CASE InlineRun
    BY <2>1 DEF InlineRun, Run
  <2>2. CASE PublishLock
    BY <2>2 DEF PublishLock
  <2>3. CASE SetCount
    BY <2>3 DEF SetCount
  <2>4. CASE SetJob
    BY <2>4 DEF SetJob
  <2>5. CASE SetDone
    BY <2>5 DEF SetDone
  <2>6. CASE BumpSeq
    BY <2>6 DEF BumpSeq
  <2>7. CASE NotifyWorkers
    BY <2>7 DEF NotifyWorkers, NotifyAll
  <2>8. CASE CallerClaim
    BY <2>8 DEF CallerClaim, Claim
  <2>9. CASE CallerRun
    BY <2>9 DEF CallerRun, Run
  <2>10. CASE SpinDone
    BY <2>10 DEF SpinDone
  <2>11. CASE CallReturns
    BY <2>11 DEF CallReturns
  <2>12. CASE StopLock
    BY <2>12 DEF StopLock
  <2>13. CASE SetStop
    BY <2>13 DEF SetStop, NotifyAll
  <2>14. CASE Join
    BY <2>14 DEF Join
  <2> QED BY <1>3, <2>1, <2>2, <2>3, <2>4, <2>5, <2>6, <2>7, <2>8,
             <2>9, <2>10, <2>11, <2>12, <2>13, <2>14 DEF CallerStep
<1>4. ASSUME NEW k \in Counts, CallInline(k) \/ CallPool(k) PROVE ArgumentsInv'
  BY <1>4 DEF CallInline, CallPool, BeginCall
<1>5. CASE Shutdown
  BY <1>5 DEF Shutdown
<1>6. CASE Terminated
  BY <1>1, <1>6 DEF Terminated
<1> QED BY <1>1, <1>2, <1>3, <1>4, <1>5, <1>6 DEF Next

(* There are T - 1 workers, and finitely many of them have reported. *)
LEMMA ReportedFinite ==
  /\ IsFiniteSet(Workers) /\ Cardinality(Workers) = T - 1
  /\ IsFiniteSet(Reported) /\ Reported \subseteq Workers
<1>1. IsFiniteSet(Workers) /\ Cardinality(Workers) = T - 1
  BY PoolAssumption, FS_Interval DEF Workers
<1>2. Reported \subseteq Workers
  BY DEF Reported
<1> QED BY <1>1, <1>2, FS_Subset

(* When the count of reports reaches T - 1, every worker has reported. *)
LEMMA ReportedAll ==
  ASSUME HandshakeInv, InFlight, done = T - 1
  PROVE  Reported = Workers
<1>1. Cardinality(Reported) = Cardinality(Workers)
  BY ReportedFinite DEF HandshakeInv
<1> QED BY <1>1, ReportedFinite, FS_Subset

(* The handshake over seq and done is kept by every step. *)
LEMMA HandshakeStep == TypeOK /\ MutexInv /\ HandshakeInv /\ [Next]_vars => HandshakeInv'
<1> SUFFICES ASSUME TypeOK, MutexInv, HandshakeInv, [Next]_vars PROVE HandshakeInv'
  OBVIOUS
<1> USE PoolAssumption, ThreadFacts
<1> USE DEF TypeOK, Goto, AtLabel, WorkerLabels, CallerLabels, callVars, localVars, sharedVars, HandshakeInv, InFlight, ParkedLabels, HoldsMutex, MutexInv
<1>1. CASE UNCHANGED vars
  <2>1. Reported' = Reported
    BY <1>1 DEF vars, Reported
  <2> QED BY <1>1, <2>1 DEF vars
<1>2. ASSUME NEW w \in Workers, WorkerStep(w) \/ SpuriousWakeup(w) PROVE HandshakeInv'
  <2>1. CASE WorkerLock(w)
    <3>1. InFlight => Reported' = Reported
      BY <2>1 DEF WorkerLock, Reported
    <3> QED BY <2>1, <3>1 DEF WorkerLock
  <2>2. CASE WorkerTest(w)
    <3>1. InFlight => Reported' = Reported
      BY <2>2 DEF WorkerTest, Reported
    <3> QED BY <2>2, <3>1 DEF WorkerTest
  <2>3. CASE WorkerWait(w)
    <3>1. InFlight => Reported' = Reported
      BY <2>3 DEF WorkerWait, Reported
    <3> QED BY <2>3, <3>1 DEF WorkerWait
  <2>4. CASE SpuriousWakeup(w)
    <3>1. InFlight => Reported' = Reported
      BY <2>4 DEF SpuriousWakeup, Reported
    <3> QED BY <2>4, <3>1 DEF SpuriousWakeup
  <2>5. CASE WorkerCheckStop(w)
    <3>1. InFlight => Reported' = Reported
      BY <2>5 DEF WorkerCheckStop, Reported
    <3> QED BY <2>5, <3>1 DEF WorkerCheckStop
  <2>6. CASE WorkerReadSeq(w)
    <3>1. InFlight => Reported' = Reported
      BY <2>6 DEF WorkerReadSeq, Reported
    <3> QED BY <2>6, <3>1 DEF WorkerReadSeq
  <2>7. CASE WorkerReadCount(w)
    <3>1. InFlight => Reported' = Reported
      BY <2>7 DEF WorkerReadCount, Reported
    <3> QED BY <2>7, <3>1 DEF WorkerReadCount
  <2>8. CASE WorkerClaim(w)
    <3>1. InFlight => Reported' = Reported
      BY <2>8 DEF WorkerClaim, Claim, Reported
    <3> QED BY <2>8, <3>1 DEF WorkerClaim, Claim
  <2>9. CASE WorkerRun(w)
    <3>1. InFlight => Reported' = Reported
      BY <2>9 DEF WorkerRun, Run, Reported
    <3> QED BY <2>9, <3>1 DEF WorkerRun, Run
  <2>10. CASE WorkerDone(w)
    <3>1. w \notin Reported /\ Reported' = Reported \cup {w} /\ InFlight
      BY <2>10 DEF WorkerDone, Reported
    <3>2. Cardinality(Reported') = Cardinality(Reported) + 1
      BY <3>1, ReportedFinite, FS_AddElement
    <3> QED BY <2>10, <3>1, <3>2 DEF WorkerDone
  <2> QED BY <1>2, <2>1, <2>2, <2>3, <2>4, <2>5, <2>6, <2>7, <2>8, <2>9, <2>10 DEF WorkerStep
<1>3. CASE CallerStep
  <2>1. CASE InlineRun
    BY <2>1 DEF InlineRun, Run
  <2>2. CASE PublishLock
    BY <2>2 DEF PublishLock
  <2>3. CASE SetCount
    BY <2>3 DEF SetCount
  <2>4. CASE SetJob
    BY <2>4 DEF SetJob
  <2>5. CASE SetDone
    BY <2>5 DEF SetDone
  <2>6. CASE BumpSeq
    <3>1. Reported' = {}
      BY <2>6 DEF BumpSeq, Reported
    <3>2. Cardinality(Reported') = 0
      BY <3>1, FS_EmptySet
    <3> QED BY <2>6, <3>2 DEF BumpSeq
  <2>7. CASE NotifyWorkers
    <3>1. InFlight => Reported' = Reported
      BY <2>7 DEF NotifyWorkers, NotifyAll, Reported
    <3> QED BY <2>7, <3>1 DEF NotifyWorkers, NotifyAll
  <2>8. CASE CallerClaim
    <3>1. InFlight => Reported' = Reported
      BY <2>8 DEF CallerClaim, Claim, Reported
    <3> QED BY <2>8, <3>1 DEF CallerClaim, Claim
  <2>9. CASE CallerRun
    <3>1. InFlight => Reported' = Reported
      BY <2>9 DEF CallerRun, Run, Reported
    <3> QED BY <2>9, <3>1 DEF CallerRun, Run
  <2>10. CASE SpinDone
    <3>1. Reported = Workers
      BY <2>10, ReportedAll DEF SpinDone
    <3> QED BY <2>10, <3>1 DEF SpinDone, Reported
  <2>11. CASE CallReturns
    BY <2>11 DEF CallReturns
  <2>12. CASE StopLock
    BY <2>12 DEF StopLock
  <2>13. CASE SetStop
    BY <2>13 DEF SetStop, NotifyAll
  <2>14. CASE Join
    BY <2>14 DEF Join
  <2> QED BY <1>3, <2>1, <2>2, <2>3, <2>4, <2>5, <2>6, <2>7, <2>8,
             <2>9, <2>10, <2>11, <2>12, <2>13, <2>14 DEF CallerStep
<1>4. ASSUME NEW k \in Counts, CallInline(k) \/ CallPool(k) PROVE HandshakeInv'
  BY <1>4 DEF CallInline, CallPool, BeginCall
<1>5. CASE Shutdown
  BY <1>5 DEF Shutdown
<1>6. CASE Terminated
  BY <1>1, <1>6 DEF Terminated
<1> QED BY <1>1, <1>2, <1>3, <1>4, <1>5, <1>6 DEF Next

(* The chunks in the threads' hands stay disjoint and below job. *)
LEMMA ChunksStep == TypeOK /\ HandshakeInv /\ ArgumentsInv /\ ChunksInv /\ [Next]_vars => ChunksInv'
<1> SUFFICES ASSUME TypeOK, HandshakeInv, ArgumentsInv, ChunksInv, [Next]_vars PROVE ChunksInv'
  OBVIOUS
<1> USE PoolAssumption, ThreadFacts
<1> USE DEF TypeOK, Goto, AtLabel, WorkerLabels, CallerLabels, callVars, localVars, sharedVars, HandshakeInv, ArgumentsInv, InFlight, ParkedLabels, ChunksInv
<1>1. CASE UNCHANGED vars
  BY <1>1 DEF vars
<1>2. ASSUME NEW w \in Workers, WorkerStep(w) \/ SpuriousWakeup(w) PROVE ChunksInv'
  <2>1. CASE WorkerLock(w)
    BY <2>1 DEF WorkerLock
  <2>2. CASE WorkerTest(w)
    BY <2>2 DEF WorkerTest
  <2>3. CASE WorkerWait(w)
    BY <2>3 DEF WorkerWait
  <2>4. CASE SpuriousWakeup(w)
    BY <2>4 DEF SpuriousWakeup
  <2>5. CASE WorkerCheckStop(w)
    BY <2>5 DEF WorkerCheckStop
  <2>6. CASE WorkerReadSeq(w)
    BY <2>6 DEF WorkerReadSeq
  <2>7. CASE WorkerReadCount(w)
    BY <2>7 DEF WorkerReadCount
  <2>8. CASE WorkerClaim(w)
    BY <2>8 DEF WorkerClaim, Claim, Smaller
  <2>9. CASE WorkerRun(w)
    BY <2>9 DEF WorkerRun, Run
  <2>10. CASE WorkerDone(w)
    BY <2>10 DEF WorkerDone
  <2> QED BY <1>2, <2>1, <2>2, <2>3, <2>4, <2>5, <2>6, <2>7, <2>8, <2>9, <2>10 DEF WorkerStep
<1>3. CASE CallerStep
  <2>1. CASE InlineRun
    BY <2>1 DEF InlineRun, Run
  <2>2. CASE PublishLock
    BY <2>2 DEF PublishLock
  <2>3. CASE SetCount
    BY <2>3 DEF SetCount
  <2>4. CASE SetJob
    BY <2>4 DEF SetJob
  <2>5. CASE SetDone
    BY <2>5 DEF SetDone
  <2>6. CASE BumpSeq
    BY <2>6 DEF BumpSeq
  <2>7. CASE NotifyWorkers
    BY <2>7 DEF NotifyWorkers, NotifyAll
  <2>8. CASE CallerClaim
    BY <2>8 DEF CallerClaim, Claim, Smaller
  <2>9. CASE CallerRun
    BY <2>9 DEF CallerRun, Run
  <2>10. CASE SpinDone
    BY <2>10 DEF SpinDone
  <2>11. CASE CallReturns
    BY <2>11 DEF CallReturns
  <2>12. CASE StopLock
    BY <2>12 DEF StopLock
  <2>13. CASE SetStop
    BY <2>13 DEF SetStop, NotifyAll
  <2>14. CASE Join
    BY <2>14 DEF Join
  <2> QED BY <1>3, <2>1, <2>2, <2>3, <2>4, <2>5, <2>6, <2>7, <2>8,
             <2>9, <2>10, <2>11, <2>12, <2>13, <2>14 DEF CallerStep
<1>4. ASSUME NEW k \in Counts, CallInline(k) \/ CallPool(k) PROVE ChunksInv'
  BY <1>4 DEF CallInline, CallPool, BeginCall
<1>5. CASE Shutdown
  BY <1>5 DEF Shutdown
<1>6. CASE Terminated
  BY <1>1, <1>6 DEF Terminated
<1> QED BY <1>1, <1>2, <1>3, <1>4, <1>5, <1>6 DEF Next

(* What RanInv says of the call in flight. *)
RanDivided ==
  \A i \in Tasks(total) :
    ran[i] = IF i < job /\ ~(\E t \in Threads : Holds(t, i)) THEN 1 ELSE 0

(* Claiming a chunk moves its tasks from the unclaimed to the held ones. *)
LEMMA ClaimDivides ==
  ASSUME TypeOK, RanDivided, NEW t \in Threads, NEW L, L # "run",
         Claim(t, total, L), ChunksInv
  PROVE  RanDivided'
<1> USE DEF TypeOK, Claim, Goto, AtLabel, callVars
<1>1. total' = total /\ ran' = ran
  OBVIOUS
<1> SUFFICES ASSUME NEW i \in Tasks(total)
             PROVE  ran[i] = IF i < job' /\ ~(\E u \in Threads : Holds(u, i)') THEN 1 ELSE 0
  BY <1>1 DEF RanDivided
<1>2. i \in Nat /\ i < total
  BY DEF Tasks
<1>3. ran[i] = IF i < job /\ ~(\E u \in Threads : Holds(u, i)) THEN 1 ELSE 0
  BY DEF RanDivided
<1>4. \A u \in Threads : u # t => (Holds(u, i)' <=> Holds(u, i))
  BY DEF Holds
<1>5. ~Holds(t, i)
  BY DEF Holds
<1>6. CASE job >= total
  <2>1. ~Holds(t, i)' /\ i < job /\ i < job'
    BY <1>2, <1>6, PoolAssumption DEF Holds
  <2> QED BY <1>3, <1>4, <1>5, <2>1
<1>7. CASE job < total
  <2>1. Holds(t, i)' <=> job <= i /\ i < Smaller(job + Chunk, total)
    BY <1>7 DEF Holds
  <2>2. CASE i < job
    BY <1>2, <1>3, <1>4, <1>5, <2>1, <2>2, PoolAssumption
  <2>3. CASE job <= i /\ i < job + Chunk
    BY <1>2, <1>3, <2>1, <2>3, PoolAssumption DEF Smaller
  <2>4. CASE job + Chunk <= i
    BY <1>2, <1>3, <2>4, PoolAssumption
  <2> QED BY <1>2, <2>2, <2>3, <2>4, PoolAssumption
<1> QED BY <1>6, <1>7

(* Executing a task moves it from the held to the executed ones; no other    *)
(* thread holds it.                                                          *)
LEMMA RunDivides ==
  ASSUME TypeOK, RanDivided, ChunksInv, NEW t \in Threads, pc[t] = "run",
         NEW L, L # "run", Run(t, L)
  PROVE  RanDivided'
<1> USE DEF TypeOK, Run, Goto, sharedVars
<1>1. total' = total /\ job' = job
  OBVIOUS
<1>2. cur[t] \in Tasks(total) /\ cur[t] < job /\ cur[t] < end[t]
  BY DEF ChunksInv, Tasks
<1> SUFFICES ASSUME NEW i \in Tasks(total)
             PROVE  ran'[i] = IF i < job /\ ~(\E u \in Threads : Holds(u, i)') THEN 1 ELSE 0
  BY <1>1 DEF RanDivided
<1>3. i \in Nat /\ i < total
  BY DEF Tasks
<1>4. ran[i] = IF i < job /\ ~(\E u \in Threads : Holds(u, i)) THEN 1 ELSE 0
  BY DEF RanDivided
<1>5. \A u \in Threads : u # t => (Holds(u, i)' <=> Holds(u, i))
  BY DEF Holds
<1>6. CASE i = cur[t]
  <2>1. Holds(t, i) /\ ~Holds(t, i)'
    BY <1>2, <1>6 DEF Holds
  <2>2. \A u \in Threads : u # t => ~Holds(u, i)
    BY <1>2, <1>6 DEF ChunksInv, Holds
  <2>3. ran[i] = 0 /\ ran'[i] = ran[i] + 1
    BY <1>2, <1>4, <1>6, <2>1
  <2> QED BY <1>2, <1>5, <1>6, <2>1, <2>2, <2>3
<1>7. CASE i # cur[t]
  <2>1. Holds(t, i)' <=> Holds(t, i)
    BY <1>3, <1>7 DEF Holds
  <2>2. ran'[i] = ran[i]
    BY <1>2, <1>7
  <2> QED BY <1>4, <1>5, <2>1, <2>2
<1> QED BY <1>6, <1>7

(* While the chunks of a call are handed out, RanDivided is all of RanInv. *)
LEMMA RanInFlight == InFlight' /\ RanDivided' => RanInv'
  BY DEF InFlight, RanDivided, RanInv

(* A worker's step outside the chunk loop touches nothing that RanInv is about. *)
LEMMA RanUntouched ==
  ASSUME TypeOK, RanInv, NEW w \in Workers, NEW L, L # "run", pc[w] # "run",
         pc' = [pc EXCEPT ![w] = L], UNCHANGED <<job, ran, total, cur, end>>
  PROVE  RanInv'
<1>1. pc'[Caller] = pc[Caller]
  BY ThreadFacts DEF TypeOK
<1>2. \A t \in Threads : pc'[t] = "run" <=> pc[t] = "run"
  BY ThreadFacts DEF TypeOK
<1>3. \A i \in Tasks(total) : \A t \in Threads : Holds(t, i)' <=> Holds(t, i)
  BY <1>2 DEF Holds
<1>4. InFlight' <=> InFlight
  BY <1>1 DEF InFlight
<1> QED BY <1>1, <1>3, <1>4 DEF RanInv, Tasks

(* A task has been executed exactly when it was claimed and is in no chunk. *)
LEMMA RanStep == TypeOK /\ HandshakeInv /\ ArgumentsInv /\ ChunksInv /\ RanInv /\ [Next]_vars => RanInv'
<1> SUFFICES ASSUME TypeOK, HandshakeInv, ArgumentsInv, ChunksInv, RanInv, [Next]_vars PROVE RanInv'
  OBVIOUS
<1> USE PoolAssumption, ThreadFacts
<1> USE DEF TypeOK, Goto, AtLabel, WorkerLabels, CallerLabels, callVars, localVars, sharedVars, HandshakeInv, ArgumentsInv, InFlight, ParkedLabels, ChunksInv, RanInv, Holds, Tasks
<1>1. CASE UNCHANGED vars
  BY <1>1 DEF vars
<1>2. ASSUME NEW w \in Workers, WorkerStep(w) \/ SpuriousWakeup(w) PROVE RanInv'
  <2>1. CASE WorkerLock(w)
    BY <2>1, RanUntouched DEF WorkerLock
  <2>2. CASE WorkerTest(w)
    BY <2>2, RanUntouched DEF WorkerTest
  <2>3. CASE WorkerWait(w)
    BY <2>3, RanUntouched DEF WorkerWait
  <2>4. CASE SpuriousWakeup(w)
    BY <2>4, RanUntouched DEF SpuriousWakeup
  <2>5. CASE WorkerCheckStop(w)
    BY <2>5, RanUntouched DEF WorkerCheckStop
  <2>6. CASE WorkerReadSeq(w)
    BY <2>6, RanUntouched DEF WorkerReadSeq
  <2>7. CASE WorkerReadCount(w)
    BY <2>7, RanUntouched DEF WorkerReadCount
  <2>8. CASE WorkerClaim(w)
    <3>1. InFlight /\ RanDivided /\ n[w] = total
      BY <2>8 DEF WorkerClaim, Claim, RanDivided
    <3>2. Claim(w, total, "done")
      BY <2>8, <3>1 DEF WorkerClaim
    <3>3. RanDivided'
      BY <3>1, <3>2, ClaimDivides
    <3>4. InFlight'
      BY <2>8, <3>1 DEF WorkerClaim, Claim
    <3> QED BY <3>3, <3>4, RanInFlight
  <2>9. CASE WorkerRun(w)
    <3>1. InFlight /\ RanDivided
      BY <2>9 DEF WorkerRun, RanDivided
    <3>2. RanDivided'
      BY <2>9, <3>1, RunDivides DEF WorkerRun
    <3>3. InFlight'
      BY <2>9, <3>1 DEF WorkerRun, Run
    <3> QED BY <3>2, <3>3, RanInFlight
  <2>10. CASE WorkerDone(w)
    BY <2>10, RanUntouched DEF WorkerDone
  <2> QED BY <1>2, <2>1, <2>2, <2>3, <2>4, <2>5, <2>6, <2>7, <2>8, <2>9, <2>10 DEF WorkerStep
<1>3. CASE CallerStep
  <2>1. CASE InlineRun
    BY <2>1 DEF InlineRun, Run
  <2>2. CASE PublishLock
    BY <2>2 DEF PublishLock
  <2>3. CASE SetCount
    BY <2>3 DEF SetCount
  <2>4. CASE SetJob
    BY <2>4 DEF SetJob
  <2>5. CASE SetDone
    BY <2>5 DEF SetDone
  <2>6. CASE BumpSeq
    BY <2>6 DEF BumpSeq
  <2>7. CASE NotifyWorkers
    BY <2>7 DEF NotifyWorkers, NotifyAll
  <2>8. CASE CallerClaim
    <3>1. InFlight /\ RanDivided
      BY <2>8 DEF CallerClaim, Claim, RanDivided
    <3>2. RanDivided'
      BY <2>8, <3>1, ClaimDivides DEF CallerClaim
    <3>3. InFlight'
      BY <2>8, <3>1 DEF CallerClaim, Claim
    <3> QED BY <3>2, <3>3, RanInFlight
  <2>9. CASE CallerRun
    <3>1. InFlight /\ RanDivided
      BY <2>9 DEF CallerRun, RanDivided
    <3>2. RanDivided'
      BY <2>9, <3>1, RunDivides DEF CallerRun
    <3>3. InFlight'
      BY <2>9, <3>1 DEF CallerRun, Run
    <3> QED BY <3>2, <3>3, RanInFlight
  <2>10. CASE SpinDone
    <3>1. Reported = Workers
      BY <2>10, ReportedAll DEF SpinDone
    <3>2. \A t \in Threads : pc[t] # "run"
      BY <2>10, <3>1 DEF SpinDone, Reported
    <3>3. \A i \in Tasks(total) : ran[i] = 1
      BY <2>10, <3>2 DEF SpinDone
    <3> QED BY <2>10, <3>3 DEF SpinDone
  <2>11. CASE CallReturns
    BY <2>11 DEF CallReturns
  <2>12. CASE StopLock
    BY <2>12 DEF StopLock
  <2>13. CASE SetStop
    BY <2>13 DEF SetStop, NotifyAll
  <2>14. CASE Join
    BY <2>14 DEF Join
  <2> QED BY <1>3, <2>1, <2>2, <2>3, <2>4, <2>5, <2>6, <2>7, <2>8,
             <2>9, <2>10, <2>11, <2>12, <2>13, <2>14 DEF CallerStep
<1>4. ASSUME NEW k \in Counts, CallInline(k) \/ CallPool(k) PROVE RanInv'
  <2>1. BeginCall(k) /\ k \in Nat
    BY <1>4 DEF CallInline, CallPool
  <2>2. total' = k /\ \A i \in Tasks(k) : ran'[i] = 0
    BY <2>1 DEF BeginCall
  <2>3. CASE CallInline(k)
    BY <2>1, <2>2, <2>3 DEF CallInline, BeginCall
  <2>4. CASE CallPool(k)
    BY <2>1, <2>2, <2>4 DEF CallPool, BeginCall
  <2> QED BY <1>4, <2>3, <2>4
<1>5. CASE Shutdown
  BY <1>5 DEF Shutdown
<1>6. CASE Terminated
  BY <1>1, <1>6 DEF Terminated
<1> QED BY <1>1, <1>2, <1>3, <1>4, <1>5, <1>6 DEF Next

(* Every variable of the pool keeps its type. *)
THEOREM TypeCorrect == Safety => []TypeOK
<1>1. Init => TypeOK
  BY InitTypeOK
<1>2. TypeOK /\ [Next]_vars => TypeOK'
  BY TypeStep
<1> QED BY <1>1, <1>2, PTL DEF Safety

(* The invariant that relates the protocol's counters, the threads' positions *)
(* and the tasks executed so far holds in every reachable state.              *)
THEOREM Invariance == Safety => []IInv
<1>1. Init => IInv
  <2> SUFFICES ASSUME Init PROVE IInv
    OBVIOUS
  <2>1. TypeOK
    BY InitTypeOK
  <2>2. pc[Caller] = "idle" /\ \A w \in Workers : pc[w] = "lock" /\ seen[w] = seq
    BY ThreadFacts DEF Init
  <2>3. \A t \in Threads : ~HoldsMutex(t) /\ mutex # t
    BY <2>2, ThreadFacts DEF Init, HoldsMutex
  <2>4. ~stop
    BY DEF Init
  <2>5. \A t \in Threads : pc[t] # "run"
    BY <2>2, ThreadFacts
  <2> QED BY <2>1, <2>2, <2>3, <2>4, <2>5
          DEF IInv, MutexInv, HandshakeInv, ArgumentsInv, ChunksInv, RanInv, InFlight, ParkedLabels
<1>2. IInv /\ [Next]_vars => IInv'
  BY TypeStep, MutexStep, HandshakeStep, ArgumentsStep, ChunksStep, RanStep DEF IInv
<1> QED BY <1>1, <1>2, PTL DEF Safety

(* No worker touches a call that has returned or is not published yet. *)
THEOREM StragglerFree == Safety => []NoStraggler
<1>1. IInv => NoStraggler
  BY DEF IInv, HandshakeInv, ArgumentsInv, NoStraggler, Working, InFlight, ParkedLabels
<1> QED BY <1>1, Invariance, PTL

(* A step of the pool is a step of the parallel loop, or changes nothing that *)
(* the loop's caller can see.                                                 *)
LEMMA StepImplements == IInv /\ [Next]_vars => [Loop!Next]_(Loop!loopVars)
<1> SUFFICES ASSUME IInv, [Next]_vars PROVE [Loop!Next]_(Loop!loopVars)
  OBVIOUS
<1> DEFINE Running == pc[Caller] \notin {"idle", "stoplock", "setstop", "join", "joined"}
<1> USE PoolAssumption, ThreadFacts
<1>a. TypeOK
  BY DEF IInv
<1> USE DEF Goto, AtLabel, callVars, localVars, sharedVars, Loop!loopVars
<1>0. Loop!Tasks(total) = Tasks(total)
  BY DEF Loop!Tasks, Tasks
<1>b. ASSUME NEW t \in Threads, pc[t] \in {"run", "inline"}, pc[t] = "inline" => t = Caller,
             NEW L, Run(t, L), L \notin {"idle", "stoplock", "setstop", "join", "joined"}
      PROVE  Loop!Next
  <2>1. cur[t] \in Tasks(total) /\ ran[cur[t]] = 0 /\ Running
    <3>1. CASE pc[t] = "inline"
      BY <1>a, <1>b, <3>1 DEF IInv, RanInv, TypeOK, Tasks
    <3>2. CASE pc[t] = "run"
      <4>1. InFlight
        BY <3>2 DEF IInv, HandshakeInv, InFlight, ParkedLabels
      <4>2. cur[t] \in Tasks(total) /\ Holds(t, cur[t])
        <5>1. cur[t] \in Nat /\ end[t] \in Nat /\ total \in Nat
          BY <1>a DEF TypeOK
        <5>2. cur[t] < end[t] /\ end[t] <= total
          BY <3>2 DEF IInv, ChunksInv
        <5> QED BY <3>2, <5>1, <5>2 DEF Tasks, Holds
      <4>3. ran[cur[t]] = 0
        BY <4>1, <4>2 DEF IInv, RanInv
      <4> QED BY <4>1, <4>2, <4>3 DEF InFlight
    <3> QED BY <1>b, <3>1, <3>2
  <2>2. Running' /\ total' = total /\ ran' = [ran EXCEPT ![cur[t]] = 1]
    BY <1>a, <1>b, <2>1 DEF Run, TypeOK
  <2>3. Loop!Execute(cur[t])
    BY <2>1, <2>2 DEF Loop!Execute
  <2> QED BY <1>0, <2>1, <2>3 DEF Loop!Next
<1>1. CASE UNCHANGED vars
  BY <1>1 DEF vars
<1>2. ASSUME NEW w \in Workers, WorkerStep(w) \/ SpuriousWakeup(w)
      PROVE  [Loop!Next]_(Loop!loopVars)
  <2>1. CASE WorkerRun(w)
    BY <1>b, <2>1 DEF WorkerRun
  <2>2. CASE ~WorkerRun(w)
    <3>1. UNCHANGED <<total, ran>>
      BY <1>2, <2>2 DEF WorkerStep, WorkerLock, WorkerTest, WorkerWait, SpuriousWakeup,
            WorkerCheckStop, WorkerReadSeq, WorkerReadCount, WorkerClaim, Claim, WorkerDone
    <3>2. pc'[Caller] = pc[Caller]
      BY <1>a, <1>2, <2>2 DEF TypeOK, WorkerStep, WorkerLock, WorkerTest, WorkerWait, SpuriousWakeup,
            WorkerCheckStop, WorkerReadSeq, WorkerReadCount, WorkerClaim, Claim, WorkerDone
    <3> QED BY <3>1, <3>2
  <2> QED BY <2>1, <2>2
<1>3. CASE CallerStep
  <2>1. CASE InlineRun
    BY <1>b, <2>1 DEF InlineRun
  <2>2. CASE CallerRun
    BY <1>b, <2>2 DEF CallerRun
  <2>3. CASE CallReturns
    <3>1. Running /\ ~Running' /\ UNCHANGED <<total, ran>>
      BY <1>a, <2>3 DEF CallReturns, TypeOK
    <3>2. \A i \in Tasks(total) : ran[i] = 1
      BY <2>3 DEF CallReturns, IInv, RanInv
    <3> QED BY <1>0, <3>1, <3>2 DEF Loop!Next, Loop!Return
  <2>4. CASE PublishLock \/ SetCount \/ SetJob \/ SetDone \/ BumpSeq \/ NotifyWorkers
    BY <1>a, <2>4 DEF TypeOK, PublishLock, SetCount, SetJob, SetDone, BumpSeq, NotifyWorkers, NotifyAll
  <2>5. CASE CallerClaim \/ SpinDone \/ StopLock \/ SetStop \/ Join
    BY <1>a, <2>5 DEF TypeOK, CallerClaim, Claim, SpinDone, StopLock, SetStop, NotifyAll, Join
  <2> QED BY <1>3, <2>1, <2>2, <2>3, <2>4, <2>5 DEF CallerStep
<1>4. ASSUME NEW k \in Counts, CallInline(k) \/ CallPool(k)
      PROVE  [Loop!Next]_(Loop!loopVars)
  <2>1. ~Running /\ Running' /\ BeginCall(k)
    BY <1>a, <1>4 DEF TypeOK, CallInline, CallPool, BeginCall
  <2>2. Loop!Call(k)
    BY <2>1 DEF BeginCall, Loop!Call, Loop!Tasks, Tasks
  <2> QED BY <2>2 DEF Loop!Next
<1>5. CASE Shutdown
  BY <1>a, <1>5 DEF Shutdown, TypeOK
<1>6. CASE Terminated
  BY <1>1, <1>6 DEF Terminated
<1> QED BY <1>1, <1>2, <1>3, <1>4, <1>5, <1>6 DEF Next

(* The pool implements the parallel loop: every task of a call is executed    *)
(* exactly once before the call returns, whatever the interleaving.           *)
THEOREM ImplementsLoop == Safety => LoopSafety
<1>1. Init => Loop!Init
  BY ThreadFacts DEF Init, Loop!Init, Loop!Tasks, Tasks
<1> QED BY <1>1, Invariance, StepImplements, PTL DEF Safety, LoopSafety, Loop!Safety
=============================================================================
