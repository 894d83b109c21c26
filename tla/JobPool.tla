------------------------------- MODULE JobPool -------------------------------
(***************************************************************************)
(* The persistent thread pool of BatchMaintainer (batch.h): run_jobs,      *)
(* pool_worker, pool_start and pool_shutdown.                              *)
(*                                                                         *)
(* Thread 0 is the caller (the thread that owns the maintainer); threads   *)
(* 1..T-1 run pool_worker.  Every access to a shared atomic, every lock,   *)
(* wait and notification is a step of its own.  A task is identified by    *)
(* its index; a work function by the number of the call that passed it.    *)
(* The accesses are sequentially consistent: the release/acquire pairs of  *)
(* the code order everything the protocol depends on.                      *)
(***************************************************************************)
EXTENDS Integers, FiniteSets

CONSTANTS
  T,              \* number of threads, the caller included
  Chunk,          \* tasks claimed at a time (64 in the code)
  Threshold,      \* a call with fewer tasks runs inline (32768 in the code)
  Counts,         \* task counts of the calls
  MaxCalls,       \* bound: calls made before the maintainer is destroyed
  MaxSpurious     \* bound: spurious wake-ups of cv.wait in a behaviour

ASSUME PoolAssumption ==
  /\ T \in Nat \ {0}
  /\ Chunk \in Nat \ {0}
  /\ Threshold \in Nat
  /\ Counts \subseteq Nat
  /\ MaxCalls \in Nat
  /\ MaxSpurious \in Nat

Caller  == 0
Workers == 1 .. (T - 1)
Threads == 0 .. (T - 1)
NoOwner == -1

VARIABLES
  pc,             \* [Threads -> label]
  mutex,          \* owner of pool_mx, or NoOwner
  seq, job, done, stop, count,  \* the atomics of P
  body,           \* pool_body: the call whose function it is
  seen, n,        \* locals of pool_worker
  cur, end,       \* the tasks cur..end-1 a thread still has of its chunk
  calls,          \* calls of run_jobs so far; also names the current call
  total,          \* argument `count' of the current call
  ran,            \* history: how often each task of the call was executed
  spurious        \* spurious wake-ups so far

sharedVars == <<seq, job, done, stop, count, body>>
localVars  == <<seen, n, cur, end>>
callVars   == <<calls, total, ran>>
vars == <<pc, mutex, sharedVars, localVars, callVars, spurious>>

Goto(t, label) == pc' = [pc EXCEPT ![t] = label]
AtLabel(t, label) == pc[t] = label
Tasks(k) == 0 .. (k - 1)
Smaller(a, b) == IF a < b THEN a ELSE b

Init ==
  /\ pc = [t \in Threads |-> IF t = Caller THEN "idle" ELSE "lock"]
  /\ mutex = NoOwner
  /\ seq = 0 /\ job = 0 /\ done = 0 /\ stop = FALSE /\ count = 0
  /\ body = 0
  /\ seen = [t \in Threads |-> 0]
  /\ n = [t \in Threads |-> 0]
  /\ cur = [t \in Threads |-> 0]
  /\ end = [t \in Threads |-> 0]
  /\ calls = 0 /\ total = 0
  /\ ran = [i \in Tasks(0) |-> 0]
  /\ spurious = 0

-----------------------------------------------------------------------------
(* pool_worker *)

\* unique_lock: taken before the wait loop and again when cv.wait returns.
WorkerLock(w) ==
  /\ AtLabel(w, "lock")
  /\ mutex = NoOwner
  /\ mutex' = w
  /\ Goto(w, "test")
  /\ UNCHANGED <<sharedVars, localVars, callVars, spurious>>

\* The condition of the wait loop, evaluated with the mutex held; leaving
\* the loop leaves the scope of the lock.
WorkerTest(w) ==
  /\ AtLabel(w, "test")
  /\ \/ /\ seq = seen[w] /\ ~stop
        /\ Goto(w, "block")
        /\ UNCHANGED mutex
     \/ /\ ~(seq = seen[w] /\ ~stop)
        /\ Goto(w, "checkstop")
        /\ mutex' = NoOwner
  /\ UNCHANGED <<sharedVars, localVars, callVars, spurious>>

\* cv.wait releases the mutex and blocks in one step.
WorkerWait(w) ==
  /\ AtLabel(w, "block")
  /\ mutex' = NoOwner
  /\ Goto(w, "wait")
  /\ UNCHANGED <<sharedVars, localVars, callVars, spurious>>

SpuriousWakeup(w) ==
  /\ AtLabel(w, "wait")
  /\ spurious < MaxSpurious
  /\ spurious' = spurious + 1
  /\ Goto(w, "lock")
  /\ UNCHANGED <<mutex, sharedVars, localVars, callVars>>

WorkerCheckStop(w) ==
  /\ AtLabel(w, "checkstop")
  /\ Goto(w, IF stop THEN "exited" ELSE "readseq")
  /\ UNCHANGED <<mutex, sharedVars, localVars, callVars, spurious>>

WorkerReadSeq(w) ==
  /\ AtLabel(w, "readseq")
  /\ seen' = [seen EXCEPT ![w] = seq]
  /\ Goto(w, "readcount")
  /\ UNCHANGED <<mutex, sharedVars, n, cur, end, callVars, spurious>>

WorkerReadCount(w) ==
  /\ AtLabel(w, "readcount")
  /\ n' = [n EXCEPT ![w] = count]
  /\ Goto(w, "claim")
  /\ UNCHANGED <<mutex, sharedVars, seen, cur, end, callVars, spurious>>

\* pool_job.fetch_add(64): the thread takes the chunk that starts at the old
\* value, cut at the number of tasks, or finds that none is left.
Claim(t, limit, finished) ==
  /\ AtLabel(t, "claim")
  /\ job' = job + Chunk
  /\ \/ /\ job >= limit
        /\ Goto(t, finished)
        /\ UNCHANGED <<cur, end>>
     \/ /\ job < limit
        /\ Goto(t, "run")
        /\ cur' = [cur EXCEPT ![t] = job]
        /\ end' = [end EXCEPT ![t] = Smaller(job + Chunk, limit)]
  /\ UNCHANGED <<mutex, seq, done, stop, count, body, seen, n, callVars, spurious>>

WorkerClaim(w) == Claim(w, n[w], "done")

\* One iteration of the inner loop: body(tid, i).
Run(t, following) ==
  /\ ran' = [ran EXCEPT ![cur[t]] = @ + 1]
  /\ cur' = [cur EXCEPT ![t] = @ + 1]
  /\ Goto(t, IF cur[t] + 1 < end[t] THEN pc[t] ELSE following)
  /\ UNCHANGED <<mutex, sharedVars, seen, n, end, calls, total, spurious>>

WorkerRun(w) == AtLabel(w, "run") /\ Run(w, "claim")

WorkerDone(w) ==
  /\ AtLabel(w, "done")
  /\ done' = done + 1
  /\ Goto(w, "lock")
  /\ UNCHANGED <<mutex, seq, job, stop, count, body, localVars, callVars, spurious>>

-----------------------------------------------------------------------------
(* run_jobs *)

RunsInline(k) == T <= 1 \/ k < 2 \/ k < Threshold

\* The call as its caller sees it: number, task count, no task executed yet.
BeginCall(k) ==
  /\ AtLabel(Caller, "idle")
  /\ calls < MaxCalls
  /\ calls' = calls + 1
  /\ total' = k
  /\ ran' = [i \in Tasks(k) |-> 0]

CallInline(k) ==
  /\ RunsInline(k)
  /\ BeginCall(k)
  /\ Goto(Caller, IF k = 0 THEN "return" ELSE "inline")
  /\ cur' = [cur EXCEPT ![Caller] = 0]
  /\ end' = [end EXCEPT ![Caller] = k]
  /\ UNCHANGED <<mutex, sharedVars, seen, n, spurious>>

InlineRun == AtLabel(Caller, "inline") /\ Run(Caller, "return")

\* pool_body is assigned before the mutex is taken.
CallPool(k) ==
  /\ ~RunsInline(k)
  /\ BeginCall(k)
  /\ body' = calls + 1
  /\ Goto(Caller, "publish")
  /\ UNCHANGED <<mutex, seq, job, done, stop, count, localVars, spurious>>

\* Mutant: the call is published without the mutex.
PublishUnlocked ==
  /\ AtLabel(Caller, "publish")
  /\ Goto(Caller, "setcount")
  /\ UNCHANGED <<mutex, sharedVars, localVars, callVars, spurious>>

PublishLock ==
  /\ AtLabel(Caller, "publish")
  /\ mutex = NoOwner
  /\ mutex' = Caller
  /\ Goto(Caller, "setcount")
  /\ UNCHANGED <<sharedVars, localVars, callVars, spurious>>

SetCount ==
  /\ AtLabel(Caller, "setcount")
  /\ count' = total
  /\ Goto(Caller, "setjob")
  /\ UNCHANGED <<mutex, seq, job, done, stop, body, localVars, callVars, spurious>>

\* Mutant: the job counter is not reset.
SetJobMissing ==
  /\ AtLabel(Caller, "setjob")
  /\ Goto(Caller, "setdone")
  /\ UNCHANGED <<mutex, sharedVars, localVars, callVars, spurious>>

SetJob ==
  /\ AtLabel(Caller, "setjob")
  /\ job' = 0
  /\ Goto(Caller, "setdone")
  /\ UNCHANGED <<mutex, seq, done, stop, count, body, localVars, callVars, spurious>>

SetDone ==
  /\ AtLabel(Caller, "setdone")
  /\ done' = 0
  /\ Goto(Caller, "bump")
  /\ UNCHANGED <<mutex, seq, job, stop, count, body, localVars, callVars, spurious>>

BumpSeq ==
  /\ AtLabel(Caller, "bump")
  /\ seq' = seq + 1
  /\ Goto(Caller, "notify")
  /\ UNCHANGED <<mutex, job, done, stop, count, body, localVars, callVars, spurious>>

\* notify_all: every waiting worker has to take the mutex again.
NotifyAll(label) ==
  pc' = [t \in Threads |->
           IF t = Caller THEN label
           ELSE IF pc[t] = "wait" THEN "lock" ELSE pc[t]]

NotifyWorkers ==
  /\ AtLabel(Caller, "notify")
  /\ NotifyAll("claim")
  /\ mutex' = NoOwner
  /\ UNCHANGED <<sharedVars, localVars, callVars, spurious>>

CallerClaim == Claim(Caller, total, "spin")

CallerRun == AtLabel(Caller, "run") /\ Run(Caller, "claim")

\* Mutant: the caller waits for one worker too few.
SpinDoneEarly ==
  /\ AtLabel(Caller, "spin")
  /\ done >= T - 2
  /\ Goto(Caller, "return")
  /\ UNCHANGED <<mutex, sharedVars, localVars, callVars, spurious>>

\* The caller leaves its spin loop when every worker has reported.
SpinDone ==
  /\ AtLabel(Caller, "spin")
  /\ done = T - 1
  /\ Goto(Caller, "return")
  /\ UNCHANGED <<mutex, sharedVars, localVars, callVars, spurious>>

CallReturns ==
  /\ AtLabel(Caller, "return")
  /\ Goto(Caller, "idle")
  /\ UNCHANGED <<mutex, sharedVars, localVars, callVars, spurious>>

-----------------------------------------------------------------------------
(* pool_shutdown, called by the destructor *)

Shutdown ==
  /\ AtLabel(Caller, "idle")
  /\ Goto(Caller, "stoplock")
  /\ UNCHANGED <<mutex, sharedVars, localVars, callVars, spurious>>

StopLock ==
  /\ AtLabel(Caller, "stoplock")
  /\ mutex = NoOwner
  /\ mutex' = Caller
  /\ Goto(Caller, "setstop")
  /\ UNCHANGED <<sharedVars, localVars, callVars, spurious>>

\* Mutant: the waiting workers are not notified of the stop.
SetStopSilently ==
  /\ AtLabel(Caller, "setstop")
  /\ stop' = TRUE
  /\ Goto(Caller, "join")
  /\ mutex' = NoOwner
  /\ UNCHANGED <<seq, job, done, count, body, localVars, callVars, spurious>>

SetStop ==
  /\ AtLabel(Caller, "setstop")
  /\ stop' = TRUE
  /\ NotifyAll("join")
  /\ mutex' = NoOwner
  /\ UNCHANGED <<seq, job, done, count, body, localVars, callVars, spurious>>

Join ==
  /\ AtLabel(Caller, "join")
  /\ \A w \in Workers : AtLabel(w, "exited")
  /\ Goto(Caller, "joined")
  /\ UNCHANGED <<mutex, sharedVars, localVars, callVars, spurious>>

\* The maintainer is gone; nothing is left to do.
Terminated == AtLabel(Caller, "joined") /\ UNCHANGED vars

-----------------------------------------------------------------------------

WorkerStep(w) ==
  \/ WorkerLock(w) \/ WorkerTest(w) \/ WorkerWait(w) \/ WorkerCheckStop(w)
  \/ WorkerReadSeq(w) \/ WorkerReadCount(w) \/ WorkerClaim(w) \/ WorkerRun(w)
  \/ WorkerDone(w)

\* Every step of the caller but the decision to call or to destroy the pool.
CallerStep ==
  \/ InlineRun \/ PublishLock \/ SetCount \/ SetJob \/ SetDone \/ BumpSeq
  \/ NotifyWorkers \/ CallerClaim \/ CallerRun \/ SpinDone \/ CallReturns
  \/ StopLock \/ SetStop \/ Join

Next ==
  \/ \E w \in Workers : WorkerStep(w) \/ SpuriousWakeup(w)
  \/ CallerStep
  \/ \E k \in Counts : CallInline(k) \/ CallPool(k)
  \/ Shutdown
  \/ Terminated

\* The operating system runs every thread that can run.  Nothing is assumed
\* of the caller's decisions and nothing of spurious wake-ups.
Fairness ==
  /\ \A w \in Workers : WF_vars(WorkerStep(w))
  /\ WF_vars(CallerStep)

Safety == Init /\ [][Next]_vars

Spec == Safety /\ Fairness

-----------------------------------------------------------------------------
(* Properties *)

WorkerLabels == {"lock", "test", "block", "wait", "checkstop", "readseq",
                 "readcount", "claim", "run", "done", "exited"}
CallerLabels == {"idle", "inline", "publish", "setcount", "setjob", "setdone",
                 "bump", "notify", "claim", "run", "spin", "return",
                 "stoplock", "setstop", "join", "joined"}

\* Types of every variable of the pool.
TypeOK ==
  /\ pc \in [Threads -> WorkerLabels \cup CallerLabels]
  /\ pc[Caller] \in CallerLabels
  /\ \A w \in Workers : pc[w] \in WorkerLabels
  /\ mutex \in Threads \cup {NoOwner}
  /\ seq \in Nat /\ job \in Nat /\ done \in Nat /\ stop \in BOOLEAN
  /\ count \in Nat /\ body \in Nat
  /\ seen \in [Threads -> Nat] /\ n \in [Threads -> Nat]
  /\ cur \in [Threads -> Nat] /\ end \in [Threads -> Nat]
  /\ calls \in Nat /\ total \in Nat
  /\ ran \in [Tasks(total) -> Nat]
  /\ spurious \in Nat

\* A worker that is past the stop check and has not yet reported done.
Working(w) == pc[w] \in {"readseq", "readcount", "claim", "run", "done"}

\* The caller is between publishing a call and leaving its spin loop.
InFlight == pc[Caller] \in {"notify", "claim", "run", "spin"}

\* No worker touches a call that has returned or has not been published: a
\* worker past its stop check belongs to the call in flight, and one that has
\* read the task count and runs the work function uses those of that call.
\* The work function captures the caller's stack by reference, so a straggler
\* of an earlier call would use a dead frame.
NoStraggler ==
  \A w \in Workers :
    /\ Working(w) => InFlight /\ body = calls
    /\ pc[w] \in {"claim", "run", "done"} => n[w] = total

\* The pool implements the parallel loop: every task exactly once, return
\* only when all are executed, and a call always returns.
Loop == INSTANCE ParallelLoop
          WITH running <- pc[Caller] \notin {"idle", "stoplock", "setstop", "join", "joined"},
               count <- total

LoopSafety == Loop!Safety
LoopSpec == Loop!Spec

\* Destroying the maintainer terminates: the notification that announces stop
\* is not lost on any worker, wherever it is when it is sent, and join returns.
ShutdownCompletes == pc[Caller] = "stoplock" ~> pc[Caller] = "joined"

-----------------------------------------------------------------------------
(* The inductive invariant behind NoStraggler and LoopSafety *)

\* Who holds the mutex is determined by where the threads are.
HoldsMutex(t) ==
  IF t = Caller
  THEN pc[t] \in {"setcount", "setjob", "setdone", "bump", "notify", "setstop"}
  ELSE pc[t] \in {"test", "block"}

MutexInv == \A t \in Threads : HoldsMutex(t) <=> mutex = t

ParkedLabels == {"lock", "test", "block", "wait"}

\* The workers that have finished the call in flight.
Reported == {w \in Workers : pc[w] \in ParkedLabels /\ seen[w] = seq}

\* The handshake over seq and done.  Out of a call every worker is parked and
\* has seen the last sequence number; in a call it has not seen it yet, or is
\* executing, or has reported; done counts those that have reported.
HandshakeInv ==
  /\ stop => pc[Caller] \in {"join", "joined"}
  /\ \A w \in Workers :
       \/ ~InFlight /\ seen[w] = seq /\ pc[w] \in ParkedLabels
       \/ stop /\ seen[w] = seq /\ pc[w] \in {"checkstop", "exited"}
       \/ InFlight /\ seen[w] # seq /\ pc[w] \in ParkedLabels \cup {"checkstop", "readseq"}
       \/ InFlight /\ seen[w] = seq /\ pc[w] \in ParkedLabels \cup {"readcount", "claim", "run", "done"}
  /\ InFlight => done = Cardinality(Reported)
  /\ pc[Caller] = "bump" => done = 0

\* The call's arguments are in place before a worker can read them.
ArgumentsInv ==
  /\ pc[Caller] \in {"publish", "setcount", "setjob", "setdone", "bump",
                     "notify", "claim", "run", "spin"} => body = calls
  /\ pc[Caller] \in {"setjob", "setdone", "bump", "notify", "claim", "run", "spin"}
       => count = total
  /\ \A w \in Workers : pc[w] \in {"claim", "run", "done"} => n[w] = total

\* A thread has claimed task i and not executed it yet.
Holds(t, i) == pc[t] = "run" /\ cur[t] <= i /\ i < end[t]

\* The tasks below job are divided between the executed ones and the chunks in
\* the threads' hands, which are disjoint.
ChunksInv ==
  /\ \A t \in Threads : pc[t] = "run" => cur[t] < end[t] /\ end[t] <= total /\ end[t] <= job
  /\ \A t, u \in Threads :
       pc[t] = "run" /\ pc[u] = "run" /\ t # u => end[t] <= cur[u] \/ end[u] <= cur[t]
  /\ pc[Caller] \in {"setdone", "bump"} => job = 0
  /\ pc[Caller] = "spin" => job >= total

RanInv ==
  /\ InFlight => \A i \in Tasks(total) :
       ran[i] = IF i < job /\ ~(\E t \in Threads : Holds(t, i)) THEN 1 ELSE 0
  /\ pc[Caller] \in {"publish", "setcount", "setjob", "setdone", "bump"}
       => \A i \in Tasks(total) : ran[i] = 0
  /\ pc[Caller] = "inline" =>
       /\ cur[Caller] < total /\ end[Caller] = total
       /\ \A i \in Tasks(total) : ran[i] = IF i < cur[Caller] THEN 1 ELSE 0
  /\ pc[Caller] = "return" => \A i \in Tasks(total) : ran[i] = 1

\* The conjunction is inductive: NoStraggler and the refinement follow from it.
IInv == TypeOK /\ MutexInv /\ HandshakeInv /\ ArgumentsInv /\ ChunksInv /\ RanInv
=============================================================================
