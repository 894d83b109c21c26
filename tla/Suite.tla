-------------------------------- MODULE Suite --------------------------------
(***************************************************************************)
(* The experiment suite and its supervisor (run_perf.sh, supervise.sh).    *)
(* run_perf starts one worker per graph; a worker goes through the slots   *)
(* of its plan, skips those whose rows are there and runs the program for  *)
(* each of the others.  The supervisor starts the suite again when it      *)
(* finds nothing of it alive and no "PERF DONE" in the log.  Any process   *)
(* of the suite may be killed; what it has started lives on without it.    *)
(***************************************************************************)
EXTENDS Naturals, Sequences, FiniteSets

CONSTANTS
  Graphs,
  Plan,            \* a worker's slots: "rows" adds rows to a CSV file, "save" writes
                   \* the final graph too, "static" adds a row computed from that graph
  MaxKills         \* bound: how often something is killed

\* A worker comes to the slot that saves the final graph before the baseline on it.
ASSUME SuiteAssumption ==
  /\ Plan \in Seq({"rows", "save", "static"}) /\ MaxKills \in Nat
  /\ \A i \in DOMAIN Plan : Plan[i] = "static" => \E j \in 1 .. (i - 1) : Plan[j] = "save"

VARIABLES
  log,             \* whether LOG has "PERF DONE"
  supervisor,      \* "grep", "bt", "rp" (about to do that), "exit"
  launches,        \* how often the suite has been started
  mains,           \* run_perf processes: [gen, todo], todo the workers to start
  workers,         \* their subshells: [gen, graph, slot]
  binaries,        \* program runs: [gen, graph, slot, done]
  measured,        \* [Graphs -> [DOMAIN Plan -> Nat]]: program runs that left their rows
  finals,          \* the graphs whose final graph is on disk
  kills,
  lost             \* history: graphs that lost a process of the current suite to a
                   \* kill that the process waiting for it survived

suite == <<mains, workers, binaries>>
disk == <<log, measured, finals>>
faults == <<kills, lost>>
suiteVars == <<supervisor, launches, suite, disk, faults>>

SuiteInit ==
  /\ log = FALSE /\ supervisor = "grep" /\ launches = 0
  /\ mains = {} /\ workers = {} /\ binaries = {}
  /\ measured = [g \in Graphs |-> [i \in DOMAIN Plan |-> 0]]
  /\ finals = {} /\ kills = 0 /\ lost = {}

-----------------------------------------------------------------------------
(* supervise.sh: one iteration takes three steps *)

Grep ==
  /\ supervisor = "grep"
  /\ supervisor' = IF log THEN "exit" ELSE "bt"
  /\ UNCHANGED <<launches, suite, disk, faults>>

\* Mutant: the program's runs are not asked for.
NoBinaryUnchecked == TRUE

\* pgrep -fc "batchtru[s]"
NoBinary == binaries = {}

CountBinaries ==
  /\ supervisor = "bt"
  /\ supervisor' = IF NoBinary THEN "rp" ELSE "grep"
  /\ UNCHANGED <<launches, suite, disk, faults>>

\* Mutants: workers are not counted; pgrep's own command line matches.
NoScriptButWorkers == mains = {}
NoScriptNever == FALSE

\* pgrep -fc "run_per[f]": the main process and its subshells have one command line.
NoScript == mains = {} /\ workers = {}

CountScripts ==
  /\ supervisor = "rp"
  /\ supervisor' = "grep"
  /\ IF NoScript
     THEN /\ launches' = launches + 1
          /\ mains' = {[gen |-> launches', todo |-> Graphs]}
          /\ lost' = {}
     ELSE UNCHANGED <<launches, mains, lost>>
  /\ UNCHANGED <<workers, binaries, disk, kills>>

SupervisorStep == Grep \/ CountBinaries \/ CountScripts

-----------------------------------------------------------------------------
(* run_perf.sh *)

StartWorker(g) ==
  \E m \in mains :
    /\ g \in m.todo
    /\ mains' = (mains \ {m}) \cup {[m EXCEPT !.todo = @ \ {g}]}
    /\ workers' = workers \cup {[gen |-> m.gen, graph |-> g, slot |-> 1]}
    /\ UNCHANGED <<supervisor, launches, binaries, disk, faults>>

\* Mutant: the script does not wait for its workers.
WaitedForNone(m) == m.todo = {}

WaitedFor(m) == m.todo = {} /\ \A w \in workers : w.gen # m.gen

\* wait returns when all workers have ended, however they have.
MainDone ==
  \E m \in mains :
    /\ WaitedFor(m)
    /\ log' = TRUE
    /\ mains' = mains \ {m}
    /\ UNCHANGED <<supervisor, launches, workers, binaries, measured, finals, faults>>

Waits(w) == \E b \in binaries : b.gen = w.gen /\ b.graph = w.graph

\* worker: one slot, or the end.  The slot's run of the program is waited for in
\* front of the next slot.
Worker(g) ==
  \E w \in workers :
    /\ w.graph = g /\ ~Waits(w)
    /\ IF w.slot \in DOMAIN Plan
       THEN workers' = (workers \ {w}) \cup {[w EXCEPT !.slot = @ + 1]}
       ELSE workers' = workers \ {w}
    /\ binaries' = IF w.slot \in DOMAIN Plan /\ measured[g][w.slot] = 0
                   THEN binaries \cup {[gen |-> w.gen, graph |-> g, slot |-> w.slot, done |-> FALSE]}
                   ELSE binaries
    /\ UNCHANGED <<supervisor, launches, mains, disk, faults>>

-----------------------------------------------------------------------------
(* The program: rows stay in its output buffer until it exits *)

\* The work of a run: the static baseline gives up when there is no final graph.
Compute(b) ==
  /\ ~b.done
  /\ binaries' = IF Plan[b.slot] = "static" /\ b.graph \notin finals
                 THEN binaries \ {b}
                 ELSE (binaries \ {b}) \cup {[b EXCEPT !.done = TRUE]}
  /\ finals' = IF Plan[b.slot] = "save" THEN finals \cup {b.graph} ELSE finals
  /\ UNCHANGED measured

Flush(b) ==
  /\ b.done
  /\ binaries' = binaries \ {b}
  /\ measured' = [measured EXCEPT ![b.graph][b.slot] = @ + 1]
  /\ UNCHANGED finals

Binary(g) ==
  /\ \E b \in binaries : b.graph = g /\ (Compute(b) \/ Flush(b))
  /\ UNCHANGED <<supervisor, launches, mains, workers, log, faults>>

-----------------------------------------------------------------------------
(* Kills *)

KillMain ==
  /\ mains # {}
  /\ mains' = {}
  /\ UNCHANGED <<workers, binaries, lost>>

KillWorker(w) ==
  /\ workers' = workers \ {w}
  /\ lost' = IF \E m \in mains : m.gen = w.gen THEN lost \cup {w.graph} ELSE lost
  /\ UNCHANGED <<mains, binaries>>

\* pkill -f run_perf
KillScripts ==
  /\ mains # {} \/ workers # {}
  /\ mains' = {} /\ workers' = {}
  /\ UNCHANGED <<binaries, lost>>

KillBinary(b) ==
  /\ binaries' = binaries \ {b}
  /\ lost' = IF \E w \in workers : w.gen = b.gen /\ w.graph = b.graph
             THEN lost \cup {b.graph} ELSE lost
  /\ UNCHANGED <<mains, workers>>

Kill ==
  /\ kills < MaxKills
  /\ kills' = kills + 1
  /\ \/ KillMain \/ KillScripts
     \/ \E w \in workers : KillWorker(w)
     \/ \E b \in binaries : KillBinary(b)
  /\ UNCHANGED <<supervisor, launches, disk>>

-----------------------------------------------------------------------------

\* The supervisor has left, and nothing of the suite runs.
Over == supervisor = "exit" /\ mains = {} /\ workers = {} /\ binaries = {} /\ UNCHANGED suiteVars

SuiteNext ==
  \/ SupervisorStep
  \/ MainDone
  \/ \E g \in Graphs : StartWorker(g) \/ Worker(g) \/ Binary(g)
  \/ Kill
  \/ Over

SuiteSafety == SuiteInit /\ [][SuiteNext]_suiteVars

\* Every process goes on while it is alive; nothing is assumed of kills.
SuiteSpec ==
  /\ SuiteSafety
  /\ WF_suiteVars(SupervisorStep) /\ WF_suiteVars(MainDone)
  /\ \A g \in Graphs : WF_suiteVars(StartWorker(g)) /\ WF_suiteVars(Worker(g)) /\ WF_suiteVars(Binary(g))

-----------------------------------------------------------------------------
(* Properties *)

\* Types of the suite's state.
SuiteTypeOK ==
  /\ log \in BOOLEAN /\ supervisor \in {"grep", "bt", "rp", "exit"}
  /\ launches \in Nat /\ kills \in Nat
  /\ mains \subseteq [gen : Nat, todo : SUBSET Graphs]
  /\ workers \subseteq [gen : Nat, graph : Graphs, slot : Nat \ {0}]
  /\ binaries \subseteq [gen : Nat, graph : Graphs, slot : DOMAIN Plan, done : BOOLEAN]
  /\ measured \in [Graphs -> [DOMAIN Plan -> Nat]]
  /\ finals \subseteq Graphs /\ lost \subseteq Graphs

\* However often the suite is started again, a graph has one worker, so that two
\* workers never count the same rows (supervise.sh:12-15).
OneWorker == \A v, w \in workers : v.graph = w.graph => v = w

\* A slot is measured at most twice: a run of the program that outlives its worker
\* may be repeated once, because the supervisor counts programs before scripts
\* (supervise.sh:11), but never again while it or its repetition runs.
MeasuredTwiceAtMost == \A g \in Graphs : \A i \in DOMAIN Plan : measured[g][i] <= 2

\* Every graph has its rows, except those of which a kill went unnoticed.
AllMeasured == \A g \in Graphs \ lost : \A i \in DOMAIN Plan : measured[g][i] > 0

\* When the suite says that it is done, every slot of every graph has its rows,
\* except of a graph that lost a worker, or a run of the program, to a kill that
\* the process waiting for it did not notice (run_perf.sh:123).
DoneIsComplete == [][log' /\ ~log => AllMeasured]_suiteVars

\* Whatever is killed, the supervisor sees the suite through to its end
\* (supervise.sh:5-17).
SuiteEnds == <>(supervisor = "exit")
=============================================================================
