---------------------------- MODULE VueScheduler ----------------------------
(***************************************************************************)
(* The scheduler of Vue as the rest of a page sees it: tasks, runs of      *)
(* watchers and the hooks after a flush make watchers and have watchers    *)
(* queued, whichever they like.  VueApp is one such page.                  *)
(***************************************************************************)
EXTENDS WatcherQueue

CONSTANTS
  Watcher,   \* the watchers that may be made
  MaxRuns    \* a bound: how often one watcher is run in one flush

(* A flush in which a watcher waits again after its own run more often     *)
(* than this is broken off: that is left out, by the bound on the runs.    *)
MAX_UPDATE_COUNT == 100

ASSUME WatcherAssumption == IsFiniteSet(Watcher)
ASSUME MaxRunsAssumption == MaxRuns \in 1 .. MAX_UPDATE_COUNT + 1

VARIABLE sched  \* the state of the scheduler, see WatcherQueue

Unused ==
  [queue |-> <<>>, has |-> {}, at |-> 0, waiting |-> FALSE, flushing |-> FALSE,
   uid |-> 0, wid |-> [i \in Watcher |-> 0]]

Born(s) == {i \in Watcher : s.wid[i] > 0}

(* What comes of s when watchers are made and then some are queued: in     *)
(* between makes no difference, as only those that are there are compared. *)
Work(s, new, asked) == FoldLeft(QueueWatcher, FoldLeft(NewWatcher, s, new), asked)

Runs(s, i) == Cardinality({j \in DOMAIN s.queue : s.queue[j] = i})

(* Some of what a stretch of code can do: it makes the watchers new and    *)
(* has the watchers asked queued.                                          *)
Worked(s, new, asked) ==
  {t \in {Work(s, m, q) : m \in SetToSeqs(new \ Born(s)),
                          q \in SetToSeqs(asked \cap (Born(s) \cup new))} :
     \A i \in Watcher : Runs(t, i) <= MaxRuns}

AppMounted(new, asked) == sched \in Worked(Unused, new, asked)
SchedulerInit == \E new, asked \in SUBSET Watcher : AppMounted(new, asked)

Task(new, asked) == ~sched.flushing /\ sched' \in Worked(sched, new, asked)

BeginFlush == sched.waiting /\ ~sched.flushing /\ sched' = Begun(sched)

RunWatcher(new, asked) ==
  /\ sched.flushing /\ sched.at < Len(sched.queue)
  /\ sched' \in Worked(Taken(sched), new, asked)

(* The hooks that waited for the end of the flush are called.              *)
EndFlush(new, asked) ==
  /\ sched.flushing /\ sched.at = Len(sched.queue)
  /\ sched' \in Worked(ResetSchedulerState(sched), new, asked)

Step(new, asked) ==
  BeginFlush \/ Task(new, asked) \/ RunWatcher(new, asked) \/ EndFlush(new, asked)

SchedulerNext == \E new, asked \in SUBSET Watcher : Step(new, asked)

SchedulerSpec == SchedulerInit /\ [][SchedulerNext]_sched

-----------------------------------------------------------------------------
(* Properties.                                                             *)

(* The type of the scheduler's state (queue, has, index, waiting, flushing *)
(* of vue).                                                                *)
SchedulerTypeOK ==
  /\ sched \in [queue : Seq(Watcher), has : SUBSET Watcher, at : Nat, waiting : BOOLEAN,
                flushing : BOOLEAN, uid : Nat, wid : [Watcher -> Nat]]
  /\ sched.at <= Len(sched.queue)
  /\ ~sched.flushing => sched.at = 0

(* What is still to be run in a flush is in the order of creation, parents *)
(* before the components in them, also when a watcher comes in late        *)
(* (queueWatcher's splice).                                                *)
ParentsFirst ==
  sched.flushing =>
    \A j, k \in sched.at + 1 .. Len(sched.queue) :
      j < k => sched.wid[sched.queue[j]] < sched.wid[sched.queue[k]]

(* has, by which queueWatcher refuses a watcher, names those that are      *)
(* still to be run, each of them once, and a flush comes for them: no      *)
(* change of data is lost, also one made by the watcher's own run.         *)
NothingLost ==
  LET left == SubSeq(sched.queue, sched.at + 1, Len(sched.queue)) IN
  /\ sched.has = ToSet(left)
  /\ \A j, k \in DOMAIN left : left[j] = left[k] => j = k
  /\ sched.has # {} \/ sched.flushing => sched.waiting

(* The array with its late insertions runs the eldest of those that wait,  *)
(* and drops none (flushSchedulerQueue, queueWatcher).                     *)
Order == INSTANCE DrawingOrder
           WITH waits <- sched.has, drawing <- sched.flushing, age <- sched.wid
DrawsInOrder == Order!Spec
=============================================================================
