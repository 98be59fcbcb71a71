---------------------------- MODULE WatcherQueue ----------------------------
(***************************************************************************)
(* Vue's queue of watchers, as operators that take and give a state s with *)
(*   s.queue     the watchers to run in a flush, those before s.at done    *)
(*   s.has       the watchers that wait                                    *)
(*   s.waiting   a flush is asked for, s.flushing: under way               *)
(*   s.wid       the id of each watcher, 0 before there is one             *)
(*   s.uid       the last id given                                         *)
(* A watcher is made once; none is torn down.                              *)
(***************************************************************************)
EXTENDS Naturals, Sequences, SequencesExt

\* Mutant: the number is not counted on.
NewWatcherSame(s, i) == [s EXCEPT !.wid[i] = s.uid + 1]

(* Watcher: the next id.                                                   *)
NewWatcher(s, i) == [s EXCEPT !.uid = @ + 1, !.wid[i] = s.uid + 1]

(* Where a watcher goes while the queue is run: to its place by id, one    *)
(* whose place is past is next.                                            *)
Place(s, i) ==
  LET later == {j \in s.at + 1 .. Len(s.queue) : s.wid[s.queue[j]] > s.wid[i]} IN
  CHOOSE j \in s.at + 1 .. Len(s.queue) + 1 :
    /\ j .. Len(s.queue) \subseteq later
    /\ j > s.at + 1 => j - 1 \notin later

\* Mutants: always at the end; also when it waits already.
QueueLast(s, i) ==
  IF i \in s.has THEN s
  ELSE [s EXCEPT !.has = @ \cup {i}, !.queue = Append(@, i), !.waiting = TRUE]
QueueTwice(s, i) ==
  [s EXCEPT !.has = @ \cup {i}, !.waiting = TRUE,
            !.queue = InsertAt(@, IF s.flushing THEN Place(s, i) ELSE Len(@) + 1, i)]

(* queueWatcher.                                                           *)
QueueWatcher(s, i) ==
  IF i \in s.has THEN s
  ELSE [s EXCEPT !.has = @ \cup {i}, !.waiting = TRUE,
                 !.queue = InsertAt(@, IF s.flushing THEN Place(s, i) ELSE Len(@) + 1, i)]

-----------------------------------------------------------------------------
(* flushSchedulerQueue: its start, ... *)

Begun(s) ==
  [s EXCEPT !.flushing = TRUE, !.at = 0,
            !.queue = CHOOSE l \in SetToSeqs(ToSet(@)) :
                        \A j, k \in DOMAIN l : j < k => s.wid[l[j]] < s.wid[l[k]]]

(* ... what it takes a watcher out with before it runs it, ...             *)
Taken(s) == [s EXCEPT !.at = @ + 1, !.has = @ \ {s.queue[s.at + 1]}]

\* Mutant: the flush is over, but counts as asked for.
ResetSchedulerStateWaiting(s) ==
  [s EXCEPT !.flushing = FALSE, !.at = 0, !.queue = <<>>, !.has = {}]

(* ... and resetSchedulerState.                                            *)
ResetSchedulerState(s) ==
  [s EXCEPT !.flushing = FALSE, !.waiting = FALSE, !.at = 0, !.queue = <<>>, !.has = {}]
=============================================================================
