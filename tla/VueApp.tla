------------------------------ MODULE VueApp ------------------------------
(***************************************************************************)
(* The two apps of the console at work: the user's events, the answers of  *)
(* the server, the back button, and in between the queue of watchers that  *)
(* Vue runs as a microtask, which no other task can enter.                 *)
(***************************************************************************)
EXTENDS VuePatch

CONSTANTS
  Apps,       \* the apps, the names of their templates
  PagesOf,    \* the pages of each app
  FirstPage,  \* the one each app starts with
  Typed,      \* what a user types
  Answers,    \* for a component that asks, what it can be answered with
  Results,    \* what a query is answered with: a page and its parameters
  MaxTasks,   \* a bound: tasks before the app is left alone
  MaxRuns     \* a bound: how often one watcher is run in one flush

VARIABLES
  ui,     \* the state of the page, see VueDom
  tasks   \* the tasks so far

vars == <<ui, tasks>>

Instances == DOMAIN Declared
NoInstances == [i \in Instances |-> NoInstance(i)]
NoAsks == [i \in Instances |-> 0]

(* Who has an id: what draws an instance, and the computed property.       *)
Watchers == Instances \cup {"computed"}
NoIds == [i \in Watchers |-> 0]

-----------------------------------------------------------------------------
(* new Vue and its mount: everything is drawn at once, and the insert      *)
(* hooks run before the app counts as mounted.                             *)
Started(app, page) ==
  LET blank == [app |-> app,
                dom |-> <<[Fresh(Nothing) EXCEPT !.tag = "body"]>>,
                inst |-> NoInstances,
                page |-> page, params |-> <<>>,
                computed |-> [dirty |-> TRUE, value |-> None], slot |-> <<>>,
                inserted |-> <<>>, activated |-> <<>>,
                queue |-> <<>>, has |-> {}, at |-> 0, waiting |-> FALSE, flushing |-> FALSE,
                uid |-> 0, wid |-> NoIds, asked |-> NoAsks, said |-> Declared] IN
  Mount(Created(blank, "root", <<>>), "root")

Init ==
  /\ \E app \in Apps : ui = Started(app, FirstPage[app])
  /\ tasks = 0

-----------------------------------------------------------------------------
(* flushSchedulerQueue.                                                    *)

BeginFlush ==
  /\ ui.waiting /\ ~ui.flushing
  /\ ui' = Begun(ui)
  /\ UNCHANGED tasks

\* Mutant: who is run still counts as waiting.
RunWatcherKeeps ==
  /\ ui.flushing /\ ui.at < Len(ui.queue)
  /\ ui' = Run([ui EXCEPT !.at = @ + 1], ui.queue[ui.at + 1])
  /\ UNCHANGED tasks

(* watcher.run: the instance is rendered and its part of the page patched. *)
RunWatcher ==
  /\ ui.flushing /\ ui.at < Len(ui.queue)
  /\ ui' = Run(Taken(ui), ui.queue[ui.at + 1])
  /\ UNCHANGED tasks

(* The end: the hooks that waited for the whole patch.                     *)
EndFlush ==
  /\ ui.flushing /\ ui.at = Len(ui.queue)
  /\ ui' = CallActivated(ResetSchedulerState(ui))
  /\ UNCHANGED tasks

-----------------------------------------------------------------------------
(* Tasks.  Only what is in the document and not hidden takes events.       *)

RECURSIVE Visible(_)
Visible(n) ==
  n = 1 \/ (~ui.dom[n].hidden /\ ui.dom[n].parent # 0 /\ Visible(ui.dom[n].parent))
Takes(event) == {n \in DOMAIN ui.dom : event \in DOMAIN ui.dom[n].on /\ Visible(n)}
InputType(n) == IF "type" \in DOMAIN ui.dom[n].attrs THEN ui.dom[n].attrs["type"] ELSE None

Idle == ~ui.waiting /\ tasks < MaxTasks
Does(s) == ui' = s /\ tasks' = tasks + 1

Click ==
  /\ Idle
  /\ \E n \in Takes("click") : Does(Trigger(ui, n, "click"))

Flip ==
  /\ Idle
  /\ \E n \in {m \in Takes("change") : InputType(m) = "checkbox"} :
       Does(Trigger(SetProp(ui, n, "checked", ~ui.dom[n].checked), n, "change"))

Pick ==
  /\ Idle
  /\ \E n \in {m \in Takes("change") : InputType(m) = "radio" /\ ~ui.dom[m].checked} :
       Does(Trigger(SetProp(ui, n, "checked", TRUE), n, "change"))

Type ==
  /\ Idle
  /\ \E event \in {"input", "keyup"} : \E n \in {m \in Takes(event) : InputType(m) # "hidden"} :
       \E x \in Typed \ {Live(ui, n)} :
         Does(Trigger(SetProp(ui, n, "value", x), n, event))

Select ==
  /\ Idle
  /\ \E n \in {m \in Takes("change") : ui.dom[m].tag = "select"} :
       \E k \in Range(Options(ui, n)) \ Chosen(ui, n) :
         Does(Trigger(Choose(ui, n, k), n, "change"))

(* handleResponse: the columns of the answer that the component has.       *)
Assigned(s, i, answer) ==
  FoldSet(LAMBDA key, t : IF t.inst[i].data[key] = None THEN t
                          ELSE SetData(t, i, key, answer[key]),
          s, DOMAIN answer)

Answered(i) == [ui EXCEPT !.asked[i] = @ - 1]

Answer ==
  /\ Idle
  /\ \E i \in DOMAIN Answers : \E answer \in Answers[i] :
       /\ ui.asked[i] > 0
       /\ Does(Assigned(Answered(i), i, answer))

(* The answer of a query shows its page, with the result as parameters.    *)
QueryAnswer ==
  /\ Idle
  /\ \E i \in {"query", "ops-header"} \cap Instances : \E r \in Results :
       /\ ui.asked[i] > 0
       /\ Does(Route(Answered(i), r.page, r.params))

(* The answer of the administrator's login, in loginAdmin's callback.      *)
LoginAnswer ==
  /\ Idle
  /\ ui.asked["login-admin"] > 0
  /\ LET t == Answered("login-admin") IN
     \/ Does(Route(SetData(t, "login-ops", "adminLoginOk", TRUE),
                   t.inst["login-ops"].data.adminBack, t.params))
     \/ Does(SetData(t, "login-admin", "error", "wrong"))

(* popstate: a page of the history is shown again, with its parameters;    *)
(* the mounted hook of one that exists is not called.  The history may be  *)
(* older than the document.                                                *)
Back ==
  /\ Idle
  /\ \E page \in PagesOf[ui.app] \ {ui.page} :
       \/ Mounted[page] # "take" /\ Does(SetPage(ui, page))
       \/ \E r \in Results : r.page = page /\ Does(SetPage([ui EXCEPT !.params = r.params], page))

Task == Click \/ Flip \/ Pick \/ Type \/ Select \/ Answer \/ QueryAnswer \/ LoginAnswer \/ Back
Flush == BeginFlush \/ RunWatcher \/ EndFlush

Next == Task \/ Flush

(* A microtask that waits is run before the next task: weak fairness of    *)
(* Flush, which can be taken exactly when a flush waits or is under way; a *)
(* step that leaves the tasks alone is one of Flush.                       *)
Fairness == []<>~ui.waiting \/ []<><<UNCHANGED tasks>>_vars

Spec == Init /\ [][Next]_vars /\ Fairness

-----------------------------------------------------------------------------
(* Properties.                                                             *)

(* Every change is drawn in the end: the watchers that a flush makes wait  *)
(* again, also a select that reports a change itself, never keep it going, *)
(* and the limit on the runs of one watcher, left out here, is not needed  *)
(* (flushSchedulerQueue, queueWatcher, componentUpdated).                  *)
Drawn == ui.waiting ~> ~ui.waiting

(* What the page does, it does to the scheduler as VueScheduler lets any   *)
(* page do: what is proved of that holds here (queueWatcher, Watcher,      *)
(* flushSchedulerQueue, called from everywhere in Vue).                    *)
Scheduler ==
  INSTANCE VueScheduler
    WITH Watcher <- Watchers,
         sched <- [queue |-> ui.queue, has |-> ui.has, at |-> ui.at, waiting |-> ui.waiting,
                   flushing |-> ui.flushing, uid |-> ui.uid, wid |-> ui.wid]
MadeNow == {i \in Watchers : ui.wid[i] = 0 /\ ui'.wid[i] > 0}
QueuedNow ==
  ui'.has \ IF ui.flushing THEN ToSet(SubSeq(ui.queue, ui.at + 2, Len(ui.queue))) ELSE ui.has
Scheduled ==
  /\ Scheduler!AppMounted({i \in Watchers : ui.wid[i] > 0}, ui.has)
  /\ [][Scheduler!Step(MadeNow, QueuedNow)]_ui

(* keep-alive: a page is created and mounted once and then its hooks       *)
(* alternate; at rest the page that is shown is the one active             *)
(* (componentVNodeHooks, queueActivatedComponent, deactivateChildComponent).*)
KeptAliveOnce ==
  \A i \in UNION Range(PagesOf) :
    LET hooks == ui.inst[i].hooks IN
    /\ \A j \in DOMAIN hooks :
         hooks[j] = CASE j = 1 -> "created" [] j = 2 -> "mounted"
                      [] j > 2 -> IF j % 2 = 1 THEN "activated" ELSE "deactivated"
    /\ ~ui.waiting /\ hooks # <<>> => (Last(hooks) = "activated" <=> i = ui.page)
=============================================================================
