----------------------------- MODULE PageRouter -----------------------------
(***************************************************************************)
(* The console's router (lealone-vue-5.0.0.js) in one tab that stays on    *)
(* one screen: the page shown and its parameters, the browser's history    *)
(* with the states the router wrote into it, and what the pages made of    *)
(* the parameters.                                                         *)
(*                                                                         *)
(* A page lives in a component that Vue creates when the page is first     *)
(* shown and keeps alive from then on: only the first showing, and a call  *)
(* of route, run its "mounted" function, which reads the parameters.       *)
(***************************************************************************)
EXTENDS Integers, Sequences

CONSTANTS
  ResultPage,  \* the pages whose mounted function takes the result to show
  MaxEntries,  \* bound: entries of the browser's history
  None         \* JavaScript's null and undefined, the parameters {}

VARIABLES
  entries,    \* the browser's history: a state of the router, or None
  pos,        \* the entry the tab is at
  page,       \* lealone.page
  params,     \* lealone.params: the result to show and the page it is for
  created,    \* the pages that have a component
  shown       \* the data "result" of each result page's component

routerVars == <<entries, pos, page, params, created, shown>>

State(p, x) == [page |-> p, params |-> x]

(* The page of an empty name: Vue draws nothing and makes no component.    *)
Blank == ""
WithComponent(p) == created \cup ({p} \ {Blank})

InitRouter(default) ==
  /\ entries = <<None>>
  /\ pos = 1
  /\ page = default
  /\ params = None
  /\ created = {default}
  /\ shown = [p \in ResultPage |-> None]

-----------------------------------------------------------------------------
(* The mounted function of p, with x as lealone.params: a result page      *)
(* takes what it is to show.                                               *)
RunMounted(p, x) ==
  shown' = IF p \in ResultPage THEN [shown EXCEPT ![p] = x] ELSE shown

(* history.pushState: the entries ahead are dropped.                       *)
Pushed(old, new) == SubSeq(entries, 1, pos) \o <<old, new>>

\* Mutant: the state left behind is written with the new parameters.
RouteLate(p, x) ==
  LET given == IF x = None THEN params ELSE x IN
  /\ params' = given
  /\ \/ /\ p = page
        /\ UNCHANGED <<entries, pos, page, created>>
     \/ /\ p # page
        /\ pos + 2 <= MaxEntries
        /\ entries' = Pushed(State(page, given), State(p, given))
        /\ pos' = pos + 2
        /\ page' = p
        /\ created' = WithComponent(p)
  /\ RunMounted(p, given)

\* Mutant: the page that is shown already is not told its new parameters.
RouteSilent(p, x) ==
  LET given == IF x = None THEN params ELSE x IN
  /\ params' = given
  /\ \/ /\ p = page
        /\ UNCHANGED <<entries, pos, page, created, shown>>
     \/ /\ p # page
        /\ pos + 2 <= MaxEntries
        /\ entries' = Pushed(State(page, params), State(p, given))
        /\ pos' = pos + 2
        /\ page' = p
        /\ created' = WithComponent(p)
        /\ RunMounted(p, given)

\* Mutant: only the state of the page that is left is pushed.
RouteOnce(p, x) ==
  LET given == IF x = None THEN params ELSE x IN
  /\ params' = given
  /\ \/ /\ p = page
        /\ UNCHANGED <<entries, pos, page, created>>
     \/ /\ p # page
        /\ pos + 2 <= MaxEntries
        /\ entries' = SubSeq(entries, 1, pos) \o <<State(page, params)>>
        /\ pos' = pos + 1
        /\ page' = p
        /\ created' = WithComponent(p)
  /\ RunMounted(p, given)

(* route, to a page of the same screen (no caller names another one): the  *)
(* state is taken before the parameters change; the page that is shown     *)
(* only runs its mounted function again; another page is pushed twice,     *)
(* once with the state left behind and once with the new one.  Vue mounts  *)
(* a page that has no component yet before anything else happens.          *)
Route(p, x) ==
  LET given == IF x = None THEN params ELSE x IN
  /\ params' = given
  /\ \/ /\ p = page
        /\ UNCHANGED <<entries, pos, page, created>>
     \/ /\ p # page
        /\ pos + 2 <= MaxEntries
        /\ entries' = Pushed(State(page, params), State(p, given))
        /\ pos' = pos + 2
        /\ page' = p
        /\ created' = WithComponent(p)
  /\ RunMounted(p, given)

(* The user goes back or forward to entry i; popstate restores page and    *)
(* parameters of its state, if it has one.  A page that has a component is *)
(* shown as it was: nothing runs its mounted function.                     *)
PopState(i) ==
  /\ i \in DOMAIN entries \ {pos}
  /\ pos' = i
  /\ UNCHANGED entries
  /\ \/ /\ entries[i] = None
        /\ UNCHANGED <<page, params, created, shown>>
     \/ /\ entries[i] # None
        /\ page' = entries[i].page
        /\ params' = entries[i].params
        /\ created' = WithComponent(page')
        /\ IF page' \in created THEN UNCHANGED shown ELSE RunMounted(page', params')

(* The document is loaded again: createVueApp starts at the screen's own   *)
(* page, whatever state the entry holds; the history stays.                *)
Reload(default) ==
  /\ page' = default
  /\ params' = None
  /\ created' = {default}
  /\ shown' = [p \in ResultPage |-> None]
  /\ UNCHANGED <<entries, pos>>
=============================================================================
