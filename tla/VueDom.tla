------------------------------ MODULE VueDom ------------------------------
(***************************************************************************)
(* The document the pages are drawn in, and what Vue does to one element   *)
(* of it when a virtual node is created or updated: attributes, listeners, *)
(* properties, and the directives v-model and v-show.                      *)
(*                                                                         *)
(* The operators take and give the state s of the page as a whole:         *)
(*   s.dom       the nodes ever created; a node is known by its place      *)
(*   s.app       which app of the console this is                          *)
(*   s.inst      the component instances, by the tag of the component      *)
(*   s.page      lealone.page, with the computed property that caches it   *)
(*   s.computed  (currentComponent of lealone-vue)                         *)
(*   s.params    lealone.params                                            *)
(*   s.asked     the calls of each component the server still owes         *)
(*   s.said      for each component, the last value assigned to each of    *)
(*               its data (a history, read by no definition of the code)   *)
(* and what the scheduler has, see WatcherQueue.                           *)
(***************************************************************************)
EXTENDS VueTemplate, WatcherQueue

CONSTANTS
  Mounted, \* what the mounted hook of a component does: "ask", "take" or "none"
  Lists,   \* data that hold arrays: an assigned array is always a new one
  MaxAsks  \* a bound: calls of one component that are not answered yet

-----------------------------------------------------------------------------
(* Data, and the watchers that are told of them.                           *)

(* Watcher.update: a computed property becomes dirty, what draws waits.    *)
WatcherUpdate(s, w) ==
  IF w = "computed" THEN [s EXCEPT !.computed.dirty = TRUE] ELSE QueueWatcher(s, w)

(* Dep.notify, for the watchers that read the value when they last ran.    *)
Notify(s, subs) == FoldLeft(WatcherUpdate, s, subs)

(* reactiveSetter: nothing for the value it has.                           *)
SetData(s, i, key, x) ==
  LET t == [s EXCEPT !.said[i][key] = x] IN
  IF x = s.inst[i].data[key] /\ key \notin Lists THEN t
  ELSE Notify([t EXCEPT !.inst[i].data[key] = x],
              IF key \in s.inst[i].deps THEN <<i>> ELSE <<>>)

(* The same for lealone.page: the root reads it through the computed       *)
(* property and depends on both.                                           *)
SetPage(s, page) ==
  IF page = s.page THEN s ELSE Notify([s EXCEPT !.page = page], <<"computed", "root">>)

(* The mounted hooks of the pages' scripts: call the server, or take the   *)
(* result that came with the page.                                         *)
Ask(s, i) == [s EXCEPT !.asked[i] = IF @ < MaxAsks THEN @ + 1 ELSE @]
OnMounted(s, i) ==
  CASE Mounted[i] = "none" -> s
    [] Mounted[i] = "ask" -> Ask(s, i)
    [] Mounted[i] = "take" /\ s.page = i ->
         FoldSet(LAMBDA key, t : SetData(t, i, key, s.params[key]), s, DOMAIN s.params)
    [] Mounted[i] = "take" /\ s.page # i -> s

(* Lealone.route on one screen: the mounted hook of a page that exists is  *)
(* called, also when the page is shown already.                            *)
Route(s, page, params) ==
  LET t == SetPage([s EXCEPT !.params = params], page) IN
  IF page \in DOMAIN t.inst /\ t.inst[page].made THEN OnMounted(t, page) ELSE t

-----------------------------------------------------------------------------
(* Nodes.  value is None as long as nobody wrote to it; touched: checked   *)
(* was written to, so the attribute does not count any more; seen is       *)
(* _vOptions of a select.                                                  *)

Fresh(v) ==
  [tag |-> v.tag, text |-> v.text, comment |-> v.comment, attrs |-> <<>>,
   on |-> <<>>, vm |-> v.vm, value |-> None, checked |-> FALSE, touched |-> FALSE,
   selected |-> FALSE, html |-> None, hidden |-> FALSE, seen |-> <<>>,
   kids |-> <<>>, parent |-> 0]

Add(s, v) == [s EXCEPT !.dom = Append(@, Fresh(v))]

Options(s, n) == SelectSeq(s.dom[n].kids, LAMBDA k : s.dom[k].tag = "option")
Chosen(s, n) == {k \in Range(Options(s, n)) : s.dom[k].selected}
Live(s, n) ==
  CASE s.dom[n].value # None -> s.dom[n].value
    [] s.dom[n].value = None /\ s.dom[n].tag = "textarea" /\ s.dom[n].kids # <<>> ->
         s.dom[Head(s.dom[n].kids)].text[1]
    [] s.dom[n].value = None /\ s.dom[n].tag = "input" /\ "value" \in DOMAIN s.dom[n].attrs ->
         s.dom[n].attrs["value"]
    [] OTHER -> ""

(* What a browser does for a select that shows one option: one chosen      *)
(* takes the choice from the others, and without any the first is chosen.  *)
Choose(s, n, k) ==
  FoldLeft(LAMBDA t, j : [t EXCEPT !.dom[j].selected = (j = k)], s, Options(s, n))
Settled(s, n) ==
  IF n = 0 THEN s
  ELSE IF s.dom[n].tag = "select" /\ Options(s, n) # <<>> /\ Chosen(s, n) = {}
  THEN Choose(s, n, Head(Options(s, n))) ELSE s

(* removeChild, with removeNode's test.                                    *)
RemoveNode(s, n) ==
  LET p == s.dom[n].parent IN
  IF p = 0 THEN s
  ELSE Settled([s EXCEPT !.dom[p].kids = SelectSeq(@, LAMBDA k : k # n),
                         !.dom[n].parent = 0], p)

(* insertBefore and appendChild: a node that is somewhere is moved.        *)
InsertBefore(s, p, n, ref) ==
  LET t == RemoveNode(s, n)
      kids == t.dom[p].kids
      place == IF ref = 0 THEN Len(kids) + 1 ELSE SelectInSeq(kids, LAMBDA k : k = ref)
      u == [t EXCEPT !.dom[p].kids = InsertAt(@, place, n), !.dom[n].parent = p] IN
  IF t.dom[n].selected /\ t.dom[p].tag = "select" THEN Choose(u, p, n) ELSE Settled(u, p)

(* insert: nothing when the reference has gone elsewhere.                  *)
Insert(s, p, n, ref) ==
  IF p = 0 THEN s
  ELSE IF ref # 0 /\ s.dom[ref].parent # p THEN s
  ELSE InsertBefore(s, p, n, ref)

NextSibling(s, n) ==
  LET kids == s.dom[s.dom[n].parent].kids
      k == SelectInSeq(kids, LAMBDA m : m = n) IN
  IF k = Len(kids) THEN 0 ELSE kids[k + 1]

-----------------------------------------------------------------------------
(* update of tools.js: the arguments are what the inputs of the tool hold, *)
(* found in the document by their id.                                      *)
Update(s, i) ==
  LET options == {m \in DOMAIN s.dom :
                    "id" \in DOMAIN s.dom[m].attrs /\ s.dom[m].attrs["id"] = s.inst[i].data.toolName}
  IN SetData(s, i, "args", IF options = {} THEN "" ELSE Live(s, CHOOSE m \in options : TRUE))

(* route of login-ops.js: the pages of the administrator come after the    *)
(* login, which remembers where to go.                                     *)
Enter(s, i, page) ==
  IF s.inst[i].data.adminLoginOk THEN Route(s, page, s.params)
  ELSE Route(SetData(s, i, "adminBack", page), "login-admin", s.params)

(* What a handler of a node does: v-model's first, then a method of the    *)
(* component's script or one that calls the server.                        *)

Handled(s, n, h) ==
  LET i == s.dom[n].vm IN
  CASE h[1] = "choose" -> SetData(s, i, h[2],
         IF Chosen(s, n) = {} THEN None ELSE s.dom[CHOOSE k \in Chosen(s, n) : TRUE].value)
    [] h[1] = "flip" -> SetData(s, i, h[2], s.dom[n].checked)
    [] h[1] = "pick" -> SetData(s, i, h[2], h[3])
    [] h[1] = "type" -> SetData(s, i, h[2], Live(s, n))
    [] h[1] = "set" -> SetData(s, i, h[2], h[3])
    [] h[1] = "tell" -> Route(s, "result", [result |-> h[2]])
    [] h[1] = "enter" -> Enter(s, i, h[2])
    [] h[1] = "tool" -> Update(SetData(s, i, "toolName", h[2]), i)
    [] h[1] = "update" -> Update(s, i)
    [] h[1] = "ask" -> Ask(s, i)

(* dispatchEvent, and createFnInvoker's loop.                              *)
Trigger(s, n, event) ==
  FoldLeft(LAMBDA t, h : Handled(t, n, h), s, s.dom[n].on[event])

-----------------------------------------------------------------------------
(* The modules of patch; on creation old is a node without anything.       *)

(* setAttribute, removeAttribute: checked counts until the property is set.*)
PutAttribute(s, n, name, x) ==
  [s EXCEPT !.dom[n].attrs = name :> x @@ @,
            !.dom[n].checked = @ \/ (name = "checked" /\ ~s.dom[n].touched)]
DropAttribute(s, n, name) ==
  [s EXCEPT !.dom[n].attrs = Restrict(@, DOMAIN @ \ {name}),
            !.dom[n].checked = @ /\ (name # "checked" \/ s.dom[n].touched)]

(* baseSetAttr and setAttr; a boolean attribute has its name for value.    *)
BooleanAttr == {"checked", "disabled", "multiple", "readonly", "selected"}
BaseSetAttr(s, n, name, x) ==
  IF x = None THEN DropAttribute(s, n, name) ELSE PutAttribute(s, n, name, x)
SetAttr(s, n, name, x) ==
  BaseSetAttr(s, n, name, IF name \in BooleanAttr /\ x # None THEN name ELSE x)

(* updateAttrs.                                                            *)
UpdateAttrs(s, old, v) ==
  LET changed == {k \in DOMAIN v.attrs :
                    k \notin DOMAIN old.attrs \/ v.attrs[k] # old.attrs[k]}
      gone == {k \in DOMAIN old.attrs : k \notin DOMAIN v.attrs \/ v.attrs[k] = None} IN
  FoldSet(LAMBDA k, t : DropAttribute(t, v.elm, k),
          FoldSet(LAMBDA k, t : SetAttr(t, v.elm, k, v.attrs[k]), s, changed), gone)

(* genClassForVnode: the pages' classes are literal and on elements only.  *)
GenClass(v) == IF v.class = None THEN "" ELSE v.class[2]

(* updateClass.                                                            *)
UpdateClass(s, old, v) ==
  IF v.class = None /\ old.class = None THEN s
  ELSE PutAttribute(s, v.elm, "class", GenClass(v))

(* updateDOMListeners, updateListeners: the invoker of an event stays and  *)
(* calls the new handlers.                                                 *)
UpdateListeners(s, old, v) ==
  [s EXCEPT !.dom[v.elm].on =
     [e \in (DOMAIN @ \ DOMAIN old.on) \cup DOMAIN v.on |->
        IF e \in DOMAIN v.on THEN v.on[e] ELSE @[e]]]

(* elm[key] = x, as the browser takes it.                                  *)
SetProp(s, n, key, x) ==
  CASE key = "value" -> [s EXCEPT !.dom[n].value = x]
    [] key = "checked" -> [s EXCEPT !.dom[n].checked = x, !.dom[n].touched = TRUE]
    [] key = "selected" ->
         LET t == [s EXCEPT !.dom[n].selected = x]
             p == s.dom[n].parent IN
         IF p = 0 THEN t ELSE IF x THEN Choose(t, p, n) ELSE Settled(t, p)
    [] key = "innerHTML" ->
         [FoldLeft(RemoveNode, s, s.dom[n].kids) EXCEPT !.dom[n].html = x]

(* shouldUpdateValue: what the element shows decides.                      *)
ShouldUpdateValue(s, n, x) == s.dom[n].tag = "option" \/ Live(s, n) # x

(* updateDOMProps: all but value is compared with the last rendering.      *)
UpdateProps(s, old, v) ==
  LET n == v.elm
      stale(key) ==
        IF key = "value" THEN ShouldUpdateValue(s, n, v.props[key])
        ELSE key \notin DOMAIN old.props \/ v.props[key] # old.props[key]
      blank(key) == IF key \in {"value", "innerHTML"} THEN "" ELSE FALSE
      emptied == FoldSet(LAMBDA key, t : SetProp(t, n, key, blank(key)), s,
                         DOMAIN old.props \ DOMAIN v.props) IN
  FoldSet(LAMBDA key, t : SetProp(t, n, key, v.props[key]), emptied,
          {key \in DOMAIN v.props : stale(key)})

(* What updateDOMProps leaves of the children of a node with v-html.       *)
KidsOf(v) == IF "innerHTML" \in DOMAIN v.props THEN <<>> ELSE v.kids

HasModel(v) == v.tag = "select" /\ "model" \in DOMAIN v.dirs

(* The hooks of v-show; no element it is on has a display of its own.      *)
ShowBind(s, n, x) == [s EXCEPT !.dom[n].hidden = ~x]
ShowUpdate(s, n, x, oldX) == IF x = oldX THEN s ELSE [s EXCEPT !.dom[n].hidden = ~x]
ShowUnbind(s, n) == [s EXCEPT !.dom[n].hidden = FALSE]

UpdateShow(s, old, v) ==
  LET was == "show" \in DOMAIN old.dirs IN
  CASE "show" \in DOMAIN v.dirs /\ ~was -> ShowBind(s, v.elm, v.dirs["show"])
    [] "show" \in DOMAIN v.dirs /\ was ->
         ShowUpdate(s, v.elm, v.dirs["show"], old.dirs["show"])
    [] "show" \notin DOMAIN v.dirs /\ was -> ShowUnbind(s, v.elm)
    [] OTHER -> s

(* mergeVNodeHook: what is to be called once the node is inserted.         *)
MergeVNodeHook(s, v) ==
  [s EXCEPT !.inserted = Append(@, [vm |-> None, elm |-> v.elm, value |-> v.dirs["model"]])]

(* updateDirectives: v-show at once, v-model of a new select when that is  *)
(* inserted.                                                               *)
UpdateDirectives(s, old, v) ==
  LET t == UpdateShow(s, old, v) IN
  IF HasModel(v) /\ "model" \notin DOMAIN old.dirs THEN MergeVNodeHook(t, v) ELSE t

(* The modules, in the order of the list they are called from.             *)
UpdateModules(s, old, v) ==
  LET t == UpdateClass(UpdateAttrs(s, old, v), old, v) IN
  UpdateDirectives(UpdateProps(UpdateListeners(t, old, v), old, v), old, v)

(* actuallySetSelected, for a select of one: none without a match.         *)
SetSelected(s, n, x) ==
  LET fit == SelectSeq(Options(s, n), LAMBDA k : s.dom[k].value = x) IN
  Choose(s, n, IF fit = <<>> THEN 0 ELSE Head(fit))

(* getValue of every option: what was bound to it.                         *)
Values(s, n) == [j \in DOMAIN Options(s, n) |-> s.dom[Options(s, n)[j]].value]
HasNoMatchingOption(x, options) == x \notin Range(options)

(* directive.inserted.                                                     *)
ModelInserted(s, n, x) ==
  LET t == SetSelected(s, n, x) IN [t EXCEPT !.dom[n].seen = Values(t, n)]

(* directive.componentUpdated: when the options changed and the new value  *)
(* is none of them, the select reports a change itself.                    *)
ModelUpdated(s, n, x, oldX) ==
  LET t == SetSelected(s, n, x)
      prev == s.dom[n].seen
      cur == Values(t, n)
      u == [t EXCEPT !.dom[n].seen = cur]
      changed == \E j \in DOMAIN cur : j > Len(prev) \/ cur[j] # prev[j] IN
  IF changed /\ x # oldX /\ HasNoMatchingOption(x, cur) THEN Trigger(u, n, "change") ELSE u

(* The postpatch hooks of a node.                                          *)
Postpatch(s, old, v) ==
  IF HasModel(v) /\ "model" \in DOMAIN old.dirs
  THEN ModelUpdated(s, v.elm, v.dirs["model"], old.dirs["model"]) ELSE s
=============================================================================
