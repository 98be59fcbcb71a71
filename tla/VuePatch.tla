----------------------------- MODULE VuePatch -----------------------------
(***************************************************************************)
(* How Vue brings the document in line with a new tree of virtual nodes    *)
(* (patch), and the life of the component instances in it: the root of the *)
(* app, its parts, and the pages that keep-alive holds.  Operators take    *)
(* the state s of VueDom; those that give a virtual node, too, give        *)
(* [s, v], v with the element it stands for.                               *)
(*                                                                         *)
(* No component of the console is ever destroyed: the pages are kept       *)
(* alive, everything else is there as long as the document.                *)
(***************************************************************************)
EXTENDS VueDom

CONSTANTS
  Templates,  \* the template of every app and of every component, as tokens
  Declared    \* what data() gives, for the root and every component

(* compileToFunctions: a template is compiled once and kept.               *)
Code == [i \in DOMAIN Templates |-> Compile(Templates[i])]

(* $mount: what draws an instance comes from its template.                 *)
CodeOf(s, i) == Code[IF i = "root" THEN s.app ELSE i]

(* The element a virtual node stands for: of a component, the one its      *)
(* instance is drawn in.                                                   *)
Elm(s, v) == IF v.comp THEN s.inst[v.tag].elm ELSE v.elm

-----------------------------------------------------------------------------
(* sameVnode, sameInputType.                                               *)

TextInput == {"text", "password"}
SameInputType(a, b) ==
  LET type(v) == IF "type" \in DOMAIN v.attrs THEN v.attrs["type"] ELSE None IN
  \/ a.tag # "input"
  \/ type(a) = type(b)
  \/ {type(a), type(b)} \subseteq TextInput
SameVnode(a, b) ==
  /\ a.key = b.key
  /\ a.tag = b.tag
  /\ a.comment = b.comment
  /\ a.hasData = b.hasData
  /\ SameInputType(a, b)

-----------------------------------------------------------------------------
(* Rendering.  The variables of a template are the data of its instance;   *)
(* of the root, the computed page.                                         *)

RECURSIVE Reads(_, _)

(* The data a run of the code reads: the getters are called for them.      *)
Reads(c, env) ==
  LET in(e) == CASE Len(e) = 1 -> {e[1]}
                 [] Len(e) = 2 -> {}
                 [] Len(e) = 3 -> {e[1]} \cup (IF e[2] = "==" THEN {e[3]} ELSE {})
      all(pairs) == UNION {in(pairs[j].exp) : j \in DOMAIN pairs}
      kids(k) == UNION {Reads(k[j], env) : j \in DOMAIN k} IN
  CASE c.op = "text" -> UNION {in(c.parts[j]) : j \in DOMAIN c.parts}
    [] c.op = "create" -> (IF c.is = None THEN {} ELSE in(c.is)) \cup all(c.data.attrs)
                            \cup all(c.data.props) \cup all(c.data.dirs) \cup kids(c.kids.list)
    [] c.op = "array" -> kids(c.kids.list)
    [] c.op = "static" -> {}
    [] c.op = "if" ->
         in(c.exp) \cup (IF Value(c.exp, env) THEN Reads(c.code, env) ELSE {})
    [] c.op = "list" ->
         {c.list} \cup UNION {Reads(c.code, c.alias :> env[c.list][j] @@ env) \ {c.alias}
                                : j \in DOMAIN env[c.list]}

(* computedGetter: evaluated when it is dirty.                             *)
Computed(s) ==
  IF s.computed.dirty THEN [s EXCEPT !.computed = [dirty |-> FALSE, value |-> s.page]] ELSE s

(* The names of a template: data by proxy, of the root the computed page.  *)
Env(s, i) ==
  IF i = "root" THEN [this |-> i, currentComponent |-> s.computed.value]
  ELSE [key \in DOMAIN s.inst[i].data \cup {"this"} |->
          IF key = "this" THEN i ELSE s.inst[i].data[key]]

(* resolveSlots: a slot of blanks and comments is none.                    *)
IsWhitespace(v) == v.comment \/ v.text = <<" ">>
ResolveSlots(kids) == IF \A j \in DOMAIN kids : IsWhitespace(kids[j]) THEN <<>> ELSE kids

FirstComponentChild(kids) ==
  LET found == SelectSeq(kids, LAMBDA v : v.comp) IN
  IF found = <<>> THEN None ELSE Head(found)

(* The render function of keep-alive: the component in its slot, and the   *)
(* instance it had.  The instances are found by their tag here.            *)
KeptAlive(s) ==
  LET v == FirstComponentChild(s.slot) IN
  CASE v # None -> [v EXCEPT !.kept = TRUE]
    [] v = None /\ s.slot # <<>> -> Head(s.slot)
    [] v = None /\ s.slot = <<>> -> EmptyVNode

\* Mutant: what is read does not count among the new ones.
AddDepOld(s, i, keys) == [s EXCEPT !.inst[i].deps = @ \cup keys]

(* addDep, for all that one rendering reads: the watcher is told from now  *)
(* on; cleanupDeps, after the patch: no more of what was not read again.   *)
AddDep(s, i, keys) ==
  [s EXCEPT !.inst[i].deps = @ \cup keys, !.inst[i].newDeps = @ \cup keys]
CleanupDeps(s, i) ==
  [s EXCEPT !.inst[i].deps = s.inst[i].newDeps, !.inst[i].newDeps = {}]

(* _render, with the render function that was compiled.                    *)
RunCode(s, i, code, env) ==
  [s |-> AddDep(s, i, Reads(code, env)), v |-> Render(code, env).v]
Rendered(s, i) ==
  IF i = "keep-alive" THEN [s |-> s, v |-> KeptAlive(s)]
  ELSE LET t == IF i = "root" THEN Computed(s) ELSE s IN
       RunCode(t, i, CodeOf(s, i), Env(t, i))

-----------------------------------------------------------------------------
(* Instances.  made: there is one; inactive: None before it was first      *)
(* active; hooks: the life-cycle hooks called (a history).  No script gets *)
(* a component that is not there yet (getComponentInstance).               *)

NoInstance(i) ==
  [made |-> FALSE, data |-> Declared[i], vnode |-> None,
   elm |-> 0, deps |-> {}, newDeps |-> {}, mounted |-> FALSE, inactive |-> None,
   hooks |-> <<>>]

(* callHook; no script has a hook other than mounted.                      *)
CallHook(s, i, hook) ==
  LET t == [s EXCEPT !.inst[i].hooks = Append(@, hook)] IN
  IF hook = "mounted" THEN OnMounted(t, i) ELSE t

(* initRender: the slot, of keep-alive only.                               *)
InitRender(s, i, kids) ==
  IF kids = <<>> THEN s ELSE [s EXCEPT !.slot = ResolveSlots(kids)]

(* initData, initComputed and initState.  A computed property is a watcher *)
(* too and takes an id.                                                    *)
InitData(s, i) == [s EXCEPT !.inst[i].data = Declared[i]]
InitComputed(s) ==
  NewWatcher([s EXCEPT !.computed = [dirty |-> TRUE, value |-> None]], "computed")
InitState(s, i) == IF i = "root" THEN InitComputed(InitData(s, i)) ELSE InitData(s, i)

(* _init; the instance is known by its tag from now on.                    *)
Created(s, i, kids) ==
  CallHook([InitState(InitRender(s, i, kids), i) EXCEPT !.inst[i].made = TRUE], i, "created")

(* activateChildComponent, deactivateChildComponent; a page has no         *)
(* components in it.                                                       *)
Activate(s, i) ==
  IF s.inst[i].inactive = FALSE THEN s
  ELSE CallHook([s EXCEPT !.inst[i].inactive = FALSE], i, "activated")
Deactivate(s, i) ==
  IF s.inst[i].inactive = TRUE THEN s
  ELSE CallHook([s EXCEPT !.inst[i].inactive = TRUE], i, "deactivated")

(* queueActivatedComponent.                                                *)
QueueActivated(s, i) ==
  [s EXCEPT !.inst[i].inactive = FALSE, !.activated = Append(@, i)]

(* The insert hook of a component: mounted once; a kept one is active, at  *)
(* once while the app is mounted, else when everything is drawn.           *)
Inserted(s, e) ==
  LET i == e.vm
      t == IF s.inst[i].mounted THEN s
           ELSE CallHook([s EXCEPT !.inst[i].mounted = TRUE], i, "mounted") IN
  CASE ~e.kept -> t
    [] e.kept /\ ~s.inst["root"].mounted -> Activate(t, i)
    [] e.kept /\ s.inst["root"].mounted -> QueueActivated(t, i)

(* invokeInsertHook, at the end of a patch that was not the first of its   *)
(* component.                                                              *)
InvokeInserted(s) ==
  FoldLeft(LAMBDA t, e : IF e.vm = None THEN ModelInserted(t, e.elm, e.value) ELSE Inserted(t, e),
           [s EXCEPT !.inserted = <<>>], s.inserted)

\* Mutant: an inserted page counts as active before its hook is called.
CallActivatedMarked(s) ==
  FoldLeft(LAMBDA t, i : Activate(t, i), [s EXCEPT !.activated = <<>>], s.activated)

(* callActivatedHooks.                                                     *)
CallActivated(s) ==
  FoldLeft(LAMBDA t, i : Activate([t EXCEPT !.inst[i].inactive = TRUE], i),
           [s EXCEPT !.activated = <<>>], s.activated)

-----------------------------------------------------------------------------
(* Patching.                                                               *)

Nothing == VNode(None, <<>>, NoData, <<>>, None)

(* invokeDestroyHook: a kept page in what goes is made inactive.           *)
RECURSIVE Destroyed(_, _)
Destroyed(s, v) ==
  LET t == IF v.comp /\ v.kept THEN Deactivate(s, v.tag) ELSE s IN
  IF v.comp THEN t ELSE FoldLeft(Destroyed, t, v.kids)

(* removeVnodes; None is one that was moved.                               *)
RemoveVnodes(s, vs) ==
  FoldLeft(LAMBDA t, v :
             IF v = None THEN t
             ELSE IF v.tag = None THEN RemoveNode(t, v.elm)
             ELSE Destroyed(RemoveNode(t, Elm(t, v)), v),
           s, vs)

(* invokeCreateHooks: of an element the modules, of a component the insert *)
(* hook, when what is being patched is in the document.                    *)
InvokeCreateHooks(s, v) ==
  IF v.comp THEN [s EXCEPT !.inserted = Append(@, [vm |-> v.tag, kept |-> v.kept])]
  ELSE UpdateModules(s, Nothing, v)

(* The prepatch hook, updateChildComponent: what has a slot, keep-alive,   *)
(* is forced to render again.                                              *)
UpdateChildComponent(s, v) ==
  IF v.kids = <<>> THEN s
  ELSE QueueWatcher([s EXCEPT !.slot = ResolveSlots(v.kids)], v.tag)

(* _update, with what patch gave; a component that was made is put in its  *)
(* place.                                                                  *)
SetVnode(r, i) == [r.s EXCEPT !.inst[i].vnode = r.v, !.inst[i].elm = Elm(r.s, r.v)]
InsertInstance(s, v, parent, ref) == Insert(s, parent, Elm(s, v), ref)

(* The end of createElm, when the children are there.                      *)
InsertWith(s, v, parent, ref) ==
  [s |-> Insert(IF v.hasData THEN InvokeCreateHooks(s, v) ELSE s, parent, v.elm, ref),
   v |-> [v EXCEPT !.kids = KidsOf(v)]]
InsertElm(below, v, parent, ref) ==
  InsertWith(below.s, [v EXCEPT !.kids = below.v], parent, ref)
AppendKid(vs, c) == [s |-> c.s, v |-> Append(vs, c.v)]

(* The end of patchVnode: componentUpdated.                                *)
UpdatedElm(below, old, v) ==
  [s |-> Postpatch(below.s, old, v), v |-> [v EXCEPT !.kids = below.new]]

(* What updateChildren works on gets a new node's outcome, or all that is  *)
(* left of the new ones.                                                   *)
Put(u, j, r) == [u EXCEPT !.s = r.s, !.new[j] = r.v]
PutAll(u, r) ==
  [u EXCEPT !.s = r.s, !.new = SubSeq(@, 1, u.ns - 1) \o r.v \o SubSeq(@, u.ne + 1, Len(@))]

RECURSIVE CreateElm(_, _, _, _), CreateKids(_, _, _, _), CreateComponent(_, _, _, _),
          InitHook(_, _), Mount(_, _), Get(_, _), Patch(_, _, _, _), PatchVnode(_, _, _),
          UpdateChildren(_, _)

(* createElm: the children before the element's own data.                  *)
CreateElm(s, v, parent, ref) ==
  IF v.comp THEN CreateComponent(s, v, parent, ref)
  ELSE InsertElm(CreateKids(Add(s, v), v.kids, Len(s.dom) + 1, 0),
                 [v EXCEPT !.elm = Len(s.dom) + 1], parent, ref)

(* createChildren and addVnodes.                                           *)
CreateKids(s, vs, parent, ref) ==
  FoldLeft(LAMBDA r, v : AppendKid(r.v, CreateElm(r.s, v, parent, ref)),
           [s |-> s, v |-> <<>>], vs)

(* createComponent, initComponent and reactivateComponent.                 *)
CreateComponent(s, v, parent, ref) ==
  [s |-> InsertInstance(InvokeCreateHooks(InitHook(s, v), v), v, parent, ref), v |-> v]

(* The init hook: a new instance is mounted, a kept one is as it was.      *)
InitHook(s, v) ==
  IF s.inst[v.tag].made /\ v.kept THEN UpdateChildComponent(s, v)
  ELSE Mount(Created(s, v.tag, v.kids), v.tag)

(* mountComponent: the watcher that draws the instance gets its id; a      *)
(* component's own mounted hook is called on insertion.                    *)
Mount(s, i) ==
  [Get(NewWatcher(s, i), i) EXCEPT !.inst[i].mounted = @ \/ i = "root"]

(* _update.                                                                *)
UpdateInstance(r, i) ==
  SetVnode(Patch(r.s, i, r.s.inst[i].vnode, r.v), i)

(* Watcher.get.                                                            *)
Get(s, i) == CleanupDeps(UpdateInstance(Rendered(s, i), i), i)

(* Watcher.run; no watcher is ever torn down.                              *)
Run(s, i) == Get(s, i)

(* patch: a component's first tree is inserted by who made it, the root's  *)
(* replaces the element it was given, another tree than before replaces    *)
(* that one.                                                               *)
Patch(s, i, old, v) ==
  LET done(r, gone) == [r EXCEPT !.s = InvokeInserted(RemoveVnodes(r.s, gone))] IN
  CASE old = None /\ i # "root" -> CreateElm(s, v, 0, 0)
    [] old = None /\ i = "root" -> done(CreateElm(s, v, 1, 0), <<>>)
    [] old # None /\ SameVnode(old, v) -> done(PatchVnode(s, old, v), <<>>)
    [] old # None /\ ~SameVnode(old, v) ->
         done(CreateElm(s, v, s.dom[Elm(s, old)].parent, NextSibling(s, Elm(s, old))), <<old>>)

(* patchVnode: a cached static tree is the same object.                    *)
PatchVnode(s, old, v) ==
  LET w == [v EXCEPT !.elm = old.elm, !.kids = KidsOf(v)] IN
  CASE v.static = "cached" /\ old.static = "cached" -> [s |-> s, v |-> old]
    [] v.comp -> [s |-> UpdateChildComponent(s, v), v |-> w]
    [] v.tag = None ->
         [s |-> IF v.text = old.text THEN s ELSE [s EXCEPT !.dom[old.elm].text = v.text],
          v |-> w]
    [] OTHER ->
         UpdatedElm(UpdateChildren(old.elm,
                      [s |-> IF v.hasData THEN UpdateModules(s, old, w) ELSE s,
                       old |-> old.kids, new |-> w.kids,
                       os |-> 1, oe |-> Len(old.kids), ns |-> 1, ne |-> Len(w.kids)]),
                    old, w)

(* createKeyToOldIdx, for one key, and findIdxInOld; 0 is none.            *)
KeyToOldIdx(key, children, from, to) ==
  LET same == {i \in from .. to : children[i] # None /\ children[i].key = key} IN
  IF same = {} THEN 0 ELSE Max(same)
FindIdxInOld(node, children, from, to) ==
  LET same == {i \in from .. to - 1 : children[i] # None /\ SameVnode(node, children[i])} IN
  IF same = {} THEN 0 ELSE Min(same)

(* updateChildren.  u holds what is left of both lists, from os to oe and  *)
(* from ns to ne; an old node that was moved is None.                      *)
UpdateChildren(p, u) ==
  LET o == u.old
      n == u.new
      os == o[u.os]
      oe == o[u.oe]
      at(i, j) == Put(u, j, PatchVnode(u.s, o[i], n[j]))
      i == IF n[u.ns].key # <<>> THEN KeyToOldIdx(n[u.ns].key, o, u.os, u.oe)
           ELSE FindIdxInOld(n[u.ns], o, u.os, u.oe) IN
  IF u.os > u.oe
  THEN PutAll(u, CreateKids(u.s, SubSeq(n, u.ns, u.ne), p,
                            IF u.ne = Len(n) THEN 0 ELSE Elm(u.s, n[u.ne + 1])))
  ELSE IF u.ns > u.ne
  THEN [u EXCEPT !.s = RemoveVnodes(u.s, SubSeq(o, u.os, u.oe))]
  ELSE UpdateChildren(p,
    CASE os = None -> [u EXCEPT !.os = @ + 1]
      [] os # None /\ oe = None -> [u EXCEPT !.oe = @ - 1]
      [] os # None /\ oe # None /\ SameVnode(os, n[u.ns]) ->
           [at(u.os, u.ns) EXCEPT !.os = @ + 1, !.ns = @ + 1]
      [] OTHER ->
         IF SameVnode(oe, n[u.ne]) THEN [at(u.oe, u.ne) EXCEPT !.oe = @ - 1, !.ne = @ - 1]
         ELSE IF SameVnode(os, n[u.ne])
         THEN LET t == at(u.os, u.ne) IN
              [t EXCEPT !.s = InsertBefore(@, p, Elm(@, os), NextSibling(@, Elm(@, oe))),
                        !.os = @ + 1, !.ne = @ - 1]
         ELSE IF SameVnode(oe, n[u.ns])
         THEN LET t == at(u.oe, u.ns) IN
              [t EXCEPT !.s = InsertBefore(@, p, Elm(@, oe), Elm(@, os)), !.oe = @ - 1, !.ns = @ + 1]
         ELSE IF i > 0 /\ SameVnode(o[i], n[u.ns])
         THEN LET t == at(i, u.ns) IN
              [t EXCEPT !.s = InsertBefore(@, p, Elm(@, o[i]), Elm(@, os)),
                        !.old[i] = None, !.ns = @ + 1]
         ELSE [Put(u, u.ns, CreateElm(u.s, n[u.ns], p, Elm(u.s, os))) EXCEPT !.ns = @ + 1])
=============================================================================
