---------------------------- MODULE VueTemplate ----------------------------
(***************************************************************************)
(* How a page's template becomes what it draws: the compiler the pages run *)
(* in the browser (vue-2.6.12.js, parse, optimize and generate), and the   *)
(* helpers that run the generated code and give virtual nodes.             *)
(*                                                                         *)
(* A template is a sequence of tokens, what the regular expressions of     *)
(* parseHTML cut it into:                                                  *)
(*   [t |-> "open", tag, attrs, slash], [t |-> "close", tag],              *)
(*   [t |-> "text", parts]                                                 *)
(* and an attribute is [d, name, exp], d one of "" (literal), ":", "@" and *)
(* "v" (a directive).  An expression is a sequence of strings: <<x>> a     *)
(* variable, <<"'", s>> a constant, <<x, "=", s>> a comparison with one,   *)
(* <<x, "==", y>> one of variables, <<x, "#", s>> a variable that is not s. *)
(*                                                                         *)
(* The generated code is a tree instead of JavaScript text.  Left out is   *)
(* what no template of the console uses: v-else, v-pre, v-once, slots other than   *)
(* keep-alive's, refs, dynamic arguments, inline templates, namespaces.    *)
(***************************************************************************)
EXTENDS Naturals, SequencesExt

CONSTANTS
  Component,  \* the names of registered components
  None        \* JavaScript's undefined

Const(s) == <<"'", s>>
Space == <<Const(" ")>>

(* isUnaryTag, canBeLeftOpenTag, isNonPhrasingTag, isReservedTag: the tags *)
(* that this console's pages have.                                         *)
Unary == {"br", "hr", "img", "input"}
LeftOpen == {"option", "p", "td", "th", "tr"}
NonPhrasing == {"div", "form", "h1", "h3", "hr", "option", "td", "th", "tr"}
Reserved == Unary \cup LeftOpen \cup NonPhrasing \cup
            {"a", "code", "pre", "select", "span", "table", "template", "textarea"}
Forbidden == {"style", "script"}

IsComponent(el) == el.is # None \/ el.tag \notin Reserved

-----------------------------------------------------------------------------
(* Attributes: getBindingAttr, getAndRemoveAttr.                           *)

Named(a, d, n) == a.d = d /\ a.name = n
Has(attrs, d, n) == \E i \in DOMAIN attrs : Named(attrs[i], d, n)
Attr(attrs, d, n) ==
  IF Has(attrs, d, n)
  THEN (SelectSeq(attrs, LAMBDA a : Named(a, d, n)))[1].exp ELSE None
Binding(attrs, n) ==
  IF Has(attrs, ":", n) THEN Attr(attrs, ":", n) ELSE Attr(attrs, "", n)
Without(attrs, d, n) == SelectSeq(attrs, LAMBDA a : ~Named(a, d, n))
Unbound(attrs, n) == Without(attrs, IF Has(attrs, ":", n) THEN ":" ELSE "", n)

-----------------------------------------------------------------------------
(* The parser.  Its state: the open elements, the first element closed at  *)
(* the top, and whether a pre element is open.                             *)

(* parseText: whether there is anything between {{ and }}.                 *)
ParseText(parts) == \E i \in DOMAIN parts : Len(parts[i]) # 2
TextNode(parts) ==
  [type |-> IF ParseText(parts) THEN 2 ELSE 3, parts |-> parts, static |-> FALSE]
IsBlank(node) == node.type = 3 /\ node.parts = Space

(* createASTElement; list holds the attributes nobody has taken yet, given *)
(* stays as it is.  What the attributes become is in attrs, props, on and  *)
(* dirs.                                                                   *)
Element(tag, attrs) ==
  [type |-> 1, tag |-> tag, given |-> attrs, list |-> attrs, kids |-> <<>>,
   for |-> None, alias |-> None, if |-> None, key |-> None, is |-> None, class |-> None,
   plain |-> FALSE, bound |-> FALSE, attrs |-> <<>>, props |-> <<>>, on |-> <<>>, dirs |-> <<>>,
   static |-> FALSE, root |-> FALSE, inFor |-> FALSE]

Top(p) == IF p.stack = <<>> THEN None ELSE Last(p.stack)
IsTop(p, tag) == p.stack # <<>> /\ Top(p).tag = tag
PushKid(p, node) ==
  [p EXCEPT !.stack[Len(p.stack)].kids = Append(@, node)]

(* processFor with parseFor, and processIf.                                *)
ParseFor(exp) == [for |-> exp[3], alias |-> exp[1]]
ProcessFor(el) ==
  LET exp == Attr(el.list, "v", "for") IN
  IF exp = None THEN el
  ELSE [el EXCEPT !.for = ParseFor(exp).for, !.alias = ParseFor(exp).alias,
                  !.list = Without(@, "v", "for")]
ProcessIf(el) ==
  [el EXCEPT !.if = Attr(el.list, "v", "if"), !.list = Without(@, "v", "if")]

ProcessKey(el) ==
  [el EXCEPT !.key = Binding(el.list, "key"), !.list = Unbound(@, "key")]
ProcessComponent(el) ==
  [el EXCEPT !.is = Binding(el.list, "is"), !.list = Unbound(@, "is")]

(* transformNode of the class module: literal classes are set apart.       *)
TransformNode(el) ==
  [el EXCEPT !.class = Attr(el.list, "", "class"), !.list = Without(@, "", "class")]

(* mustUseProp: these are set as properties of the DOM element.            *)
MustUseProp(el, n) ==
  \/ n = "value" /\ el.tag \in {"input", "textarea", "option", "select"}
                 /\ Attr(el.given, "", "type") # Const("button")
  \/ n = "selected" /\ el.tag = "option"
  \/ n = "checked" /\ el.tag = "input"

AddProp(el, n, exp) ==
  [el EXCEPT !.props = Append(@, [name |-> n, exp |-> exp]), !.plain = FALSE]
AddAttr(el, n, exp) ==
  [el EXCEPT !.attrs = Append(@, [name |-> n, exp |-> exp]), !.plain = FALSE]
AddDirective(el, n, exp) ==
  [el EXCEPT !.dirs = Append(@, [name |-> n, exp |-> exp]), !.plain = FALSE]

(* addHandler: an important handler of an event comes before the others.   *)
AddHandler(el, event, do, important) ==
  LET others == IF event \in DOMAIN el.on THEN el.on[event] ELSE <<>> IN
  [el EXCEPT !.on = (event :> (IF important THEN <<do>> \o others ELSE Append(others, do))) @@ @,
             !.plain = FALSE]

(* processAttrs: bound attributes or properties, handlers, directives and  *)
(* literals; all but literals make the element dynamic.                    *)
ProcessAttrs(el) ==
  LET process(e, a) ==
        CASE a.d = ":" -> IF e.is = None /\ MustUseProp(e, a.name)
                          THEN AddProp(e, a.name, a.exp) ELSE AddAttr(e, a.name, a.exp)
          [] a.d = "@" -> AddHandler(e, a.name, a.exp, FALSE)
          [] a.d = "v" -> AddDirective(e, a.name, a.exp)
          [] a.d = "" -> AddAttr(e, a.name, a.exp) IN
  [FoldLeft(process, el, el.list) EXCEPT !.bound = \E i \in DOMAIN el.list : el.list[i].d # ""]

(* processElement: plain is an element with no attributes left after key.  *)
ProcessElement(el) ==
  LET keyed == ProcessKey(el)
      plain == keyed.key = None /\ keyed.list = <<>> IN
  ProcessAttrs(TransformNode(ProcessComponent([keyed EXCEPT !.plain = plain])))

(* trimEndingWhitespace.                                                   *)
Trimmed(el, inPre) ==
  IF inPre THEN el
  ELSE [el EXCEPT !.kids =
          SubSeq(@, 1, SelectLastInSeq(@, LAMBDA k : ~IsBlank(k)))]

(* closeElement, for an element taken off the stack.  At the top only the  *)
(* first element counts.                                                   *)
AddElement(p, el) ==
  CASE p.stack # <<>> /\ el.tag \in Forbidden -> p
    [] p.stack # <<>> /\ el.tag \notin Forbidden -> PushKid(p, el)
    [] p.stack = <<>> -> IF p.root = None THEN [p EXCEPT !.root = el] ELSE p
CloseElement(p, opened) ==
  AddElement([p EXCEPT !.inPre = @ /\ opened.tag # "pre"],
             ProcessElement(Trimmed(opened, p.inPre)))

(* options.start.                                                          *)
StartElement(p, tag, attrs, unary) ==
  LET el == ProcessIf(ProcessFor(Element(tag, attrs)))
      q == [p EXCEPT !.inPre = @ \/ tag = "pre"] IN
  IF unary THEN CloseElement(q, el) ELSE [q EXCEPT !.stack = Append(@, el)]

EndElement(p) == CloseElement([p EXCEPT !.stack = Front(@)], Last(p.stack))

(* parseEndTag: everything up to the closest element of that tag is        *)
(* closed; an end tag of nothing is ignored, but for br and p.             *)
ParseEndTag(p, tag) ==
  LET pos == SelectLastInSeq(p.stack, LAMBDA el : el.tag = tag) IN
  CASE pos > 0 -> FoldLeft(LAMBDA q, el : EndElement(q), p,
                           SubSeq(p.stack, pos, Len(p.stack)))
    [] pos = 0 /\ tag = "br" -> StartElement(p, "br", <<>>, TRUE)
    [] pos = 0 /\ tag = "p" -> EndElement(StartElement(p, "p", <<>>, FALSE))
    [] OTHER -> p

(* handleStartTag: p ends before what is not phrasing, an element that may *)
(* be left open before the next one of its tag.                            *)
EndParagraph(p, tag) ==
  IF IsTop(p, "p") /\ tag \in NonPhrasing THEN ParseEndTag(p, "p") ELSE p
EndLeftOpen(p, tag) ==
  IF IsTop(p, tag) /\ tag \in LeftOpen THEN ParseEndTag(p, tag) ELSE p
HandleStartTag(p, token) ==
  StartElement(EndLeftOpen(EndParagraph(p, token.tag), token.tag),
               token.tag, token.attrs, token.tag \in Unary \/ token.slash)

(* options.chars: blanks after an opening tag go, of two one stays.        *)
Chars(p, parts) ==
  LET kids == Top(p).kids IN
  IF \/ p.stack = <<>>
     \/ parts = Space /\ kids = <<>> /\ ~p.inPre
     \/ parts = Space /\ kids # <<>> /\ Last(kids).type = 3 /\ IsBlank(Last(kids))
  THEN p ELSE PushKid(p, TextNode(parts))

ParseToken(p, token) ==
  CASE token.t = "open" -> HandleStartTag(p, token)
    [] token.t = "close" -> ParseEndTag(p, token.tag)
    [] token.t = "text" -> Chars(p, token.parts)

(* parse, with parseHTML's loop; what is open at the end is closed.        *)
EndAll(p) == FoldLeft(LAMBDA q, el : EndElement(q), p, p.stack)
Parse(template) ==
  EndAll(FoldLeft(ParseToken, [stack |-> <<>>, root |-> None, inPre |-> FALSE], template)).root

-----------------------------------------------------------------------------
(* The optimizer.                                                          *)

(* isDirectChildOfTemplateFor, from an element's parent and that one's own. *)
InTemplateFor(parent, above) == parent.tag = "template" /\ (parent.for # None \/ above)

(* isStatic, for an element.                                               *)
IsStatic(el, inTemplateFor) ==
  /\ ~el.bound
  /\ el.if = None /\ el.for = None
  /\ el.key = None /\ el.is = None
  /\ el.tag \in Reserved
  /\ ~inTemplateFor

(* markStatic$1: an element is static when all of it is.                   *)
RECURSIVE MarkStatic(_, _)
MarkStatic(node, inTemplateFor) ==
  IF node.type # 1 THEN [node EXCEPT !.static = node.type = 3]
  ELSE IF node.tag \notin Reserved
  THEN [node EXCEPT !.static = IsStatic(node, inTemplateFor)]
  ELSE LET below == InTemplateFor(node, inTemplateFor)
           kids == [i \in DOMAIN node.kids |-> MarkStatic(node.kids[i], below)] IN
       [node EXCEPT !.kids = kids,
          !.static = /\ IsStatic(node, inTemplateFor)
                     /\ \A i \in DOMAIN kids : kids[i].static]

(* markStaticRoots: the outermost static elements that hold more than one  *)
(* text.                                                                   *)
RECURSIVE MarkStaticRoots(_, _)
MarkStaticRoots(node, inFor) ==
  IF node.type # 1 THEN node
  ELSE LET marked == [node EXCEPT !.inFor = node.static /\ inFor] IN
       IF node.static /\ node.kids # <<>> /\ ~(Len(node.kids) = 1 /\ node.kids[1].type = 3)
       THEN [marked EXCEPT !.root = TRUE]
       ELSE [marked EXCEPT !.kids = [i \in DOMAIN @ |->
                                       MarkStaticRoots(@[i], inFor \/ node.for # None)]]

Optimize(ast) == MarkStaticRoots(MarkStatic(ast, FALSE), FALSE)

-----------------------------------------------------------------------------
(* The code generator.                                                     *)

(* model: v-model adds a property and a handler by the kind of input.      *)
GenSelect(el, x) == AddHandler(el, "change", <<"choose", x>>, TRUE)
GenCheckboxModel(el, x) ==
  AddHandler(AddProp(el, "checked", <<x>>), "change", <<"flip", x>>, TRUE)
GenRadioModel(el, x) ==
  LET v == Binding(el.given, "value")[2] IN
  AddHandler(AddProp(el, "checked", <<x, "=", v>>), "change", <<"pick", x, v>>, TRUE)
GenDefaultModel(el, x) ==
  AddHandler(AddProp(el, "value", <<x>>), "input", <<"type", x>>, TRUE)
Model(el, x) ==
  LET type == Attr(el.given, "", "type") IN
  CASE el.tag = "select" -> GenSelect(el, x)
    [] el.tag = "input" /\ type = Const("checkbox") -> GenCheckboxModel(el, x)
    [] el.tag = "input" /\ type = Const("radio") -> GenRadioModel(el, x)
    [] OTHER -> GenDefaultModel(el, x)

(* html, of v-html.                                                        *)
GenHtml(el, exp) == AddProp(el, "innerHTML", exp)

(* genDirectives: v-html and v-model change the element first; v-html is   *)
(* done with that.                                                         *)
GenDirectives(el) ==
  LET gen(e, dir) ==
        CASE dir.name = "model" -> Model(e, dir.exp[1])
          [] dir.name = "html" -> GenHtml(e, dir.exp)
          [] OTHER -> e IN
  [FoldLeft(gen, el, el.dirs) EXCEPT !.dirs = SelectSeq(@, LAMBDA dir : dir.name # "html")]

(* genData$2.                                                              *)
Data(el) ==
  LET e == GenDirectives(el) IN
  [key |-> e.key, plain |-> e.plain, class |-> e.class, attrs |-> e.attrs,
   props |-> e.props, on |-> e.on, dirs |-> e.dirs]

(* getNormalizationType: 2 where an array may be nested to any depth.      *)
Nests(el) == el.for # None \/ el.tag \in {"template", "slot"}
NormalizationType(kids) ==
  LET els == {kids[i] : i \in {j \in DOMAIN kids : kids[j].type = 1}} IN
  IF \E el \in els : Nests(el) THEN 2
  ELSE IF \E el \in els : IsComponent(el) THEN 1 ELSE 0

RECURSIVE GenElement(_, _), GenIf(_, _), GenTag(_, _), GenChildren(_, _)

GenText(node) == [op |-> "text", parts |-> node.parts]
GenNode(node, at) == IF node.type = 1 THEN GenElement(node, at) ELSE GenText(node)

(* genChildren: a single v-for child is the array itself.                  *)
GenChildren(el, at) ==
  LET kids == el.kids IN
  IF Len(kids) = 1 /\ kids[1].type = 1 /\ kids[1].for # None
       /\ kids[1].tag \notin {"template", "slot"}
  THEN [list |-> <<GenElement(kids[1], Append(at, 1))>>, spread |-> TRUE,
        norm |-> IF IsComponent(kids[1]) THEN 1 ELSE 0]
  ELSE [list |-> [i \in DOMAIN kids |-> GenNode(kids[i], Append(at, i))], spread |-> FALSE,
        norm |-> NormalizationType(kids)]

GenComponent(el, kids) ==
  [op |-> "create", tag |-> el.tag, is |-> el.is, data |-> Data(el), kids |-> kids]

(* The last steps of genElement: template, component or element.           *)
GenTag(el, at) ==
  IF el.tag = "template" THEN [op |-> "array", kids |-> GenChildren(el, at)]
  ELSE GenComponent(el, GenChildren(el, at))

(* genIf, genIfConditions.                                                 *)
GenIf(el, at) ==
  IF el.if = None THEN GenTag(el, at)
  ELSE [op |-> "if", exp |-> el.if, code |-> GenTag(el, at)]

GenFor(el, code) == [op |-> "list", list |-> el.for, alias |-> el.alias, code |-> code]

(* A static root is hoisted out: a tree known by its place in the template.*)
GenStatic(el, at) == [op |-> "static", at |-> at, inFor |-> el.inFor, code |-> GenTag(el, at)]

(* genElement: static roots first, v-for encloses v-if.                    *)
GenElement(el, at) ==
  CASE el.root -> GenStatic(el, at)
    [] ~el.root /\ el.for # None -> GenFor(el, GenIf(el, at))
    [] OTHER -> GenIf(el, at)

Compile(template) == GenElement(Optimize(Parse(template)), <<>>)

-----------------------------------------------------------------------------
(* Running the code.  An item of an array of children is a virtual node or *)
(* an array again.                                                         *)

(* VNode: hasData tells a node with an empty data object from one without; *)
(* vm is the component that drew it, kids of a component are its slot.     *)
VNode(tag, key, data, kids, vm) ==
  [tag |-> tag, key |-> key, text |-> None, comment |-> FALSE, comp |-> FALSE,
   hasData |-> ~data.plain, class |-> data.class, attrs |-> data.attrs, props |-> data.props,
   on |-> data.on, dirs |-> data.dirs, kids |-> kids, static |-> None,
   kept |-> FALSE, vm |-> vm, elm |-> 0]
NoData == [plain |-> TRUE, class |-> None, attrs |-> <<>>, props |-> <<>>, on |-> <<>>, dirs |-> <<>>]
TextVNode(s) == [VNode(None, <<>>, NoData, <<>>, None) EXCEPT !.text = s]
EmptyVNode == [TextVNode(<<>>) EXCEPT !.comment = TRUE]
IsText(v) == v.text # None /\ ~v.comment

One(v) == [array |-> FALSE, list |-> FALSE, v |-> v]
Many(s, list) == [array |-> TRUE, list |-> list, s |-> s]

Value(e, env) ==
  CASE Len(e) = 1 -> env[e[1]]
    [] Len(e) = 2 -> e[2]
    [] Len(e) = 3 /\ e[2] = "=" -> env[e[1]] = e[3]
    [] Len(e) = 3 /\ e[2] = "==" -> env[e[1]] = env[e[3]]
    [] Len(e) = 3 /\ e[2] = "#" -> env[e[1]] # e[3]

(* What an array of children is no node: createElm makes text of it.       *)
Raw(items) ==
  FlattenSeq([i \in DOMAIN items |->
                <<IF items[i].array THEN TextVNode(<<"undefined">>) ELSE items[i].v>>])
SimpleNormalize(items) ==
  FlattenSeq([i \in DOMAIN items |-> IF items[i].array THEN items[i].s ELSE <<items[i]>>])

(* normalizeArrayChildren: arrays in arrays are laid out, texts beside     *)
(* each other joined, the elements of a v-for given a key by their place.  *)
RECURSIVE NormalizeArray(_, _)
NormalizeArray(items, place) ==
  LET join(res, vs) ==
        IF res # <<>> /\ vs # <<>> /\ IsText(Last(res)) /\ IsText(Head(vs))
        THEN Append(Front(res), TextVNode(Last(res).text \o Head(vs).text)) \o Tail(vs)
        ELSE res \o vs
      keyed(v, i) == IF items.list /\ v.tag # None /\ v.key = <<>> /\ place # <<>>
                     THEN [v EXCEPT !.key = <<"vlist">> \o place \o <<i>>] ELSE v
      step(res, i) ==
        LET c == items.s[i] IN
        join(res, IF c.array THEN NormalizeArray(c, Append(place, i))
                  ELSE <<keyed(c.v, i)>>) IN
  FoldLeftDomain(step, <<>>, items.s)

Normalized(items, norm) ==
  CASE norm = 2 -> NormalizeArray(Many(items, FALSE), <<>>)
    [] norm = 1 -> Raw(SimpleNormalize(items))
    [] norm = 0 -> Raw(items)

Evaluated(pairs, env) ==
  [n \in {pairs[i].name : i \in DOMAIN pairs} |->
     Value(SelectSeq(pairs, LAMBDA p : p.name = n)[1].exp, env)]

(* createComponent: the listeners go to the instance, what is abstract     *)
(* keeps its slot only; there is data always, the hooks are in it.         *)
Abstract == {"keep-alive"}
CreateComponentVNode(tag, key, data, kids, vm) ==
  LET own == [data EXCEPT !.on = <<>>]
      v == IF tag \in Abstract THEN VNode(tag, <<>>, NoData, kids, vm)
           ELSE VNode(tag, key, own, kids, vm) IN
  [v EXCEPT !.comp = TRUE, !.hasData = TRUE]

(* resolveAsset: components are registered by the name they are used by.   *)
ResolveAsset(tag) == IF tag \in Component THEN tag ELSE None

(* _createElement: nothing for an empty "is"; a tag that is no element of  *)
(* HTML may be a component.                                                *)
CreateElement(c, items, env) ==
  LET tag == IF c.is = None THEN c.tag ELSE Value(c.is, env)
      key == IF c.data.key = None THEN <<>> ELSE <<Value(c.data.key, env)>>
      data == [c.data EXCEPT !.attrs = Evaluated(@, env), !.props = Evaluated(@, env),
                             !.dirs = Evaluated(@, env)]
      kids == Normalized(items, c.kids.norm) IN
  CASE tag = "" -> EmptyVNode
    [] tag \notin Reserved /\ ResolveAsset(tag) # None ->
         CreateComponentVNode(tag, key, data, kids, env["this"])
    [] OTHER -> VNode(tag, key, data, kids, env["this"])

(* renderStatic, markStatic: the tree gets a key of its own; unless it is  *)
(* in a v-for it is the same one every time.                               *)
MarkStaticNode(v, key, inFor) ==
  [v EXCEPT !.key = key, !.static = IF inFor THEN "again" ELSE "cached"]

RECURSIVE Render(_, _)

RenderKids(kids, env) ==
  IF kids.spread THEN Render(kids.list[1], env)
  ELSE Many([i \in DOMAIN kids.list |-> Render(kids.list[i], env)], FALSE)

(* renderList.                                                             *)
RenderList(c, env) ==
  LET items == env[c.list] IN
  Many([i \in DOMAIN items |-> Render(c.code, c.alias :> items[i] @@ env)], TRUE)

RenderStatic(c, env) ==
  One(MarkStaticNode(Render(c.code, env).v, <<"static">> \o c.at, c.inFor))

(* What the generated code calls: _v, _c, _e, _m, _l.                      *)
Render(c, env) ==
  CASE c.op = "text" ->
         One(TextVNode([i \in DOMAIN c.parts |-> Value(c.parts[i], env)]))
    [] c.op = "create" -> One(CreateElement(c, RenderKids(c.kids, env).s, env))
    [] c.op = "array" -> RenderKids(c.kids, env)
    [] c.op = "if" -> IF Value(c.exp, env) THEN Render(c.code, env) ELSE One(EmptyVNode)
    [] c.op = "static" -> RenderStatic(c, env)
    [] c.op = "list" -> RenderList(c, env)
=============================================================================
