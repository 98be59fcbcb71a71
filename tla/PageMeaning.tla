---------------------------- MODULE PageMeaning ----------------------------
(***************************************************************************)
(* What a page's template means, whatever Vue does to draw it: a tree of   *)
(* elements and texts in which v-for repeats, v-if selects, {{ }} and ":"  *)
(* give values, v-model ties an input to a variable, v-show hides and      *)
(* v-html fills in markup.  A document is compared with that meaning up to *)
(* comments, blanks between elements and where one text ends and the next  *)
(* begins.                                                                 *)
(*                                                                         *)
(* Here a template is a tree, of [tag, attrs, kids] and [parts]; Tokens    *)
(* writes one as the text of a file, with blanks between everything.       *)
(***************************************************************************)
EXTENDS VueApp

CONSTANT Trees   \* the templates of the apps and the components as trees

E(tag, attrs, kids) == [text |-> FALSE, tag |-> tag, attrs |-> attrs, kids |-> kids]
T(parts) == [text |-> TRUE, parts |-> parts]
A(d, n, e) == [d |-> d, name |-> n, exp |-> e]

Blank == [t |-> "text", parts |-> Space]

RECURSIVE Tokens(_)
Tokens(tree) ==
  IF tree.text THEN <<[t |-> "text", parts |-> tree.parts]>>
  ELSE LET blank == IF tree.tag = "textarea" THEN <<>> ELSE <<Blank>>
           kids == FlattenSeq([i \in DOMAIN tree.kids |-> Tokens(tree.kids[i]) \o blank])
           void == tree.tag \in Unary \cup {"component"} IN
       <<[t |-> "open", tag |-> tree.tag, attrs |-> tree.attrs, slash |-> void]>>
         \o (IF void THEN <<>>
             ELSE blank \o kids \o <<[t |-> "close", tag |-> tree.tag]>>)

-----------------------------------------------------------------------------
(* Pictures: what a document shows.                                        *)

Picture(tag, attrs, on, kids) ==
  [text |-> None, tag |-> tag, attrs |-> attrs, on |-> on, kids |-> kids,
   value |-> "", checked |-> FALSE, chosen |-> FALSE, hidden |-> FALSE, html |-> None]

(* A text is its words, without the blanks.                                *)
TextPictures(s) ==
  LET words == SelectSeq(s, LAMBDA x : x \notin {" ", ""}) IN
  [j \in DOMAIN words |-> [Picture(None, <<>>, <<>>, <<>>) EXCEPT !.text = words[j]]]

Plain(attrs) == [k \in DOMAIN attrs \ {"checked"} |-> attrs[k]]

Gathered(Op(_), s) == FoldLeft(LAMBDA r, x : r \o Op(x), <<>>, s)

RECURSIVE Shown(_, _)
Shown(s, n) ==
  LET node == s.dom[n]
      writable == node.tag = "textarea" \/ (node.tag = "input" /\ "input" \in DOMAIN node.on) IN
  IF node.comment THEN <<>>
  ELSE IF node.text # None THEN TextPictures(node.text)
  ELSE <<[Picture(node.tag, Plain(node.attrs), node.on,
                  IF node.tag = "textarea" THEN <<>>
                  ELSE Gathered(LAMBDA k : Shown(s, k), node.kids))
            EXCEPT !.value = IF writable THEN Live(s, n)
                             ELSE IF node.tag = "option" THEN node.value ELSE "",
                   !.checked = node.checked, !.chosen = node.selected,
                   !.hidden = node.hidden, !.html = node.html]>>

-----------------------------------------------------------------------------
(* The meaning of a tree; said gives every component's variables, page is  *)
(* the page to show, and select the value of the select around.            *)

RECURSIVE Means(_, _, _, _, _)
Means(tree, env, select, said, page) ==
  LET attrs == tree.attrs
      has(d, n) == Has(attrs, d, n)
      exp(d, n) == Attr(attrs, d, n)
      val(d, n) == Value(exp(d, n), env)
      without(n) == SelectSeq(attrs, LAMBDA a : ~(a.d = "v" /\ a.name = n))
      below(e, sel) == Gathered(LAMBDA k : Means(k, e, sel, said, page), tree.kids)
      component(i) == Means(Trees[i], said[i], None, said, page)
      x == exp("v", "model")[1]
      kind == IF ~has("v", "model") THEN "none"
              ELSE IF tree.tag = "select" THEN "select"
              ELSE IF has("", "type") /\ val("", "type") \in {"checkbox", "radio"}
              THEN val("", "type") ELSE "text"
      names == {attrs[j].name : j \in {k \in DOMAIN attrs : attrs[k].d \in {"", ":"}}}
      prop == IF tree.tag = "option" THEN {"value", "selected"} ELSE {"checked"}
      model == CASE kind = "none" -> <<>>
                 [] kind = "select" -> "change" :> <<<<"choose", x>>>>
                 [] kind = "checkbox" -> "change" :> <<<<"flip", x>>>>
                 [] kind = "radio" -> "change" :> <<<<"pick", x, val("", "value")>>>>
                 [] kind = "text" -> "input" :> <<<<"type", x>>>>
      events == DOMAIN model \cup
                {attrs[j].name : j \in {k \in DOMAIN attrs : attrs[k].d = "@"}}
      on == [e \in events |->
               (IF e \in DOMAIN model THEN model[e] ELSE <<>>)
                 \o (IF has("@", e) THEN <<exp("@", e)>> ELSE <<>>)]
      sel == IF kind = "select" THEN env[x] ELSE select IN
  CASE tree.text ->
         TextPictures([j \in DOMAIN tree.parts |-> Value(tree.parts[j], env)])
    [] ~tree.text /\ tree.tag = "keep-alive" -> IF page = "" THEN <<>> ELSE component(page)
    [] ~tree.text /\ tree.tag \in DOMAIN said -> component(tree.tag)
    [] ~tree.text /\ tree.tag \notin DOMAIN said \cup {"keep-alive"} ->
       IF has("v", "for")
       THEN Gathered(LAMBDA item : Means([tree EXCEPT !.attrs = without("for")],
                                         exp("v", "for")[1] :> item @@ env, select, said, page),
                     env[exp("v", "for")[3]])
       ELSE IF has("v", "if") /\ ~val("v", "if") THEN <<>>
       ELSE IF tree.tag = "template" THEN below(env, select)
       ELSE <<[Picture(tree.tag,
                 [n \in names \ prop |-> IF has(":", n) THEN val(":", n) ELSE val("", n)],
                 on,
                 IF tree.tag = "textarea" \/ has("v", "html") THEN <<>> ELSE below(env, sel))
               EXCEPT !.value = IF kind = "text" THEN env[x]
                                ELSE IF tree.tag = "option" THEN val(":", "value") ELSE "",
                      !.checked = \/ kind = "checkbox" /\ env[x]
                                  \/ kind = "radio" /\ env[x] = val("", "value"),
                      !.chosen = tree.tag = "option" /\ val(":", "value") = select,
                      !.hidden = has("v", "show") /\ ~val("v", "show"),
                      !.html = IF has("v", "html") THEN val("v", "html") ELSE None]>>

(* When nothing waits to be drawn the document shows what the templates    *)
(* mean, for the values that were last assigned, whoever assigned them and *)
(* whether the page was shown then, hidden, or not yet there: in texts,    *)
(* lists and branches, in what the inputs show after the user touched      *)
(* them, and in what each element does when it is clicked or changed (the  *)
(* whole way from parse to patchVnode).                                    *)
ShowsMeaning ==
  ~ui.waiting =>
    Shown(ui, 1)[1].kids = Means(Trees[ui.app], [this |-> "root"], None, ui.said, ui.page)
=============================================================================
