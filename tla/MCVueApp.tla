------------------------------ MODULE MCVueApp ------------------------------
(* The pages of the console, cut down to one of each kind of thing in them. *)
EXTENDS PageMeaning

Var(x) == <<<<x>>>>
Words(s) == T(<<Const(s)>>)
Div(kids) == E("div", <<>>, kids)
P(kids) == E("p", <<>>, kids)
Link(do, s) == E("a", <<A("@", "click", do)>>, <<Words(s)>>)
Button(do, s) ==
  E("input", <<A("", "type", Const("button")), A(":", "value", Const(s)), A("@", "click", do)>>, <<>>)
TextInputs(type, x) == E("input", <<A("", "type", Const(type)), A("v", "model", <<x>>)>>, <<>>)
If(c, kids) == E("template", <<A("v", "if", c)>>, kids)
For(x, list, kids) == E("template", <<A("v", "for", <<x, "in", list>>)>>, kids)
Pages == E("keep-alive", <<>>, <<E("component", <<A(":", "is", <<"currentComponent">>)>>, <<>>)>>)

(* admin/index.html, login-admin.html, login-ops.html, admin.html, tools.html *)
AdminApp == Div(<<Pages>>)
LoginAdmin == Div(<<TextInputs("password", "password"), Button(<<"ask">>, "ok"),
                    E("p", <<A("", "class", Const("error"))>>, <<T(Var("error"))>>)>>)
LoginOps == Div(<<
  P(<<Link(<<"enter", "admin">>, "admin"), Link(<<"enter", "tools">>, "tools")>>),
  E("select", <<A("v", "model", <<"setting">>), A("@", "change", <<"ask">>)>>,
    <<For("s", "settings",
       <<E("option", <<A(":", "value", <<"s">>), A(":", "selected", <<"s", "==", "setting">>)>>,
           <<T(Var("s"))>>)>>)>>),
  TextInputs("text", "name"),
  P(<<Words("The URL"), E("code", <<>>, <<Words("jdbc")>>)>>)>>)
Radio(v, more) ==
  E("input", <<A("", "type", Const("radio")), A("v", "model", <<"allowOthers">>),
               A("", "value", Const(v))>> \o more, <<>>)
On == <<A("", "checked", Const("checked"))>>
Allows(v) == <<"allowOthers", "=", v>>
Admin == Div(<<
  P(<<If(Allows("false"), <<Radio("false", On)>>), If(Allows("true"), <<Radio("false", <<>>)>>),
      Words("local"), E("br", <<>>, <<>>),
      If(Allows("true"), <<Radio("true", On)>>), If(Allows("false"), <<Radio("true", <<>>)>>),
      Words("others")>>),
  E("table", <<>>, <<E("tr", <<>>, <<E("th", <<>>, <<Words("ip")>>)>>),
    For("item", "sessions", <<E("tr", <<>>, <<E("td", <<>>, <<T(Var("item"))>>)>>)>>)>>)>>)
Option(name, v) ==
  E("div", <<A("v", "show", <<"toolName", "=", name>>)>>,
    <<E("input", <<A("", "id", Const(name)), A("", "value", Const(v)),
                   A("@", "keyup", <<"update">>)>>, <<>>)>>)
Tools == Div(<<
  Link(<<"tool", "Backup">>, "backup"), Link(<<"tool", "Script">>, "script"),
  Option("Backup", "~"), Option("Script", ""),
  E("div", <<A("v", "if", <<"toolName", "#", "">>)>>,
    <<Button(<<"ask">>, "run"), TextInputs("hidden", "args"),
      E("span", <<>>, <<T(Var("toolName"))>>), E("span", <<>>, <<T(Var("args"))>>)>>),
  E("div", <<A("v", "if", <<"toolResult", "#", "">>)>>,
    <<E("p", <<A("v", "html", <<"toolResult">>)>>, <<>>)>>)>>)

(* ops/index.html, header.html, query.html, help.html, result.html,        *)
(* result-table.html.                                                      *)
OpsApp == Div(<<E("div", <<>>, <<E("ops-header", <<>>, <<>>)>>),
                E("div", <<>>, <<E("query", <<>>, <<>>)>>), E("div", <<>>, <<Pages>>)>>)
Header == Div(<<E("input", <<A("", "type", Const("checkbox")), A("v", "model", <<"autoCommit">>),
                             A("@", "change", <<"ask">>)>>, <<>>),
                Link(<<"tell", "cancelled">>, "cancel")>>)
Query == Div(<<Button(<<"ask">>, "run"), Button(<<"tell", "selected">>, "run selected"),
               Button(<<"set", "sql", "">>, "clear"),
               E("textarea", <<A("v", "model", <<"sql">>)>>, <<T(Var("sql"))>>)>>)
Help == Div(<<E("h3", <<>>, <<Words("help")>>),
              E("table", <<>>, <<E("tr", <<>>, <<E("td", <<>>, <<Words("run")>>)>>)>>)>>)
Result == Div(<<E("p", <<A("v", "html", <<"result">>)>>, <<>>)>>)
ResultTable == Div(<<
  T(<<<<"sql">>, Const(";")>>), E("br", <<>>, <<>>),
  E("table", <<>>, <<
    E("tr", <<>>, <<For("column", "columns", <<E("th", <<>>, <<T(Var("column"))>>)>>)>>),
    For("row", "rows",
      <<E("tr", <<>>, <<For("v", "row", <<E("td", <<>>, <<T(Var("v"))>>)>>)>>)>>)>>)>>)

MCTrees ==
  ("adminApp" :> AdminApp) @@ ("login-admin" :> LoginAdmin) @@ ("login-ops" :> LoginOps)
  @@ ("admin" :> Admin) @@ ("tools" :> Tools) @@ ("opsApp" :> OpsApp)
  @@ ("ops-header" :> Header) @@ ("query" :> Query) @@ ("help" :> Help)
  @@ ("result" :> Result) @@ ("result-table" :> ResultTable)
MCTemplates == [i \in DOMAIN MCTrees |-> Tokens(MCTrees[i])]
MCDeclared ==
  ("root" :> <<>>) @@ ("keep-alive" :> <<>>)
  @@ ("login-admin" :> [password |-> "", error |-> ""])
  @@ ("login-ops" :> [setting |-> "", settings |-> <<>>, name |-> "", adminLoginOk |-> FALSE,
                        adminBack |-> ""])
  @@ ("admin" :> [allowOthers |-> "true", sessions |-> <<>>])
  @@ ("tools" :> [toolName |-> "", args |-> "", toolResult |-> ""])
  @@ ("ops-header" :> [autoCommit |-> TRUE]) @@ ("query" :> [sql |-> ""])
  @@ ("help" :> <<>>) @@ ("result" :> [result |-> ""])
  @@ ("result-table" :> [sql |-> "", columns |-> <<>>, rows |-> <<>>])
MCMounted ==
  [i \in DOMAIN MCDeclared |->
     IF i \in {"login-ops", "admin"} THEN "ask"
     ELSE IF i \in {"result", "result-table"} THEN "take" ELSE "none"]
MCComponent == DOMAIN MCDeclared \ {"root"}
MCPagesOf ==
  ("adminApp" :> {"login-admin", "login-ops", "admin", "tools"})
  @@ ("opsApp" :> {"help", "result", "result-table"})
MCFirstPage == ("adminApp" :> "login-ops") @@ ("opsApp" :> "help")
MCAnswers ==
  ("login-ops" :> {[settings |-> <<"a", "b">>, setting |-> "a", name |-> "a"],
                   [settings |-> <<"b", "a">>, setting |-> "b", name |-> "b"],
                   [settings |-> <<"b">>, setting |-> "a", name |-> "a"]})
  @@ ("admin" :> {[allowOthers |-> "false", sessions |-> <<"s">>],
                  [allowOthers |-> "true", sessions |-> <<"s", "t">>]})
  @@ ("tools" :> {[toolResult |-> "done"]})
MCResults ==
  {[page |-> "result", params |-> [result |-> "ok"]],
   [page |-> "result-table", params |-> [sql |-> "q", columns |-> <<"x">>, rows |-> <<<<"1">>>>]],
   [page |-> "result-table",
    params |-> [sql |-> "r", columns |-> <<"x", "y">>, rows |-> <<<<"1", "2">>, <<"3", "4">>>>]]}
=============================================================================
