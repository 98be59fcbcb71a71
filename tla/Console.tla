------------------------------ MODULE Console ------------------------------
(***************************************************************************)
(* The pages of the console above its router: on the ops screen the header *)
(* (ops/js/header.js) that sends queries and routes their answers to one   *)
(* of two result pages (result.js), on the admin screen the login pages    *)
(* that remember where the user wanted to go (login-ops.js,                *)
(* login-admin.js).  Answers come in any order, also when the user has     *)
(* gone back or on in the meantime.                                        *)
(***************************************************************************)
EXTENDS PageRouter

CONSTANTS
  MaxAsks,     \* bound: requests in a behaviour
  MaxReloads   \* bound: reloads in a behaviour

(* Where the pages of Console lead: notices go to the page for text, and    *)
(* no page of these takes a result but the result pages.                   *)
ASSUME PagesAssumption ==
  /\ "result" \in ResultPage
  /\ ResultPage \cap {"help", "login-ops", "login-admin", "admin", "tools", Blank} = {}
  /\ None \notin [for : ResultPage, n : Nat]

VARIABLES
  screen,      \* "ops" or "admin"
  asks,        \* the requests sent, and how each one stands
  autoCommit,  \* the switch in the header
  serverAuto,  \* auto commit of the session's connection
  adminOk,     \* login-ops: adminLoginOk
  adminBack,   \* login-ops: the page to go to after an administrator's login
  latest,      \* history: the result routed last in this document, or None
  reloads,     \* history: how often the document was loaded again
  upset,       \* history: a request failed, or two ran at once
  typed        \* history: SQL changed auto commit, and the switch not since

opsVars == <<autoCommit, serverAuto, upset, typed>>
adminVars == <<adminOk, adminBack>>
vars == <<routerVars, screen, asks, opsVars, adminVars, latest, reloads>>

Default == IF screen = "ops" THEN "help" ELSE "login-ops"
Result(n, p) == [for |-> p, n |-> n]

Init ==
  /\ screen \in {"ops", "admin"}
  /\ InitRouter(Default)
  /\ asks = <<>>
  /\ autoCommit = TRUE
  /\ serverAuto = TRUE
  /\ adminOk = FALSE
  /\ adminBack = Blank
  /\ latest = None
  /\ reloads = 0
  /\ upset = FALSE
  /\ typed = FALSE

(* A request is with the server, its answer or error on the way, or over;  *)
(* heard: the document that sent it is still there.                        *)
Due(n) == asks[n].standing # "over"
Answered(n) == asks[n].heard /\ asks' = [asks EXCEPT ![n].standing = "over"]

Send(kind, value) ==
  /\ Len(asks) < MaxAsks
  /\ asks' = Append(asks, [kind |-> kind, value |-> value, standing |-> "sent",
                           heard |-> TRUE])
  /\ upset' = (upset \/ \E n \in DOMAIN asks : Due(n))

-----------------------------------------------------------------------------
(* The ops screen.                                                         *)

(* run, commit, rollback, setMaxRows and history of the header: _query.    *)
Query ==
  /\ screen = "ops"
  /\ Send("query", TRUE)
  /\ UNCHANGED <<routerVars, screen, autoCommit, serverAuto, typed, adminVars, latest,
                 reloads>>

\* Mutant: the switch sends what it was before the click.
SetAutoCommitOld ==
  /\ screen = "ops"
  /\ autoCommit' = ~autoCommit
  /\ Send("autocommit", autoCommit)
  /\ UNCHANGED <<routerVars, screen, serverAuto, typed, adminVars, latest, reloads>>

(* A click on the switch: v-model turns it, setAutoCommit sends its value. *)
SetAutoCommit ==
  /\ screen = "ops"
  /\ autoCommit' = ~autoCommit
  /\ Send("autocommit", autoCommit')
  /\ UNCHANGED <<routerVars, screen, serverAuto, typed, adminVars, latest, reloads>>

(* What running a request may leave of auto commit: the switch sends       *)
(* @autocommit_true or _false; the text of the SQL box may hold either, or *)
(* a statement that sets it; the administrator's login does not touch it.  *)
AutoAfter(n) ==
  CASE asks[n].kind = "autocommit" -> {asks[n].value}
    [] asks[n].kind = "query"      -> BOOLEAN
    [] asks[n].kind = "login"      -> {serverAuto}

(* The server runs one of the requests it was sent, in any order, and      *)
(* answers.  What goes wrong at a statement (the connection is closed) is  *)
(* answered too; when the session is gone, before or meanwhile, the        *)
(* request fails.                                                          *)
Serve(n) ==
  /\ asks[n].standing = "sent"
  /\ \/ /\ asks' = [asks EXCEPT ![n].standing = "served"]
        /\ serverAuto' \in AutoAfter(n)
        /\ UNCHANGED upset
     \/ /\ \E standing \in {"served", "failed"} :
             asks' = [asks EXCEPT ![n].standing = standing]
        /\ serverAuto' \in AutoAfter(n) \cup {serverAuto}
        /\ upset' = TRUE
  /\ typed' = (asks[n].kind # "autocommit" /\ (typed \/ serverAuto' # serverAuto))
  /\ UNCHANGED <<routerVars, screen, autoCommit, adminVars, latest, reloads>>

(* The callback of _query: a table goes to the table page, text to the     *)
(* other one.  @autocommit answers text; a query either.                   *)
AnswerQuery(n) ==
  /\ asks[n].kind \in {"query", "autocommit"} /\ asks[n].standing = "served"
  /\ Answered(n)
  /\ \E p \in IF asks[n].kind = "query" THEN ResultPage ELSE {"result"} :
       Route(p, Result(n, p)) /\ latest' = Result(n, p)
  /\ UNCHANGED <<screen, opsVars, adminVars, reloads>>

(* A failed request reaches no callback: nothing is shown.                 *)
AnswerFails(n) ==
  /\ asks[n].standing = "failed"
  /\ Answered(n)
  /\ UNCHANGED <<routerVars, screen, opsVars, adminVars, latest, reloads>>

(* runSelected, cancel and manualAutoComplete show a text of their own.    *)
Notice ==
  /\ screen = "ops"
  /\ Route("result", Result(0, "result"))
  /\ latest' = Result(0, "result")
  /\ UNCHANGED <<screen, asks, opsVars, adminVars, reloads>>

-----------------------------------------------------------------------------
(* The admin screen.                                                       *)

\* Mutant: the page wanted is noted only for the next time.
GoToForgets(p) ==
  /\ page = "login-ops"
  /\ UNCHANGED adminVars
  /\ Route(IF adminOk THEN p ELSE "login-admin", None)
  /\ UNCHANGED <<screen, asks, opsVars, latest, reloads>>

(* route of login-ops: to the page, or to the administrator's login first. *)
GoTo(p) ==
  /\ page = "login-ops"
  /\ adminBack' = IF adminOk THEN adminBack ELSE p
  /\ Route(IF adminOk THEN p ELSE "login-admin", None)
  /\ UNCHANGED <<screen, asks, opsVars, adminOk, latest, reloads>>

(* The administrator's password is sent; a wrong one is not answered here. *)
AdminLogin ==
  /\ page = "login-admin"
  /\ Send("login", TRUE)
  /\ UNCHANGED <<routerVars, screen, autoCommit, serverAuto, typed, adminVars, latest,
                 reloads>>

(* It was right.  Where the page is by now does not matter.                *)
AdminLoginOk(n) ==
  /\ asks[n].kind = "login" /\ asks[n].standing = "served"
  /\ Answered(n)
  /\ adminOk' = TRUE
  /\ Route(adminBack, None)
  /\ UNCHANGED <<screen, opsVars, adminBack, latest, reloads>>

(* "back" of the administrator's login page.                               *)
BackToLogin ==
  /\ page = "login-admin"
  /\ Route("login-ops", None)
  /\ UNCHANGED <<screen, asks, opsVars, adminVars, latest, reloads>>

-----------------------------------------------------------------------------
(* Both screens.                                                           *)

(* The header's and the login page's link to the help page.                *)
Help ==
  /\ screen = "ops" \/ page = "login-ops"
  /\ Route("help", None)
  /\ UNCHANGED <<screen, asks, opsVars, adminVars, latest, reloads>>

Move(i) ==
  /\ PopState(i)
  /\ UNCHANGED <<screen, asks, opsVars, adminVars, latest, reloads>>

(* The document is loaded again: its data starts over, requests that are   *)
(* out still run at the server, but nobody hears of them.                  *)
LoadAgain ==
  /\ reloads < MaxReloads
  /\ reloads' = reloads + 1
  /\ Reload(Default)
  /\ autoCommit' = TRUE
  /\ adminOk' = FALSE
  /\ adminBack' = Blank
  /\ latest' = None
  /\ asks' = [n \in DOMAIN asks |-> [asks[n] EXCEPT !.heard = FALSE]]
  /\ UNCHANGED <<screen, serverAuto, upset, typed>>

Next ==
  \/ Query \/ SetAutoCommit \/ Notice \/ Help
  \/ AdminLogin \/ BackToLogin \/ LoadAgain
  \/ \E p \in {"admin", "tools"} : GoTo(p)
  \/ \E n \in DOMAIN asks :
       Serve(n) \/ AnswerQuery(n) \/ AnswerFails(n) \/ AdminLoginOk(n)
  \/ \E i \in DOMAIN entries : Move(i)

Spec == Init /\ [][Next]_vars

-----------------------------------------------------------------------------
(* A state in the browser's history that leads back to a result page has   *)
(* the parameters of that page, and a result page shows only what was      *)
(* meant for it, text or table: also after the page was left without new   *)
(* parameters, gone back to, or made anew from the history by a reload.    *)
ResultsFit ==
  /\ \A i \in DOMAIN entries :
       entries[i] # None /\ entries[i].page \in ResultPage =>
         entries[i].params # None /\ entries[i].params.for = entries[i].page
  /\ \A p \in ResultPage :
       p \in created => shown[p] # None /\ shown[p].for = p

(* The result that was routed last is what its page shows, whichever page  *)
(* the user was on and wherever back and forward led since.                *)
AnswerSurfaces == latest # None => shown[latest.for] = latest

(* The page shown is the one of the history entry the tab is at; only a    *)
(* reload shows the screen's first page in its place.                      *)
PageIsEntry ==
  entries[pos] # None /\ page # entries[pos].page => page = Default /\ reloads > 0

(* After an administrator's login the console goes to the page the user    *)
(* had asked for; an empty page takes a reload between the two, which      *)
(* forgets the wish but not the way back to the login.                     *)
BlankNeedsReload == page = Blank => reloads > 0

(* The header's switch tells the connection's auto commit once all answers *)
(* are in, unless a request failed, two were out at once, a reload put the *)
(* switch back, or SQL changed auto commit, which the switch does not hear *)
(* of: then its next click makes the two agree again.                      *)
SwitchTells ==
  ~upset /\ ~typed /\ reloads = 0 /\ (\A n \in DOMAIN asks : ~Due(n))
    => autoCommit = serverAuto
=============================================================================
