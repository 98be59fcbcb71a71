--------------------------- MODULE ConsoleProofs ---------------------------
(***************************************************************************)
(* Proofs about Console, for any result pages, any number of requests,     *)
(* history entries and reloads: page, history and results stay together,   *)
(* the administrator's detour ends where it was meant to, and the switch   *)
(* tells the truth when it can.                                            *)
(***************************************************************************)
EXTENDS Console, SequenceTheorems, TLAPS

Res == [for : ResultPage, n : Nat]
Param == Res \cup {None}
Page == ResultPage \cup {"help", "login-ops", "login-admin", "admin", "tools", Blank}
Entry == [page : Page, params : Param] \cup {None}
Ask == [kind : {"query", "autocommit", "login"}, value : BOOLEAN,
        standing : {"sent", "served", "failed", "over"}, heard : BOOLEAN]

RouterTypes ==
  /\ entries \in Seq(Entry)
  /\ pos \in 1 .. Len(entries)
  /\ page \in Page
  /\ params \in Param
  /\ created \subseteq Page
  /\ shown \in [ResultPage -> Param]

Types ==
  /\ RouterTypes
  /\ screen \in {"ops", "admin"}
  /\ asks \in Seq(Ask)
  /\ autoCommit \in BOOLEAN /\ serverAuto \in BOOLEAN
  /\ adminOk \in BOOLEAN
  /\ adminBack \in {"admin", "tools", Blank}
  /\ latest \in Param
  /\ reloads \in Nat
  /\ upset \in BOOLEAN /\ typed \in BOOLEAN

(* What fits a page: of a result page, parameters meant for it.            *)
Fits(p, x) == p \in ResultPage => x # None /\ x.for = p

(* ResultsFit with the present page and its parameters, which become an    *)
(* entry when the page is left, and with the page's component, which is    *)
(* there before an entry leads back to it.                                 *)
ResultsInv ==
  /\ page \in created \cup {Blank}
  /\ Fits(page, params)
  /\ \A i \in DOMAIN entries : entries[i] # None => Fits(entries[i].page, entries[i].params)
  /\ \A p \in created : p \in ResultPage => Fits(p, shown[p])

(* A result that was routed has a component for its page, so that popstate *)
(* does not make one from an older entry.                                  *)
LatestInv ==
  latest # None => /\ latest.for \in created
                   /\ shown[latest.for] = latest

(* Until a reload the wish is noted before anything leads to the login.    *)
LeadsTo(p) == page = p \/ \E i \in DOMAIN entries : entries[i] # None /\ entries[i].page = p
WishInv ==
  reloads = 0 =>
    /\ ~LeadsTo(Blank)
    /\ adminBack = Blank => /\ ~LeadsTo("login-admin")
                            /\ \A n \in DOMAIN asks : asks[n].kind # "login"

(* Without a failure, two requests at once or a reload: only SQL, or the   *)
(* switch's own request while it is out, makes switch and connection       *)
(* differ.                                                                 *)
SwitchInv ==
  ~upset /\ reloads = 0 =>
    /\ \A m, n \in DOMAIN asks : Due(m) /\ Due(n) => m = n
    /\ \A n \in DOMAIN asks :
         asks[n].kind = "autocommit" /\ asks[n].standing = "sent" => asks[n].value = autoCommit
    /\ \/ autoCommit = serverAuto
       \/ typed
       \/ \E n \in DOMAIN asks : asks[n].kind = "autocommit" /\ asks[n].standing = "sent"

Inv == Types /\ ResultsInv /\ LatestInv /\ PageIsEntry /\ WishInv /\ SwitchInv
-----------------------------------------------------------------------------
(* The router's steps.                                                     *)

(* pushState twice: what is in the history is what was, or one of the two. *)
LEMMA PushedEntries ==
  ASSUME RouterTypes, NEW old \in Entry, NEW new \in Entry
  PROVE  LET pushed == Pushed(old, new) IN
         /\ pushed \in Seq(Entry)
         /\ pos + 2 \in 1 .. Len(pushed)
         /\ pushed[pos + 2] = new
         /\ \A i \in DOMAIN pushed :
              \/ i \in DOMAIN entries /\ pushed[i] = entries[i]
              \/ pushed[i] = old
              \/ pushed[i] = new
<1> DEFINE kept == SubSeq(entries, 1, pos)
           two == <<old, new>>
<1> HIDE DEF Entry
<1>1. entries \in Seq(Entry) /\ pos \in 1 .. Len(entries) /\ Len(entries) \in Nat
  BY DEF RouterTypes
<1>2. /\ kept \in Seq(Entry)
      /\ Len(kept) = pos
      /\ \A i \in 1 .. pos : kept[i] = entries[i]
  BY <1>1, SubSeqProperties, ElementOfSeq
<1>3. two \in Seq(Entry) /\ Len(two) = 2 /\ two[1] = old /\ two[2] = new
  OBVIOUS
<1> HIDE DEF kept, two
<1>4. /\ kept \o two \in Seq(Entry)
      /\ Len(kept \o two) = pos + 2
      /\ \A i \in 1 .. pos + 2 :
           (kept \o two)[i] = IF i <= pos THEN kept[i] ELSE two[i - pos]
  <2>1. /\ kept \o two \in Seq(Entry)
        /\ Len(kept \o two) = Len(kept) + Len(two)
        /\ \A i \in 1 .. Len(kept) + Len(two) :
             (kept \o two)[i] = IF i <= Len(kept) THEN kept[i] ELSE two[i - Len(kept)]
    BY <1>2, <1>3, ConcatProperties, Zenon
  <2> QED
    BY <2>1, <1>2, <1>3
<1>5. DOMAIN (kept \o two) = 1 .. pos + 2 /\ DOMAIN entries = 1 .. Len(entries)
  BY <1>1, <1>4, LenProperties
<1>6. Pushed(old, new) = kept \o two
  BY DEF Pushed, kept, two
<1>7. \A i \in 1 .. pos + 2 : \/ i \in 1 .. pos /\ (kept \o two)[i] = entries[i]
                            \/ (kept \o two)[i] = old
                            \/ (kept \o two)[i] = new
  <2> TAKE i \in 1 .. pos + 2
  <2>1. CASE i \in 1 .. pos
    BY <2>1, <1>1, <1>2, <1>4
  <2>2. CASE i = pos + 1
    BY <2>2, <1>1, <1>3, <1>4
  <2>3. CASE i = pos + 2
    BY <2>3, <1>1, <1>3, <1>4
  <2>4. i \in 1 .. pos \/ i = pos + 1 \/ i = pos + 2
    BY <1>1
  <2> QED
    BY <2>1, <2>2, <2>3, <2>4
<1>8. (kept \o two)[pos + 2] = new
  BY <1>1, <1>3, <1>4
<1> QED
  BY <1>1, <1>4, <1>5, <1>6, <1>7, <1>8

(* A state of the router is an entry.                                      *)
LEMMA StateIsEntry ==
  ASSUME NEW p \in Page, NEW x \in Param
  PROVE  State(p, x) \in Entry /\ State(p, x).page = p /\ State(p, x).params = x
BY DEF State, Entry

(* What route leaves behind, to whatever page and with whatever parameters.*)
LEMMA RouteStep ==
  ASSUME RouterTypes, page \in created \cup {Blank},
         NEW p \in Page, NEW x \in Param, Route(p, x)
  PROVE  /\ RouterTypes'
         /\ page' = p
         /\ params' = IF x = None THEN params ELSE x
         /\ created \subseteq created' /\ created' \subseteq created \cup {p}
         /\ p \in created' \cup {Blank}
         /\ shown' = IF p \in ResultPage THEN [shown EXCEPT ![p] = params'] ELSE shown
         /\ \A i \in DOMAIN entries' : \/ i \in DOMAIN entries /\ entries'[i] = entries[i]
                                      \/ entries'[i] = State(page, params)
                                      \/ entries'[i] = State(p, params')
         /\ \/ entries'[pos'] = State(p, params')
            \/ entries' = entries /\ pos' = pos /\ page' = page
<1> USE DEF RouterTypes
<1>1. params' = (IF x = None THEN params ELSE x) /\ params' \in Param
  BY DEF Route
<1>2. /\ shown' = IF p \in ResultPage THEN [shown EXCEPT ![p] = params'] ELSE shown
      /\ shown' \in [ResultPage -> Param]
  <2>1. shown' = IF p \in ResultPage THEN [shown EXCEPT ![p] = params'] ELSE shown
    BY DEF Route, RunMounted
  <2> QED
    BY <2>1, <1>1
<1>3. CASE p = page
  <2>1. UNCHANGED <<entries, pos, page, created>>
    BY <1>3, <1>1 DEF Route
  <2> QED
    BY <2>1, <1>1, <1>2, <1>3
<1>4. CASE p # page
  <2> DEFINE old == State(page, params)
             new == State(p, params')
  <2>1. /\ entries' = Pushed(old, new) /\ pos' = pos + 2
        /\ page' = p /\ created' = WithComponent(p)
    BY <1>4, <1>1 DEF Route
  <2>2. old \in Entry /\ new \in Entry
    BY <1>1, StateIsEntry
  <2> HIDE DEF old, new, Entry, RouterTypes
  <2>3. /\ Pushed(old, new) \in Seq(Entry)
        /\ pos + 2 \in 1 .. Len(Pushed(old, new))
        /\ Pushed(old, new)[pos + 2] = new
        /\ \A i \in DOMAIN Pushed(old, new) :
             \/ i \in DOMAIN entries /\ Pushed(old, new)[i] = entries[i]
             \/ Pushed(old, new)[i] = old
             \/ Pushed(old, new)[i] = new
    BY <2>2, PushedEntries
  <2>4. /\ created \subseteq created' /\ created' \subseteq created \cup {p}
        /\ p \in created' \cup {Blank}
    BY <2>1 DEF WithComponent
  <2>5. RouterTypes'
    BY <1>1, <1>2, <2>1, <2>3, <2>4 DEF RouterTypes
  <2> QED
    BY <1>1, <1>2, <2>1, <2>3, <2>4, <2>5 DEF old, new
<1> QED
  BY <1>3, <1>4
(* What back and forward leave behind.                                     *)
LEMMA PopStep ==
  ASSUME RouterTypes, NEW i, PopState(i)
  PROVE  /\ RouterTypes'
         /\ i \in DOMAIN entries
         /\ entries' = entries /\ pos' = i
         /\ \/ /\ entries[i] = None
               /\ UNCHANGED <<page, params, created, shown>>
            \/ /\ entries[i] # None
               /\ page' = entries[i].page
               /\ params' = entries[i].params
               /\ created' = created \cup ({page'} \ {Blank})
               /\ shown' = IF page' \notin created /\ page' \in ResultPage
                           THEN [shown EXCEPT ![page'] = params'] ELSE shown
<1>1. /\ i \in DOMAIN entries /\ i \in 1 .. Len(entries)
      /\ entries' = entries /\ pos' = i
  BY LenProperties DEF PopState, RouterTypes
<1>2. entries[i] \in Entry
  BY <1>1, ElementOfSeq DEF RouterTypes
<1>3. CASE entries[i] = None
  <2>1. UNCHANGED <<page, params, created, shown>>
    BY <1>3 DEF PopState
  <2> QED
    BY <2>1, <1>1, <1>3 DEF RouterTypes
<1>4. CASE entries[i] # None
  <2>1. /\ page' = entries[i].page /\ params' = entries[i].params
        /\ created' = created \cup ({page'} \ {Blank})
        /\ IF page' \in created THEN UNCHANGED shown ELSE RunMounted(page', params')
    BY <1>4 DEF PopState, WithComponent
  <2>2. page' \in Page /\ params' \in Param
    BY <2>1, <1>2, <1>4 DEF Entry
  <2>3. shown' = IF page' \notin created /\ page' \in ResultPage
                 THEN [shown EXCEPT ![page'] = params'] ELSE shown
    BY <2>1 DEF RunMounted
  <2>4. RouterTypes'
    BY <1>1, <2>1, <2>2, <2>3 DEF RouterTypes
  <2> QED
    BY <1>1, <1>4, <2>1, <2>3, <2>4
<1> QED
  BY <1>3, <1>4

(* A change of page keeps pages, results and history together, if a result *)
(* page is given what is meant for it and another page nothing.            *)
LEMMA RouteKeeps ==
  ASSUME RouterTypes, ResultsInv, LatestInv, PageIsEntry, latest \in Param,
         NEW p \in Page, NEW x \in Param, Route(p, x), Fits(p, x),
         latest' = IF p \in ResultPage THEN x ELSE latest,
         UNCHANGED <<screen, reloads>>
  PROVE  /\ RouterTypes'
         /\ ResultsInv' /\ LatestInv' /\ PageIsEntry'
         /\ \A q : LeadsTo(q)' => LeadsTo(q) \/ q = p
<1>1. /\ RouterTypes'
      /\ page' = p
      /\ params' = IF x = None THEN params ELSE x
      /\ created \subseteq created' /\ created' \subseteq created \cup {p}
      /\ p \in created' \cup {Blank}
      /\ shown' = IF p \in ResultPage THEN [shown EXCEPT ![p] = params'] ELSE shown
      /\ \A i \in DOMAIN entries' : \/ i \in DOMAIN entries /\ entries'[i] = entries[i]
                                   \/ entries'[i] = State(page, params)
                                   \/ entries'[i] = State(p, params')
      /\ \/ entries'[pos'] = State(p, params')
         \/ entries' = entries /\ pos' = pos /\ page' = page
  BY RouteStep DEF ResultsInv
<1>2. \A q, y : State(q, y).page = q /\ State(q, y).params = y
  BY DEF State
<1>3. Fits(p, params')
  BY <1>1 DEF Fits
<1>4. shown \in [ResultPage -> Param] /\ page \in Page
  BY DEF RouterTypes
<1>5. ResultsInv'
  <2>1. \A i \in DOMAIN entries' :
          entries'[i] # None => Fits(entries'[i].page, entries'[i].params)
    BY <1>1, <1>2, <1>3 DEF ResultsInv
  <2>2. \A q \in created' : q \in ResultPage => Fits(q, shown'[q])
    <3> TAKE q \in created'
    <3>1. CASE q = p
      BY <3>1, <1>1, <1>3, <1>4
    <3>2. CASE q # p
      BY <3>2, <1>1, <1>4 DEF ResultsInv
    <3> QED
      BY <3>1, <3>2
  <2> QED
    BY <2>1, <2>2, <1>1, <1>3 DEF ResultsInv, Fits
<1>6. LatestInv'
  <2>1. CASE p \in ResultPage
    <3>1. x # None /\ x.for = p /\ latest' = x /\ params' = x
      BY <2>1, <1>1 DEF Fits
    <3>2. p \in created'
      BY <2>1, <1>1, PagesAssumption
    <3> QED
      BY <2>1, <3>1, <3>2, <1>1, <1>4 DEF LatestInv
  <2>2. CASE p \notin ResultPage
    BY <2>2, <1>1 DEF LatestInv
  <2> QED
    BY <2>1, <2>2
<1>7. PageIsEntry'
  BY <1>1, <1>2 DEF PageIsEntry, Default
<1>8. ASSUME NEW q, LeadsTo(q)'
      PROVE  LeadsTo(q) \/ q = p
  BY <1>1, <1>2, <1>8 DEF LeadsTo
<1> QED
  BY <1>1, <1>5, <1>6, <1>7, <1>8
(* Back and forward keep them together too: an entry has what fits its     *)
(* page, and a page made anew from one has shown no result before.         *)
LEMMA MoveKeeps ==
  ASSUME RouterTypes, ResultsInv, LatestInv, PageIsEntry, latest \in Param,
         NEW i, PopState(i),
         UNCHANGED <<screen, latest, reloads>>
  PROVE  /\ RouterTypes'
         /\ ResultsInv' /\ LatestInv' /\ PageIsEntry'
         /\ \A q : LeadsTo(q)' => LeadsTo(q)
<1>1. /\ RouterTypes'
      /\ i \in DOMAIN entries
      /\ entries' = entries /\ pos' = i
      /\ \/ /\ entries[i] = None
            /\ UNCHANGED <<page, params, created, shown>>
         \/ /\ entries[i] # None
            /\ page' = entries[i].page
            /\ params' = entries[i].params
            /\ created' = created \cup ({page'} \ {Blank})
            /\ shown' = IF page' \notin created /\ page' \in ResultPage
                        THEN [shown EXCEPT ![page'] = params'] ELSE shown
  BY PopStep
<1>2. shown \in [ResultPage -> Param]
  BY DEF RouterTypes
<1>3. CASE entries[i] = None
  <2>1. UNCHANGED <<page, params, created, shown>>
    BY <1>1, <1>3
  <2> QED
    BY <2>1, <1>1, <1>3 DEF ResultsInv, LatestInv, PageIsEntry, LeadsTo, Default
<1>4. CASE entries[i] # None
  <2>1. /\ page' = entries[i].page /\ params' = entries[i].params
        /\ created' = created \cup ({page'} \ {Blank})
        /\ shown' = IF page' \notin created /\ page' \in ResultPage
                    THEN [shown EXCEPT ![page'] = params'] ELSE shown
    BY <1>1, <1>4
  <2>2. Fits(page', params')
    BY <1>1, <1>4, <2>1 DEF ResultsInv
  <2>3. \A q \in created' : q \in ResultPage => Fits(q, shown'[q])
    <3> TAKE q \in created'
    <3>1. CASE q \in created
      BY <3>1, <2>1, <1>2 DEF ResultsInv
    <3>2. CASE q \notin created
      BY <3>2, <2>1, <2>2, <1>2
    <3> QED
      BY <3>1, <3>2
  <2>4. ResultsInv'
    BY <1>1, <2>1, <2>2, <2>3 DEF ResultsInv, Fits
  <2>5. LatestInv'
    BY <2>1, <1>2 DEF LatestInv
  <2>6. PageIsEntry'
    BY <1>1, <2>1 DEF PageIsEntry
  <2>7. \A q : LeadsTo(q)' => LeadsTo(q)
    BY <1>1, <2>1, <1>4 DEF LeadsTo
  <2> QED
    BY <1>1, <2>4, <2>5, <2>6, <2>7
<1> QED
  BY <1>3, <1>4

-----------------------------------------------------------------------------
(* The requests.                                                           *)

LEMMA AskFields ==
  ASSUME asks \in Seq(Ask), NEW n \in DOMAIN asks
  PROVE  /\ asks[n] \in Ask
         /\ asks[n].kind \in {"query", "autocommit", "login"}
         /\ asks[n].value \in BOOLEAN
         /\ asks[n].standing \in {"sent", "served", "failed", "over"}
<1>1. asks[n] \in Ask
  BY LenProperties, ElementOfSeq
<1> QED
  BY <1>1 DEF Ask

(* A request is sent: the others stay as they are.                         *)
LEMMA SendStep ==
  ASSUME asks \in Seq(Ask), upset \in BOOLEAN,
         NEW kind \in {"query", "autocommit", "login"}, NEW value \in BOOLEAN,
         Send(kind, value)
  PROVE  /\ asks' \in Seq(Ask) /\ upset' \in BOOLEAN
         /\ \E new : /\ new \notin DOMAIN asks
                     /\ DOMAIN asks' = DOMAIN asks \cup {new}
                     /\ asks'[new].kind = kind /\ asks'[new].value = value
                     /\ asks'[new].standing = "sent"
         /\ \A n \in DOMAIN asks : asks'[n] = asks[n]
         /\ upset' = (upset \/ \E n \in DOMAIN asks : Due(n))
<1> DEFINE ask == [kind |-> kind, value |-> value, standing |-> "sent", heard |-> TRUE]
           new == Len(asks) + 1
<1>1. asks' = Append(asks, ask) /\ upset' = (upset \/ \E n \in DOMAIN asks : Due(n))
  BY DEF Send
<1>2. ask \in Ask /\ ask.kind = kind /\ ask.value = value /\ ask.standing = "sent"
  BY DEF Ask
<1> HIDE DEF ask, Ask
<1>3. /\ asks' \in Seq(Ask)
      /\ Len(asks') = new
      /\ \A n \in 1 .. new : asks'[n] = IF n <= Len(asks) THEN asks[n] ELSE ask
  BY <1>1, <1>2, AppendProperties
<1>4. Len(asks) \in Nat /\ DOMAIN asks = 1 .. Len(asks) /\ DOMAIN asks' = 1 .. new
  BY <1>3, LenProperties
<1>5. /\ new \notin DOMAIN asks
      /\ DOMAIN asks' = DOMAIN asks \cup {new}
      /\ asks'[new] = ask
      /\ \A n \in DOMAIN asks : asks'[n] = asks[n]
  BY <1>3, <1>4
<1>6. upset' \in BOOLEAN
  BY <1>1, Zenon
<1> QED
  BY <1>1, <1>2, <1>3, <1>5, <1>6

(* A request's standing changes.                                           *)
LEMMA StandingStep ==
  ASSUME asks \in Seq(Ask), NEW n \in DOMAIN asks,
         NEW standing \in {"served", "failed", "over"},
         asks' = [asks EXCEPT ![n].standing = standing]
  PROVE  /\ asks' \in Seq(Ask)
         /\ DOMAIN asks' = DOMAIN asks
         /\ asks'[n].standing = standing
         /\ asks'[n].kind = asks[n].kind /\ asks'[n].value = asks[n].value
         /\ \A m \in DOMAIN asks \ {n} : asks'[m] = asks[m]
<1> DEFINE ask == [asks[n] EXCEPT !.standing = standing]
<1>1. asks[n] \in Ask
  BY AskFields
<1>2. /\ ask \in Ask /\ ask.standing = standing
      /\ ask.kind = asks[n].kind /\ ask.value = asks[n].value
  BY <1>1 DEF Ask
<1>3. asks' = [asks EXCEPT ![n] = ask]
  OBVIOUS
<1> HIDE DEF ask, Ask
<1>4. n \in 1 .. Len(asks) /\ DOMAIN asks = 1 .. Len(asks)
  BY LenProperties
<1>5. /\ asks' \in Seq(Ask) /\ Len(asks') = Len(asks)
      /\ \A m \in 1 .. Len(asks) : asks'[m] = IF m = n THEN ask ELSE asks[m]
  BY <1>2, <1>3, <1>4, ExceptSeq
<1>6. DOMAIN asks' = 1 .. Len(asks)
  BY <1>5, LenProperties
<1> QED
  BY <1>2, <1>4, <1>5, <1>6
(* Nothing of this is touched while the page stays.                        *)
LEMMA StayKeeps ==
  ASSUME RouterTypes, ResultsInv, LatestInv, PageIsEntry,
         UNCHANGED <<routerVars, screen, latest, reloads>>
  PROVE  /\ RouterTypes'
         /\ ResultsInv' /\ LatestInv' /\ PageIsEntry'
         /\ \A q : LeadsTo(q)' => LeadsTo(q)
<1>1. UNCHANGED <<entries, pos, page, params, created, shown>>
  BY DEF routerVars
<1> QED
  BY <1>1 DEF RouterTypes, ResultsInv, LatestInv, PageIsEntry, Default, LeadsTo

(* An answer that arrives changes nothing for the switch: the connection   *)
(* has been set before, or upset tells that it has not.                    *)
LEMMA AnsweredKeeps ==
  ASSUME asks \in Seq(Ask), SwitchInv, NEW n \in DOMAIN asks,
         asks[n].standing \in {"served", "failed"}, Answered(n),
         UNCHANGED <<opsVars, reloads>>
  PROVE  /\ asks' \in Seq(Ask)
         /\ SwitchInv'
         /\ \A m \in DOMAIN asks' : m \in DOMAIN asks /\ asks'[m].kind = asks[m].kind
<1>1. /\ asks' \in Seq(Ask)
      /\ DOMAIN asks' = DOMAIN asks
      /\ asks'[n].standing = "over"
      /\ asks'[n].kind = asks[n].kind /\ asks'[n].value = asks[n].value
      /\ \A m \in DOMAIN asks \ {n} : asks'[m] = asks[m]
  BY StandingStep DEF Answered
<1>2. \A m \in DOMAIN asks : m # n \/ ~Due(m)'
  BY <1>1 DEF Due
<1>3. UNCHANGED <<autoCommit, serverAuto, upset, typed, reloads>>
  BY DEF opsVars
<1>4. SwitchInv'
  BY <1>1, <1>2, <1>3 DEF SwitchInv, Due
<1> QED
  BY <1>1, <1>4

LEMMA InitInv == Init => Inv
<1> SUFFICES ASSUME Init
             PROVE  Inv
  OBVIOUS
<1> USE DEF Init, InitRouter
<1>1. /\ entries = <<None>> /\ pos = 1 /\ page = Default /\ params = None
      /\ created = {page} /\ shown = [p \in ResultPage |-> None]
      /\ page \in {"help", "login-ops"}
  BY DEF Default
<1>2. DOMAIN entries = {1} /\ Len(entries) = 1 /\ entries[1] = None
  BY <1>1
<1>3. Types
  <2>1. entries \in Seq(Entry)
    BY <1>1 DEF Entry
  <2>2. RouterTypes
    BY <2>1, <1>1, <1>2 DEF RouterTypes, Page, Param
  <2>3. asks \in Seq(Ask)
    <3>1. asks = << >>
      OBVIOUS
    <3> QED
      BY <3>1 DEF Ask
  <2>4. latest \in Param
    BY DEF Param
  <2> QED
    BY <2>2, <2>3, <2>4, Zenon DEF Types
<1>4. ResultsInv
  BY <1>1, <1>2, PagesAssumption DEF ResultsInv, Fits
<1>5. ~LeadsTo(Blank) /\ ~LeadsTo("login-admin")
  BY <1>1, <1>2 DEF LeadsTo, Blank
<1>6. LatestInv /\ PageIsEntry /\ WishInv /\ SwitchInv
  BY <1>1, <1>2, <1>5 DEF LatestInv, PageIsEntry, WishInv, SwitchInv
<1> QED
  BY <1>3, <1>4, <1>6 DEF Inv

-----------------------------------------------------------------------------
(* The steps of the ops screen.                                            *)

LEMMA QueryKeeps == ASSUME Inv, Query PROVE Inv'
<1>1. Send("query", TRUE)
      /\ UNCHANGED <<routerVars, screen, autoCommit, serverAuto, typed, adminVars, latest,
                     reloads>>
  BY DEF Query
<1>2. /\ asks' \in Seq(Ask) /\ upset' \in BOOLEAN
      /\ \E new : /\ new \notin DOMAIN asks
                  /\ DOMAIN asks' = DOMAIN asks \cup {new}
                  /\ asks'[new].kind = "query" /\ asks'[new].value = TRUE
                  /\ asks'[new].standing = "sent"
      /\ \A n \in DOMAIN asks : asks'[n] = asks[n]
      /\ upset' = (upset \/ \E n \in DOMAIN asks : Due(n))
  BY <1>1, SendStep DEF Inv, Types
<1>3. /\ RouterTypes' /\ ResultsInv' /\ LatestInv' /\ PageIsEntry'
      /\ \A q : LeadsTo(q)' => LeadsTo(q)
  BY <1>1, StayKeeps DEF Inv, Types
<1>4. Types'
  BY <1>1, <1>2, <1>3 DEF Inv, Types, adminVars
<1>5. WishInv'
  BY <1>1, <1>2, <1>3 DEF Inv, WishInv, adminVars
<1>6. SwitchInv'
  BY <1>1, <1>2 DEF Inv, SwitchInv, Due
<1> QED
  BY <1>3, <1>4, <1>5, <1>6 DEF Inv

LEMMA SetAutoCommitKeeps == ASSUME Inv, SetAutoCommit PROVE Inv'
<1>1. /\ autoCommit' = ~autoCommit /\ Send("autocommit", autoCommit')
      /\ UNCHANGED <<routerVars, screen, serverAuto, typed, adminVars, latest, reloads>>
  BY DEF SetAutoCommit
<1>2. autoCommit' \in BOOLEAN
  BY <1>1
<1>3. /\ asks' \in Seq(Ask) /\ upset' \in BOOLEAN
      /\ \E new : /\ new \notin DOMAIN asks
                  /\ DOMAIN asks' = DOMAIN asks \cup {new}
                  /\ asks'[new].kind = "autocommit" /\ asks'[new].value = autoCommit'
                  /\ asks'[new].standing = "sent"
      /\ \A n \in DOMAIN asks : asks'[n] = asks[n]
      /\ upset' = (upset \/ \E n \in DOMAIN asks : Due(n))
  BY <1>1, <1>2, SendStep DEF Inv, Types
<1>4. /\ RouterTypes' /\ ResultsInv' /\ LatestInv' /\ PageIsEntry'
      /\ \A q : LeadsTo(q)' => LeadsTo(q)
  BY <1>1, StayKeeps DEF Inv, Types
<1>5. Types'
  BY <1>1, <1>2, <1>3, <1>4 DEF Inv, Types, adminVars
<1>6. WishInv'
  BY <1>1, <1>3, <1>4 DEF Inv, WishInv, adminVars
<1>7. SwitchInv'
  <2> SUFFICES ASSUME ~upset', reloads' = 0
               PROVE  /\ \A m, n \in DOMAIN asks' : Due(m)' /\ Due(n)' => m = n
                      /\ \A n \in DOMAIN asks' :
                           asks'[n].kind = "autocommit" /\ asks'[n].standing = "sent"
                             => asks'[n].value = autoCommit'
                      /\ \E n \in DOMAIN asks' :
                           asks'[n].kind = "autocommit" /\ asks'[n].standing = "sent"
    BY DEF SwitchInv
  <2>1. \A n \in DOMAIN asks : asks'[n] = asks[n] /\ asks[n].standing = "over"
    BY <1>3 DEF Due
  <2> QED
    BY <2>1, <1>3 DEF Due
<1> QED
  BY <1>4, <1>5, <1>6, <1>7 DEF Inv
(* The connection's auto commit takes the value the switch sent, or what   *)
(* SQL makes of it.                                                        *)
LEMMA ServeKeeps == ASSUME Inv, NEW n \in DOMAIN asks, Serve(n) PROVE Inv'
<1>1. /\ asks[n].standing = "sent"
      /\ UNCHANGED <<routerVars, screen, autoCommit, adminVars, latest, reloads>>
  BY DEF Serve
<1>2. PICK standing \in {"served", "failed"} :
        /\ asks' = [asks EXCEPT ![n].standing = standing]
        /\ serverAuto' \in AutoAfter(n) \cup {serverAuto}
        /\ \/ standing = "served" /\ serverAuto' \in AutoAfter(n) /\ upset' = upset
           \/ upset' = TRUE
        /\ typed' = (asks[n].kind # "autocommit" /\ (typed \/ serverAuto' # serverAuto))
  BY DEF Serve
<1>3. /\ asks' \in Seq(Ask)
      /\ DOMAIN asks' = DOMAIN asks
      /\ asks'[n].standing = standing
      /\ asks'[n].kind = asks[n].kind /\ asks'[n].value = asks[n].value
      /\ \A m \in DOMAIN asks \ {n} : asks'[m] = asks[m]
  BY <1>2, StandingStep DEF Inv, Types
<1>4. serverAuto' \in BOOLEAN /\ upset' \in BOOLEAN /\ typed' \in BOOLEAN
  <2>1. AutoAfter(n) \subseteq BOOLEAN
    BY AskFields DEF Inv, Types, AutoAfter
  <2>2. typed' \in BOOLEAN
    BY <1>2, Zenon
  <2> QED
    BY <1>2, <2>1, <2>2 DEF Inv, Types
<1>5. /\ RouterTypes' /\ ResultsInv' /\ LatestInv' /\ PageIsEntry'
      /\ \A q : LeadsTo(q)' => LeadsTo(q)
  BY <1>1, StayKeeps DEF Inv, Types
<1>6. Types'
  BY <1>1, <1>3, <1>4, <1>5 DEF Inv, Types, adminVars
<1>7. \A m \in DOMAIN asks : asks'[m].kind = asks[m].kind
  BY <1>3
<1>8. WishInv'
  BY <1>1, <1>3, <1>5, <1>7 DEF Inv, WishInv, adminVars
<1>9. SwitchInv'
  <2> SUFFICES ASSUME ~upset', reloads' = 0
               PROVE  /\ \A i, j \in DOMAIN asks' : Due(i)' /\ Due(j)' => i = j
                      /\ \A i \in DOMAIN asks' :
                           asks'[i].kind = "autocommit" /\ asks'[i].standing = "sent"
                             => asks'[i].value = autoCommit'
                      /\ \/ autoCommit' = serverAuto'
                         \/ typed'
                         \/ \E i \in DOMAIN asks' :
                              asks'[i].kind = "autocommit" /\ asks'[i].standing = "sent"
    BY DEF SwitchInv
  <2>1. standing = "served" /\ ~upset /\ reloads = 0 /\ autoCommit' = autoCommit
    BY <1>1, <1>2
  <2>2. \A m \in DOMAIN asks : m # n => asks[m].standing = "over" /\ asks'[m] = asks[m]
    BY <1>1, <1>3, <2>1 DEF Inv, SwitchInv, Due
  <2>3. autoCommit' = serverAuto' \/ typed'
    <3>1. CASE asks[n].kind = "autocommit"
      <4>1. asks[n].value = autoCommit
        BY <3>1, <1>1, <2>1 DEF Inv, SwitchInv
      <4>2. serverAuto' = asks[n].value
        BY <3>1, <1>2, <2>1 DEF AutoAfter
      <4> QED
        BY <4>1, <4>2, <2>1
    <3>2. CASE asks[n].kind # "autocommit"
      BY <3>2, <1>2, <2>1, <2>2 DEF Inv, SwitchInv
    <3> QED
      BY <3>1, <3>2
  <2> QED
    BY <1>3, <2>1, <2>2, <2>3 DEF Due
<1> QED
  BY <1>5, <1>6, <1>8, <1>9 DEF Inv

LEMMA AnswerQueryKeeps == ASSUME Inv, NEW n \in DOMAIN asks, AnswerQuery(n) PROVE Inv'
<1>1. /\ asks[n].standing = "served" /\ Answered(n)
      /\ UNCHANGED <<screen, opsVars, adminVars, reloads>>
  BY DEF AnswerQuery
<1>2. PICK p \in ResultPage : Route(p, Result(n, p)) /\ latest' = Result(n, p)
  BY PagesAssumption DEF AnswerQuery
<1>3. n \in Nat
  BY LenProperties DEF Inv, Types
<1>4. /\ p \in Page
      /\ Result(n, p) \in Res /\ Result(n, p) \in Param
      /\ Fits(p, Result(n, p))
  BY <1>3, PagesAssumption DEF Result, Res, Param, Page, Fits
<1>5. UNCHANGED <<screen, reloads>>
  BY <1>1
<1>6. /\ RouterTypes' /\ ResultsInv' /\ LatestInv' /\ PageIsEntry'
      /\ \A q : LeadsTo(q)' => LeadsTo(q) \/ q = p
  BY <1>2, <1>4, <1>5, RouteKeeps DEF Inv, Types
<1>7. /\ asks' \in Seq(Ask) /\ SwitchInv'
      /\ \A m \in DOMAIN asks' : m \in DOMAIN asks /\ asks'[m].kind = asks[m].kind
  BY <1>1, AnsweredKeeps DEF Inv, Types
<1>8. Types'
  BY <1>1, <1>2, <1>4, <1>6, <1>7 DEF Inv, Types, opsVars, adminVars
<1>9. WishInv'
  BY <1>1, <1>6, <1>7, PagesAssumption DEF Inv, WishInv, adminVars
<1> QED
  BY <1>6, <1>7, <1>8, <1>9 DEF Inv

LEMMA AnswerFailsKeeps == ASSUME Inv, NEW n \in DOMAIN asks, AnswerFails(n) PROVE Inv'
<1>1. /\ asks[n].standing = "failed" /\ Answered(n)
      /\ UNCHANGED <<routerVars, screen, opsVars, adminVars, latest, reloads>>
  BY DEF AnswerFails
<1>2. /\ RouterTypes' /\ ResultsInv' /\ LatestInv' /\ PageIsEntry'
      /\ \A q : LeadsTo(q)' => LeadsTo(q)
  BY <1>1, StayKeeps DEF Inv, Types
<1>3. /\ asks' \in Seq(Ask) /\ SwitchInv'
      /\ \A m \in DOMAIN asks' : m \in DOMAIN asks /\ asks'[m].kind = asks[m].kind
  BY <1>1, AnsweredKeeps DEF Inv, Types
<1>4. Types'
  BY <1>1, <1>2, <1>3 DEF Inv, Types, opsVars, adminVars
<1>5. WishInv'
  BY <1>1, <1>2, <1>3 DEF Inv, WishInv, adminVars
<1> QED
  BY <1>2, <1>3, <1>4, <1>5 DEF Inv

LEMMA NoticeKeeps == ASSUME Inv, Notice PROVE Inv'
<1>1. /\ Route("result", Result(0, "result")) /\ latest' = Result(0, "result")
      /\ UNCHANGED <<screen, asks, opsVars, adminVars, reloads>>
  BY DEF Notice
<1>2. /\ "result" \in ResultPage /\ "result" \in Page
      /\ Result(0, "result") \in Res /\ Result(0, "result") \in Param
      /\ Fits("result", Result(0, "result"))
  BY PagesAssumption DEF Result, Res, Param, Page, Fits
<1>3. UNCHANGED <<screen, reloads>>
  BY <1>1
<1>4. /\ RouterTypes' /\ ResultsInv' /\ LatestInv' /\ PageIsEntry'
      /\ \A q : LeadsTo(q)' => LeadsTo(q) \/ q = "result"
  BY <1>1, <1>2, <1>3, RouteKeeps DEF Inv, Types
<1>5. Types'
  BY <1>1, <1>2, <1>4 DEF Inv, Types, opsVars, adminVars
<1>6. WishInv'
  BY <1>1, <1>4 DEF Inv, WishInv, adminVars, Blank
<1>7. SwitchInv'
  BY <1>1 DEF Inv, SwitchInv, Due, opsVars
<1> QED
  BY <1>4, <1>5, <1>6, <1>7 DEF Inv
-----------------------------------------------------------------------------
(* The steps of the admin screen, and of both.                             *)

(* A page that takes no result is routed to without one.                   *)
LEMMA PlainKeeps ==
  ASSUME Inv, NEW p \in {"help", "login-ops", "login-admin", "admin", "tools", Blank},
         Route(p, None), UNCHANGED <<screen, latest, reloads>>
  PROVE  /\ RouterTypes' /\ ResultsInv' /\ LatestInv' /\ PageIsEntry'
         /\ \A q : LeadsTo(q)' => LeadsTo(q) \/ q = p
<1>1. p \notin ResultPage
  BY PagesAssumption
<1>2. p \in Page /\ None \in Param /\ Fits(p, None)
  BY <1>1 DEF Page, Param, Fits
<1>3. latest' = IF p \in ResultPage THEN None ELSE latest
  BY <1>1
<1>4. RouterTypes /\ ResultsInv /\ LatestInv /\ PageIsEntry /\ latest \in Param
  BY DEF Inv, Types
<1> QED
  BY <1>2, <1>3, <1>4, RouteKeeps

LEMMA GoToKeeps == ASSUME Inv, NEW p \in {"admin", "tools"}, GoTo(p) PROVE Inv'
<1> DEFINE q == IF adminOk THEN p ELSE "login-admin"
<1>1. /\ adminBack' = IF adminOk THEN adminBack ELSE p
      /\ Route(q, None)
      /\ UNCHANGED <<screen, asks, opsVars, adminOk, latest, reloads>>
  BY DEF GoTo
<1>2. q \in {"help", "login-ops", "login-admin", "admin", "tools", Blank}
  OBVIOUS
<1>3. q # Blank /\ p # Blank /\ (adminOk => q # "login-admin")
  BY DEF Blank
<1> HIDE DEF q
<1>4. /\ RouterTypes' /\ ResultsInv' /\ LatestInv' /\ PageIsEntry'
      /\ \A r : LeadsTo(r)' => LeadsTo(r) \/ r = q
  BY <1>1, <1>2, PlainKeeps
<1>5. Types'
  BY <1>1, <1>4 DEF Inv, Types, opsVars
<1>6. WishInv'
  BY <1>1, <1>3, <1>4 DEF Inv, WishInv
<1>7. SwitchInv'
  BY <1>1 DEF Inv, SwitchInv, Due, opsVars
<1> QED
  BY <1>4, <1>5, <1>6, <1>7 DEF Inv

LEMMA AdminLoginKeeps == ASSUME Inv, AdminLogin PROVE Inv'
<1>1. /\ page = "login-admin" /\ Send("login", TRUE)
      /\ UNCHANGED <<routerVars, screen, autoCommit, serverAuto, typed, adminVars, latest,
                     reloads>>
  BY DEF AdminLogin
<1>2. /\ asks' \in Seq(Ask) /\ upset' \in BOOLEAN
      /\ \E new : /\ new \notin DOMAIN asks
                  /\ DOMAIN asks' = DOMAIN asks \cup {new}
                  /\ asks'[new].kind = "login" /\ asks'[new].value = TRUE
                  /\ asks'[new].standing = "sent"
      /\ \A n \in DOMAIN asks : asks'[n] = asks[n]
      /\ upset' = (upset \/ \E n \in DOMAIN asks : Due(n))
  BY <1>1, SendStep DEF Inv, Types
<1>3. /\ RouterTypes' /\ ResultsInv' /\ LatestInv' /\ PageIsEntry'
      /\ \A q : LeadsTo(q)' => LeadsTo(q)
  BY <1>1, StayKeeps DEF Inv, Types
<1>4. Types'
  BY <1>1, <1>2, <1>3 DEF Inv, Types, adminVars
<1>5. WishInv'
  <2>1. reloads = 0 => adminBack # Blank
    BY <1>1 DEF Inv, WishInv, LeadsTo
  <2> QED
    BY <1>1, <1>3, <2>1 DEF Inv, WishInv, adminVars
<1>6. SwitchInv'
  BY <1>1, <1>2 DEF Inv, SwitchInv, Due
<1> QED
  BY <1>3, <1>4, <1>5, <1>6 DEF Inv

(* Who logs in has come from the login page, where the wish was noted.     *)
LEMMA AdminLoginOkKeeps == ASSUME Inv, NEW n \in DOMAIN asks, AdminLoginOk(n) PROVE Inv'
<1>1. /\ asks[n].kind = "login" /\ asks[n].standing = "served" /\ Answered(n)
      /\ adminOk' = TRUE
      /\ Route(adminBack, None)
      /\ UNCHANGED <<screen, opsVars, adminBack, latest, reloads>>
  BY DEF AdminLoginOk
<1>2. adminBack \in {"help", "login-ops", "login-admin", "admin", "tools", Blank}
  BY DEF Inv, Types
<1>3. /\ RouterTypes' /\ ResultsInv' /\ LatestInv' /\ PageIsEntry'
      /\ \A r : LeadsTo(r)' => LeadsTo(r) \/ r = adminBack
  BY <1>1, <1>2, PlainKeeps
<1>4. /\ asks' \in Seq(Ask) /\ SwitchInv'
      /\ \A m \in DOMAIN asks' : m \in DOMAIN asks /\ asks'[m].kind = asks[m].kind
  BY <1>1, AnsweredKeeps DEF Inv, Types
<1>5. Types'
  BY <1>1, <1>3, <1>4 DEF Inv, Types, opsVars
<1>6. WishInv'
  <2>1. reloads = 0 => adminBack # Blank
    BY <1>1 DEF Inv, WishInv
  <2> QED
    BY <1>1, <1>3, <2>1 DEF Inv, WishInv
<1> QED
  BY <1>3, <1>4, <1>5, <1>6 DEF Inv

LEMMA BackToLoginKeeps == ASSUME Inv, BackToLogin PROVE Inv'
<1>1. /\ Route("login-ops", None)
      /\ UNCHANGED <<screen, asks, opsVars, adminVars, latest, reloads>>
  BY DEF BackToLogin
<1>2. /\ RouterTypes' /\ ResultsInv' /\ LatestInv' /\ PageIsEntry'
      /\ \A r : LeadsTo(r)' => LeadsTo(r) \/ r = "login-ops"
  BY <1>1, PlainKeeps
<1>3. Types'
  BY <1>1, <1>2 DEF Inv, Types, opsVars, adminVars
<1>4. WishInv'
  BY <1>1, <1>2 DEF Inv, WishInv, adminVars, Blank
<1>5. SwitchInv'
  BY <1>1 DEF Inv, SwitchInv, Due, opsVars
<1> QED
  BY <1>2, <1>3, <1>4, <1>5 DEF Inv

LEMMA HelpKeeps == ASSUME Inv, Help PROVE Inv'
<1>1. /\ Route("help", None)
      /\ UNCHANGED <<screen, asks, opsVars, adminVars, latest, reloads>>
  BY DEF Help
<1>2. /\ RouterTypes' /\ ResultsInv' /\ LatestInv' /\ PageIsEntry'
      /\ \A r : LeadsTo(r)' => LeadsTo(r) \/ r = "help"
  BY <1>1, PlainKeeps
<1>3. Types'
  BY <1>1, <1>2 DEF Inv, Types, opsVars, adminVars
<1>4. WishInv'
  BY <1>1, <1>2 DEF Inv, WishInv, adminVars, Blank
<1>5. SwitchInv'
  BY <1>1 DEF Inv, SwitchInv, Due, opsVars
<1> QED
  BY <1>2, <1>3, <1>4, <1>5 DEF Inv

LEMMA HistoryKeeps == ASSUME Inv, NEW i \in DOMAIN entries, Move(i) PROVE Inv'
<1>1. PopState(i) /\ UNCHANGED <<screen, asks, opsVars, adminVars, latest, reloads>>
  BY DEF Move
<1>2. /\ RouterTypes' /\ ResultsInv' /\ LatestInv' /\ PageIsEntry'
      /\ \A q : LeadsTo(q)' => LeadsTo(q)
  BY <1>1, MoveKeeps DEF Inv, Types
<1>3. Types'
  BY <1>1, <1>2 DEF Inv, Types, opsVars, adminVars
<1>4. WishInv'
  BY <1>1, <1>2 DEF Inv, WishInv, adminVars
<1>5. SwitchInv'
  BY <1>1 DEF Inv, SwitchInv, Due, opsVars
<1> QED
  BY <1>2, <1>3, <1>4, <1>5 DEF Inv
(* A reload keeps the history, whose entries fit, and forgets the rest.    *)
LEMMA LoadAgainKeeps == ASSUME Inv, LoadAgain PROVE Inv'
<1>1. /\ reloads' = reloads + 1
      /\ page' = Default /\ params' = None /\ created' = {Default}
      /\ shown' = [p \in ResultPage |-> None]
      /\ UNCHANGED <<entries, pos, screen, serverAuto, upset, typed>>
      /\ autoCommit' = TRUE /\ adminOk' = FALSE /\ adminBack' = Blank /\ latest' = None
      /\ asks' = [n \in DOMAIN asks |-> [asks[n] EXCEPT !.heard = FALSE]]
  BY DEF LoadAgain, Reload
<1>2. Default \in {"help", "login-ops"} /\ Default \notin ResultPage
  BY PagesAssumption DEF Default
<1>3. reloads' \in Nat /\ reloads' > 0
  BY <1>1 DEF Inv, Types
<1>4. asks' \in Seq(Ask)
  <2>1. \A n \in DOMAIN asks : [asks[n] EXCEPT !.heard = FALSE] \in Ask
    <3> TAKE n \in DOMAIN asks
    <3>1. asks[n] \in Ask
      BY AskFields DEF Inv, Types
    <3> QED
      BY <3>1 DEF Ask
  <2>2. asks \in Seq(Ask) /\ DOMAIN asks = 1 .. Len(asks) /\ Len(asks) \in Nat
    BY LenProperties DEF Inv, Types
  <2> QED
    BY <1>1, <2>1, <2>2, IsASeq
<1>5. RouterTypes'
  BY <1>1, <1>2 DEF Inv, Types, RouterTypes, Page, Param
<1>6. Types'
  BY <1>1, <1>3, <1>4, <1>5 DEF Inv, Types, Param
<1>7. ResultsInv'
  BY <1>1, <1>2 DEF Inv, ResultsInv, Fits
<1>8. LatestInv' /\ WishInv' /\ SwitchInv'
  <2>1. LatestInv'
    BY <1>1 DEF LatestInv
  <2>2. reloads' # 0
    BY <1>3
  <2>3. WishInv' /\ SwitchInv'
    BY <2>2 DEF WishInv, SwitchInv
  <2> QED
    BY <2>1, <2>3
<1>9. PageIsEntry'
  BY <1>1, <1>3 DEF PageIsEntry, Default
<1> QED
  BY <1>6, <1>7, <1>8, <1>9 DEF Inv

LEMMA StutterKeeps == ASSUME Inv, UNCHANGED vars PROVE Inv'
<1>1. UNCHANGED <<routerVars, screen, asks, opsVars, adminVars, latest, reloads>>
  BY DEF vars
<1>2. /\ RouterTypes' /\ ResultsInv' /\ LatestInv' /\ PageIsEntry'
      /\ \A q : LeadsTo(q)' => LeadsTo(q)
  BY <1>1, StayKeeps DEF Inv, Types
<1>3. Types'
  BY <1>1, <1>2 DEF Inv, Types, opsVars, adminVars
<1>4. WishInv'
  BY <1>1, <1>2 DEF Inv, WishInv, adminVars
<1>5. SwitchInv'
  BY <1>1 DEF Inv, SwitchInv, Due, opsVars
<1> QED
  BY <1>2, <1>3, <1>4, <1>5 DEF Inv

-----------------------------------------------------------------------------
LEMMA NextInv == Inv /\ [Next]_vars => Inv'
<1> SUFFICES ASSUME Inv, [Next]_vars
             PROVE  Inv'
  OBVIOUS
<1>1. CASE Query
  BY <1>1, QueryKeeps
<1>2. CASE SetAutoCommit
  BY <1>2, SetAutoCommitKeeps
<1>3. CASE Notice
  BY <1>3, NoticeKeeps
<1>4. CASE Help
  BY <1>4, HelpKeeps
<1>5. CASE AdminLogin
  BY <1>5, AdminLoginKeeps
<1>6. CASE BackToLogin
  BY <1>6, BackToLoginKeeps
<1>7. CASE LoadAgain
  BY <1>7, LoadAgainKeeps
<1>8. ASSUME NEW p \in {"admin", "tools"}, GoTo(p)
      PROVE  Inv'
  BY <1>8, GoToKeeps
<1>9. ASSUME NEW n \in DOMAIN asks,
             Serve(n) \/ AnswerQuery(n) \/ AnswerFails(n) \/ AdminLoginOk(n)
      PROVE  Inv'
  BY <1>9, ServeKeeps, AnswerQueryKeeps, AnswerFailsKeeps, AdminLoginOkKeeps
<1>10. ASSUME NEW i \in DOMAIN entries, Move(i)
       PROVE  Inv'
  BY <1>10, HistoryKeeps
<1>11. CASE UNCHANGED vars
  BY <1>11, StutterKeeps
<1> QED
  BY <1>1, <1>2, <1>3, <1>4, <1>5, <1>6, <1>7, <1>8, <1>9, <1>10, <1>11 DEF Next

(* The console's state is always of its types, and what the properties     *)
(* below rest on always holds.                                             *)
THEOREM ConsoleInvariant == Spec => []Inv
<1> QED
  BY InitInv, NextInv, PTL DEF Spec

(* A result page and the history entries that lead to it hold only what    *)
(* was meant for that page, text or table, over route, back, forward and   *)
(* reload.                                                                 *)
THEOREM ResultsStayTogether == Spec => []ResultsFit
<1>1. Inv => ResultsFit
  BY DEF Inv, ResultsInv, ResultsFit, Fits
<1> QED
  BY <1>1, ConsoleInvariant, PTL

(* The result that was routed last is what its page shows, in whatever     *)
(* order answers, back and forward came.                                   *)
THEOREM LastResultSurfaces == Spec => []AnswerSurfaces
<1>1. Inv => AnswerSurfaces
  BY DEF Inv, LatestInv, AnswerSurfaces
<1> QED
  BY <1>1, ConsoleInvariant, PTL

(* The page shown is the one of the history entry the tab is at, but for   *)
(* the first page that a reload shows in its place.                        *)
THEOREM PageFollowsHistory == Spec => []PageIsEntry
<1>1. Inv => PageIsEntry
  BY DEF Inv
<1> QED
  BY <1>1, ConsoleInvariant, PTL

(* The administrator's detour never ends on an empty page without a reload *)
(* in between.                                                             *)
THEOREM DetourEnds == Spec => []BlankNeedsReload
<1>1. Inv => BlankNeedsReload
  BY DEF Inv, Types, WishInv, LeadsTo, BlankNeedsReload
<1> QED
  BY <1>1, ConsoleInvariant, PTL

(* Once all answers are in, the switch tells the connection's auto commit, *)
(* without a failure, two requests at once or a reload, unless SQL changed *)
(* it since the switch was last used.                                      *)
THEOREM SwitchIsTrue == Spec => []SwitchTells
<1>1. Inv => SwitchTells
  BY DEF Inv, SwitchInv, SwitchTells, Due
<1> QED
  BY <1>1, ConsoleInvariant, PTL
=============================================================================
