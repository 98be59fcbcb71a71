# A specification of the Lealone OpsCenter

OpsCenter is a web console for the Lealone database. A browser page calls
services that are stored in the database itself (`services.sql` declares them,
Java classes implement them); a service call carries the id of a console
session, `jsessionid`, and the services keep what belongs to it in memory and
a little of it in a properties file. This directory holds TLA+ modules of that
system, TLC configurations that check them on small instances, and proofs that
TLAPS checks for every instance.

Java paths below are relative to
`opscenter-service/src/main/java/org/lealone/opscenter/service/`, script paths
to `opscenter-web/web/`.

- [1. Inventory](#1-inventory): the system's parts, their state and hazards
- [2. Plan](#2-plan): the modules, in order
- [3. The modules](#3-the-modules): how state and actions correspond to the code
- [4. The runs](#4-the-runs): what each checks, with its bounds
- [5. Fairness](#5-fairness)
- [6. The proofs](#6-the-proofs)
- [7. What the code does otherwise than it says](#7-what-the-code-does-otherwise-than-it-says)
- [8. Limits](#8-limits): assumptions, and what is not modelled

Run `tlc -config MCx.cfg MCx` for a run of section 4, `tlapm M.tla` for a
proof module.

## 1. Inventory

### Session registry: `ServiceConfig`, `OpsService.login` and `logout`

State: the map `sessions`, `lastTimeoutCheck`, each session's `lastAccess`,
its JDBC connection and its server session. Operations: `login` opens a server
session and a connection, then `createNewSession` publishes a session without
a connection and reads it back with `getSession`, then `setConnection`;
`getSession` sweeps expired sessions if the last sweep is a timeout ago, looks
the id up and touches it; `logout` removes and closes. Every other service
starts with `getSession`.
Hard: the sweep loops over a snapshot of the keys while other calls add,
remove and refresh entries; each call judges by the clock as it read it when
it began; the sweep drops sessions without closing anything; a session is in
the map before it is complete.
Correct means: no session served long after its time, no connection lost other
than by the sweep, which drops nothing in use but what was used while it ran,
no closed session handed out, every call ends.

### Query service: `QueryService`, `Service`, `ServiceSession`

State: one field, `Service.session`, in one service object for all sessions;
per session `executingStatement`, the collected `columnNames` and `rows`, the
text `result`, the updatable `ResultSet`, the history. Operations: `query`
runs a script statement by statement, `editResult` changes a row and runs the
statement again, `@` commands answer text.
Hard: the field is assigned at the start and read at every later use; result
sets collect in the session until an answer takes them, also across failures.
Correct means: what a query leaves and answers is its own session's; a
registered statement is one that runs; every call ends.

### Settings store: `ServiceConfig`, `AdminService.save`, `ConnectionInfo`

State: named settings with their tick, options, key, stored history, the
properties file. Operations: `getSettings` (loads lazily), `settingSave`,
`settingRemove`, admin `save`, history save, `setKey`, start and stop.
Hard: memory is filled only when empty; writes are whole-file and truncate the
file first; they fail silently, and so do reads, which then look like an empty
file; keys are numbered backwards; who passes which properties decides what
survives.
Correct means: file and memory agree unless a named failure happened, the order
of use survives restarts, an open console has no key.

### Command history: `ServiceSession.addCommand`, `ServiceConfig.*CommandHistory*`

State: a list per session and one stored string. Operations: read at login,
add with limit and repeats, encode, decode, allow and forbid the store.
Hard: commands contain the separator and the escape character; all sessions
write the one string. Correct means: what is stored is read back; only the
oldest is forgotten.

### Schema tree: `DatabaseService`, `NodeInfo`, `ops/js/tables.js`

State: the session's node list; the page's array of nodes and the tree written
from it. Operations: `readAllDatabaseObjects` numbers nodes with a level and a
type, `setNode`, `writeTree`.
Hard: the lists are read one after the other while the database changes, an
exception cuts the listing short, answers overtake each other, the page opens
folds by level and offers switches by type. Correct means: no holes, folds as
deep as the levels, everything under its own object.

### Service client: `common/js/plugins/lealone-rpc-5.0.0.js`

State: `cache`, one entry per method with callback, error handler and context.
Operations: `call`, `call4`, `handleResponse`, `handleError`.
Hard: answers find the entry that is there when they arrive, not the one their
call made; a callback's exception becomes an error of the call. Correct means:
an answer reaches its own call or a later one of the same method, nothing is
given twice, the last caller hears its own answer.

### Query console page: `ops/js/header.js`, `query.js`, `result.js`

State: auto commit switch, row limit, shown result. It calls `query` and routes
its answer to one of two result pages. Hard: switch and limit follow the
clicks, not the server; answers come in any order and while the user is
elsewhere. Correct means: the last result routed is what its page shows; the
switch tells the connection's auto commit unless something failed, overlapped
or was loaded again, or SQL from the box (`@autocommit_false`, say) set it.
Most of `query.js` is inherited and unreachable: no handler of the completion
is attached (`ops/template/query.html` comments them out), `initSort` runs
before any table exists.

### Router and page loader: `common/js/plugins/lealone-vue-5.0.0.js`

State: screen, page, parameters, `currentUser`, the browser's history, two
entries per change of page. Operations: `route`, `popstate`, loading another
screen. Above it on the admin screen: `login-ops.js`, which remembers the page
wanted while the administrator logs in. Hard: routing to the page that is
shown pushes nothing; `popstate` changes the page but does not run its
`mounted` again; the first entry of the history has no state. Correct means:
page, history entry and what the page shows belong together.

### What draws the pages: `common/js/plugins/vue-2.6.12.js`

Vue lies in the repository as source, the router is built into it
(`Vue.use`, `getComponentInstance`), and every page's text on the screen is
what it makes of a template and of data. State: per component data, the
watchers that read them, the last tree of virtual nodes; the queue of
watchers; the instances `keep-alive` holds; the document. Operations:
compiling a template, assigning data, running the queue, patching the
document, the hooks of components. Hard: data change while they are drawn (a
`select` reports a change itself, `mounted` assigns); hidden pages and
branches miss changes; the user changes inputs behind Vue's back; hooks wait
for the end of a patch. Correct means: at rest the document shows what the
templates mean, hooks alternate, parents are drawn before what is in them, and
drawing ends.

### Translations: `OpsService.readTranslations`, `common/js/opscenter.js`

State: texts by dotted key and nested objects made from them. Hard: a key that
is a prefix of another (`toolbar.autoSelect` and `toolbar.autoSelect.on`),
where the order of keys decides which survives. `TranslateThread` would watch a
file of texts, but `AdminService.startTranslate` fails before it starts one:
nothing assigns the session it uses.

### Without state of their own

`AdminService` apart from `save`; the HTTP router factory; the launcher; the
tests (main methods that assert nothing); axios.

## 2. Plan

| # | Module | Composes / abstract specification | Worth proving | State |
|---|---|---|---|---|
| 1 | `SessionRegistry` | | types, idle bound, complete sweep, orphans; calls in sequence: open connections, no stranded login | modelled, checked, proved |
| 2 | `QueryService` | stands on the registry's sessions (`alive`, `connected`) | types; `NothingForeign`, `RegisteredIsRunning`, `AnswerIsOwn` for calls in sequence | modelled, checked, proved |
| 3 | `SettingsStore` | implements `RecentSettings` | the mirror of memory and file, named losses, the refinement | modelled, checked, proved |
| 4 | `CommandHistory` | | the codec for all texts, what is forgotten | modelled, checked, proved |
| 5 | `SchemaTree` | | no holes, folds, everything under its own object | modelled, checked, proved |
| 6 | `ServiceClient` | | who hears which answer | modelled, checked, proved |
| 7 | `PageRouter`, `Console` | `Console` composes the router with the header, the result pages and the login pages | `PageIsEntry`, `ResultsFit`, `AnswerSurfaces`, `SwitchTells` for any number of requests | modelled, checked, proved |
| 8 | `WatcherQueue`, `VueScheduler` | implements `DrawingOrder` | types, order of creation, nobody lost, the refinement, for any number of watchers | modelled, checked, proved |
| 9 | `VueTemplate`, `VueDom`, `VuePatch`, `VueApp` | `VueApp` composes them with both apps' pages and does to the scheduler what `VueScheduler` allows; `PageMeaning` says, without Vue, what a template means | (data by recursion: TLC only) | modelled, checked |
| 10 | `Translations` | | which texts are found, when `parse` throws, for any keys in any order | modelled, checked, proved |
| 11 | `QueryService`, more | the `@` commands by what they change (row limit, `@loop`), results kept for edits | | left |

The order follows how many users one mistake reaches: a session, a query, the
saved settings, then the page.

## 3. The modules

In every module an action stands for the code between two points where
somebody else can see or change the state; `PROJECT.json` maps each definition
to its lines. Operators whose comment begins with "Mutant" are faulty variants
of the definition next to them, each one a bug that some property must notice.

**`SessionRegistry`.** `sessions`, `lastAccess`, `lastTimeoutCheck` are the
fields of those names; `conn` says whether a session's connection is only in
`login`'s local variable ("opened"), set, or closed. A call runs in a
`Handler` with a program counter; each access of the map is a step:
`LoginStart`, `Connect`, `ConnectFails`, `Publish`, `Assign` are `login`;
`Check`, `Snapshot`, `Inspect` (one key of the snapshot), `Evict`,
`SweepDone`, `LookupFound`, `LookupMissing`, `Touch` are `getSession`, from
`login` (`Enter`) and from `Request`; `Work` is the rest of the request;
`Logout`, `Close` are `logout`. `at` is the local `now` of a call: the sweep
is due, an entry expired and the check time set by this reading, while others
have read an earlier or a later one; `Touch` reads the clock again. So one
call can find a session due, another fetch and refresh it, and the first drop
it nevertheless.
`Inspect` on a key another call removed is the `NullPointerException` the
code raises there: the call ends. With one handler calls are serial, as on
the database's event loop; with two they interleave as on worker threads.

**`QueryService`.** `field` is `Service.session`. `Query` assigns it,
`Connection`, `Command`, `Start`, `Execute`, `Fetch`, `Fail`, `Finally`,
`Answer` are `query`, `getResult` and `getResultSet` between its later uses;
`EditResult`, `EditAnswer` are `editResult`, `FieldGone` the exception of a
call whose field another one set to null. Rows, columns and texts are
represented by the number of the call they come from, which is what the
properties compare. Statements differ by what they leave: a result set, an
updatable one, a result shown as text only, an update count, or an `@`
command.

**`SettingsStore`.** `mem` is the `ServiceConfig` object or `Off`, `file` the
properties file, `apart` the parts of it that swallowed failures have set apart
from memory. Each action is a whole synchronous handler with the save at its
end. `Readings` are what `loadProperties` may give, the file or nothing, each
time it is called: an action with several reads has one for each. `Save` lets
the write succeed, fail before the file is opened, fail after it was truncated
(`Torn`), both of which are swallowed, or tear the file with the process.
**`RecentSettings`** is what the login page relies on: a list without
repetitions, the last used in front. `SettingsStore` maps to it by the list in
order of use.

**`CommandHistory`.** `list` per session, `stored` the string, as a sequence
of characters; `Encode` and `Decode` follow `saveCommandHistoryList` and
`getCommandHistoryList` character by character, because escaping is what the
property is about. `AddCommand` is `Trim`, `Without`, append and store, in the
order of the code.

**`SchemaTree`.** `todo` is what the loops of `readAllDatabaseObjects` have
still to do; `ReadList` reads a list (schemas, a schema's tables, users) when
its turn comes, `AddNode` adds one node, `ListingFails` is the catch,
`Answer` the encoding and clearing. `SetTables`, `DropSchema`, `DropUser` are
statements of anybody in between. The page is `Show`: `setNode` for every
node, then `writeTree`, which the operators `OpensFold`, `ClosedFolds`,
`HasSwitch` and `Folds` describe by what it writes at each index.

**`ServiceClient`.** A call is its number. `cache` holds, per method, the call
that made the entry; `results` and `errors` record whose entry was given whose
answer. `Result`, `ResultThrows`, `Failure` are the promise's `then` and
`catch` with `handleResponse` and `handleError`: a callback that throws is
given the result and the error.

**`PageRouter`** is the router in one tab: `entries` and `pos` are the
browser's history, `page` and `params` `lealone.page` and `lealone.params`,
`created` the pages Vue has made a component for, `shown` the result each of
them took from the parameters. `Route` is `route` with everything it does in
its order (the state left behind is taken before the parameters change, two
entries are pushed), `PopState` the listener, `Reload` loading the document
again. **`Console`** puts the pages above it: `Query`, `SetAutoCommit`,
`Notice` are the header's clicks, `Serve` is `QueryService.query` at the
server, which sets auto commit to what the switch sent or, for the text of the
SQL box, to anything (`AutoAfter`), `AnswerQuery`,
`AnswerFails`, `AdminLoginOk` the callbacks, `GoTo`, `AdminLogin`,
`BackToLogin` the login pages. A request is sent, served or failed, and over;
answers come in any order.

**`Translations`** is `parse` of `opscenter.js`. `newText` holds nested
objects as a function from paths to what is there, a text or `Object`;
`ParseKey` is one turn of the loop, `Put` the `reduce` in it, which makes the
objects on the way, replaces what was at its end, and loses or throws when it
comes across a text (`InTheWay`, `Throws`). `TextsNext` takes any key not read
before, since the server sends the texts from a `HashMap`.

**`WatcherQueue`** has the queue of Vue's watchers as operators on its state:
`NewWatcher`, `QueueWatcher` with its `Place` in a queue being run, `Begun`,
`Taken` and `ResetSchedulerState` of `flushSchedulerQueue`. **`VueScheduler`**
is that queue with everything a page could do to it: any task, any run of a
watcher and any hook after a flush makes some watchers and has some queued
(`Worked`). **`DrawingOrder`** is what a component relies on: of those that
wait the eldest is drawn next, and nobody who waits is dropped. It knows no
array, no index and no second record of who waits.

**The Vue modules** follow a page from its file to the screen. A template is
a sequence of tokens and an expression one of four small forms; generated code
is a tree instead of JavaScript text. Everything else is as in the code, under
its names. `VueDom` and what stands on it use the queue of `WatcherQueue`.

- **`VueTemplate`**: `Parse` (`parseHTML` with `start`, `end`, `chars`,
  `closeElement`: the tags a browser would close itself, the blanks that go,
  the order in which attributes are taken), `Optimize` (static trees),
  `GenElement` with `Model` (what `v-model` adds by the kind of input), and
  `Render`, which runs the code: `CreateElement`, `RenderList`,
  `RenderStatic`, normalisation of nested lists.
- **`VueDom`**: the document as a list of nodes, and what is done to one:
  attributes, classes, listeners, properties, `v-show`, the hooks of `v-model`
  on a `select`. Also data: `SetData` (the setter), `Notify`, `WatcherUpdate`,
  and the scripts' `mounted` and handlers.
- **`VuePatch`**: `Patch`, `PatchVnode`, `UpdateChildren`, `CreateElm`,
  `RemoveVnodes`; component instances from `Created` over `Mount` to `Activate`
  and `Deactivate`; `Rendered` with the data it read (`AddDep`,
  `CleanupDeps`); `KeptAlive`.
- **`VueApp`**: the steps. `BeginFlush`, `RunWatcher`, `EndFlush` are
  `flushSchedulerQueue`; `Click`, `Flip`, `Pick`, `Type`, `Select` are the
  user, on whatever is visible and listens; `Answer`, `QueryAnswer`,
  `LoginAnswer` the callbacks; `Back` the router's `popstate`. `Scheduled`
  says that all these are steps of `VueScheduler`, so that what is proved of
  the scheduler for any watchers holds of the pages.
- **`PageMeaning`** is the abstract specification: `Means` gives, from the
  template as a tree and the last values assigned, the picture a reader of the
  template expects, by one case per construct and without virtual nodes,
  watchers or history. `Shown` is the picture a document gives. `said`, the
  record of what was assigned, is read by no definition of the code, so that a
  lost assignment is seen as well.

What the user does to an input, what a browser does with a `select` and the
operations of the document are not in the repository; they are marked external
in `PROJECT.json` and follow how Vue uses them.

## 4. The runs

Passing runs. Deadlock checking is off where clients, or the page, may simply
stop.

| Run | Instance | What it shows |
|---|---|---|
| `registry` | 2 handlers, timeout 1, pause 1; in sequence 3 session ids, clock 2 to 7; when calls interleave 2 ids, clock 2 to 5 | A behaviour is serial, as on the database's event loop, or not, as on a pool, throughout. Whatever interleaves: no call gets a session that was idle for more than two timeouts when the call began; the check time changes only when nothing due by it is left; a connection nobody owns was left by a sweep, and its session was expired or, on the pool only, was used by another call during that sweep; a closed session is not in the map; every call ends. In sequence (`Serial...`): a request works on an open connection, no login dies with a connection open. |
| `query` | 2 sessions that come and go; 3 calls of 5 scripts in sequence, or 2 of 3 scripts on 2 handlers | In sequence: what a query leaves in a session, and what it answers, was asked for by that session; failures included, nothing is left for the next query but what edits collected; a registered statement is running. At once: every call ends although others switch or clear the field under it. |
| `settings` | 3 settings (2 generic), 2 options, 2 histories, ticker to 3, 3 initial files | Settings, options and history in file and memory mirror each other but for named failures; each loss has a named cause; the order of use implements `RecentSettings`; an open console has no key. |
| `history` | 2 sessions, limit 2, 4 commands made of `;`, `\` and a letter | What is stored is read back; at most limit + 1 entries, no repeats; only the oldest is forgotten. |
| `tree` | 2 schemas, at most 1 table each, 2 users (1 admin), 2 calls | From any listing - overlapping changes, cut short, out of order - the page has no missing node, folds as deep as levels, a switch for every fold, every node under its own object. |
| `scripts` | client: 2 methods, 3 calls, every style; scheduler: 3 watchers, each run at most twice in a flush; translations: every key of at most 3 parts over 2 names, 4 keys read in any order | Who may hear which answer, nothing twice, the last caller hears itself. Whatever a task, a watcher's run or a hook makes and asks for, `has` and the rest of the queue say the same, the rest is in the order of creation, and `DrawingOrder` is implemented. `parse` throws exactly when a text came before one two or more parts below it; otherwise a text is found unless another key begins its key. |
| `console` | either screen, 2 requests, 5 history entries, 1 reload | Page, history entry and result agree; a result surfaces wherever the user is; the administrator's detour ends where it was meant to; the switch tells the truth unless a request failed, two overlapped, a reload or SQL came in between. |
| `vue` | either app with all its pages, 4 tasks with the scheduler after each, 2 calls out per component; a watcher run at most 5 times in a flush | The document shows what the templates mean whenever nothing waits; kept pages' hooks alternate; drawing ends; every step does to the scheduler what `VueScheduler` allows. |

The three scripts of `scripts` share no variable, so in `MCScripts` one moves
while the others have not begun: what holds of each alone holds of all three.
Runs check the type invariants that say more than types (`settings`: ticks
differ; `history`: the limit); all of them are proved.

Why the bounds are enough. A race in the registry needs one call that sweeps
and one that removes or adds; an evicted, a live and a fresh session; and a
clock that passes two timeouts after a check: 2 ids (3 in sequence), timeout 1
and three ticks (five in sequence) reach all of these. Two calls at once read
the clock at different times, before and after a session they share becomes
due. For the query service three calls are: one that leaves something, one for
another session or an expired id that moves the field, one that would find it.
Two saved settings show an order, a third the setting that is removed or new.
The ticker bound allows a load of two and a use, a load of three, or three
uses; a restart begins it anew, and failures need none of it.
(`settings_remove` has 8.) The history limit 2 is reached with three distinct
commands, the fourth makes a repeat at the limit. The tree needs a schema with
and one without tables, an administrator and another user, and two answers. The
client needs two calls of one method and one of another. In the console two
requests can answer in the other order or one after the user left, and five
entries hold two changes of page, from the first of which one can go back and
then on elsewhere. Of four keys three can lie on one way and one beside it,
which is every case of a text in the way of another and of a text that replaces
what was below it. With three watchers one runs while one before it and one
after it wait or come in, and a second run shows one that asks for itself. The
templates of `vue` are the pages' own, cut down to one of each kind of thing in
them: each kind of input, `v-if`, nested `v-for`, `v-show`, `v-html`, static
trees, a list that shrinks. Four tasks suffice to ask, be answered, change an
input and be answered again, or to leave a page, change its data from another
one, return and act.

Runs that show a disagreement with what the repository says (section 7):
`query_edits`, `settings_remove`, `tree_refresh`, `client_callback`.

## 5. Fairness

Weak fairness of the steps of a call that has begun: a Java call or a script
callback runs on, and the database answers each statement, if only with an
error. Nobody is obliged to begin a call, so there is no fairness for
`LoginStart`, `Request`, `Query` and the like, nor for the clock, the answers
on the network or the changes others make. `CallsEnd` needs just this.

In `VueApp` a flush that was asked for is run: `nextTick` makes it a microtask
(a promise), which a browser runs before it takes another task. So tasks wait
for the flush (`Idle`), and its steps are fair; no task is. `Drawn` rests on
that alone: nothing in it assumes that the queue gets empty.

All other properties are safety and use no fairness. `ServiceClient` states no
liveness: an HTTP answer may never come.

## 6. The proofs

For any constants that satisfy the modules' assumptions. In the registry: the
clock starts beyond one timeout after the epoch, `createNewSession` and
`getSession` run for at most one timeout (`Pause`) after they read the clock,
and `None` is no session. In
the console: no result page has the name of another page, and `None` is no
result. In the settings store: the generic settings and those of a file found
at the first start have different names. In the history: no command is empty,
and a string found in the file reads as a history, as every string the program
writes does. In the tree: schemas and users are finitely many, and there is a
user. In the scheduler: watchers are finitely many, and none runs more than
`MAX_UPDATE_COUNT + 1` times in a flush. In the translations: keys are
sequences of parts and not empty.

Every safety property of every passing run is proved, but for those of `vue`.

`SessionRegistryProofs`:

- `TypeCorrect`, `IdleBound`, `SweepIsComplete` rest on `IdleInv`. A bound on
  the idle time is not inductive by itself, since `lastAccess` says nothing of
  the sweep. What carries it: entries in the map were not due at the last
  check (`SweptAtLastCheck`); what a running sweep has already passed, and
  whatever was published behind its back, is not due by the reading it goes by
  (`SweptSoFar`); and when a handler gets to the lookup nothing in the map is
  two timeouts older than its reading (`LookupIsChecked`). Each call has its
  own reading; that none is far behind the clock is `ReadingIsRecent`, without
  which a session dated by an old reading could be due at once.
- `ConnectionsOfRemovedSessions` (`OrphanIsExpired`) and `ClosedAreGone`, for
  any calls, by `OrphanInv`: an id being logged in belongs to one handler and
  is not in the map yet; what the sweep is about to drop is expired by its
  reading, or was dated after it (`VictimWasDue`); what it has dropped is so
  too, or is dated later by a call that had fetched it before (`SweptWasDue`,
  `LateTouch`); a handler about to close has taken its session out of the map.
- For calls that run one after the other `RequestsAreConnected`,
  `LoginsAreNotStranded` and the stronger half of
  `ConnectionsOfRemovedSessions`, by `AloneInv`: a sweep that runs alone finds
  every entry of its snapshot (`SnapshotIsThere`), so that it never ends the
  login it belongs to; it cannot take the session that login has just made,
  since less than a timeout passes before it is looked up (`FreshIsSafe`); and
  nobody dates an entry between its look and its remove (`AloneIsExpired`).

`ScriptProofs` is about three scripts that every page loads.

Of the client: `TypeCorrect`, `AnswersReachOwnOrLater`, `ResultsGivenOnce`,
`LastCallHearsItself`, by `CacheIsLatest`: the entry of a method was made by a
call of that method, and by none before the call whose answer arrives. An
answer still due has been given to nobody (part of `OwnOrLater`), which is why
`GivenOnce` is proved with it.

Of the scheduler: `SchedulerTyped`, `ParentsAreFirst`, `NothingIsLost`, and
`SchedulerDrawsInOrder`, the refinement of `DrawingOrder`, by `SchedulerInv`.
That the rest of the queue is sorted is not inductive by itself. A watcher
that comes in while the queue runs finds one place only if ids differ and none
exceeds the counter (`IdInv`), and it is refused only if it is really still to
run, which needs `has` and the rest to agree (`LeftInv`); with both, `Place`
keeps the rest sorted (`OrderInv`). What a stretch of code makes and asks for
is a fold of any length, and goes through by induction over its steps; that a
sorted queue exists at all, which `Begun` chooses, is `RisingExists`. For the
refinement each step is one of `DrawingOrder`: the first of a sorted rest is
the eldest that waits.

Of the translations: `TextsAreNested`, `ThrowsOnlyBelowTexts`,
`OrderDoesNotMatter` (`TextsAreFound`), for any keys in any order and any
number of them, by `TextsInv`. What a key finds in its way depends on all keys
before it, of which `TextsAreFound` says too little: it does not say what else
is there. `HoldsTexts` does: the texts in the nested objects are exactly those
of the keys read that no other key read begins. A key is then lost just when
one of those read begins it (`KeyAboveIsInTheWay`), for which the shortest
such key is needed (`ShortestAbove`), and it removes just the longer ones
(`PutKeyHolds`).

`QueryServiceProofs`: `TypeCorrect` for the event loop and the pool, for any
sessions, handlers, scripts and number of calls (from `CallInv`: a handler at
work has a call, and a statement to run when it runs one). For calls that run
one after the other, `SessionsAreApart`, `RegisteredRuns` and
`AnswersAreTheirOwn`, by `SerialInv`: for the length of a call the field holds
the session the call works for (`FieldInv`); what is collected in a session
belongs to the call at work or to an edit, and no rows are there without
columns, which is what an answer looks at before it takes both
(`CollectedInv`); what is registered runs for the session in the field
(`RegisteredInv`). With calls at once none of these holds, `FieldInv` first.

`ConsoleProofs`: `ResultsStayTogether`, `LastResultSurfaces`,
`PageFollowsHistory`, `DetourEnds`, `SwitchIsTrue`, for any result pages and
any number of requests, history entries and reloads. `PageIsEntry` is
inductive by itself. The others are not:

- `ResultsInv` adds to `ResultsFit` the page shown with its parameters, since
  `route` writes them into the history when the page is left, and that a
  page shown has a component.
- `LatestInv` adds to `AnswerSurfaces` that the page of the result routed last
  has a component: `popstate` would otherwise make one from an older entry.
- `WishInv` says that before any reload nothing leads to the administrator's
  login, on the screen, in the history or under way to the server, unless the
  page wanted is noted.
- `SwitchInv` says that without a failure, two requests at once or a reload
  only SQL that set auto commit (`typed`), or the switch's own request while it
  is with the server, can make switch and connection differ, and that this
  request carries what the switch shows: so a click, once served, makes them
  agree again after such SQL too.

`Folding` holds no property of the program but what the modules above and
below need: how something built step by step from a string, a file or an
answer is reasoned about. The provers cannot instantiate an induction theorem
that has an operator as its parameter. So `Folding` has none: `Induction` and
`SequencesBuilt` speak of a set, the set of those numbers or sequences for
which the claim holds, and follow from the well-foundedness of the order of
the naturals. `Iteration` gives a function for a base and a step, from which
`FoldSteps` derives what `FoldLeft` computes: the community module defines it
by recursion over sets of indices, of which a solution must be shown to exist
first. `FallingExists` and `RisingExists` say that a finite set can be put in
the order of distinct numbers of its elements, which a `CHOOSE` of a sorted
sequence rests on. The fold's operator is a constant of the module, and each
proof module instantiates it for the operators of the code it is about.

`SettingsStoreProofs`: `TypeCorrect`, `MirrorHolds`, `KeysAreLocal`,
`LossesAreExplained`, `LastUsedIsListedOnTop`, and `KeepsRecentList`, the
refinement of `RecentSettings`. `StoreInv` adds to `FileMirrorsMemory` that a
file never names a setting twice and that settings in memory have different
ticks, all below the ticker (`Sound`): without this a sort has several
results, and memory, written and read again, may come back in another order.
`LoadInOrder` is the heart: a load gives the names of the file rising ticks,
so that sorting, numbering backwards and reading backwards return the list
(`LoadedMirrors`). What `FileMirrorsMemory` says of the history is why only an
admin save, a torn write or a swallowed failure can lose the permission to
store it. For the refinement each action is one of
`RecentSettings` or leaves the list alone: `UseStep`, `DropStep`, `LoadStep`,
`SaveStep` say which.

`CommandHistoryProofs`: `ReadBack`, that `Decode` undoes `Encode` for every
list of commands over every alphabet, by induction over the commands
(`HistoryIsRead`) and over the characters of each (`CommandIsReadBack`): where
a command ends, the reader holds exactly that command and has no escape
character pending. From it `StoredAsWritten`; from `HistoryInv` (a stored
string always reads as a history) `TypeCorrect`, and, with what `Trim` and
`Without` keep of a list's order, `OnlyOldestForgotten`.

`SchemaTreeProofs`: `TypeCorrect`, `ArrayHasNoHole`, `FoldsUnfold`,
`LevelsAreFolds`, `StandsUnderItsOwn`, for any database that changes during
any number of listings. None is inductive, since they speak of the page, and
an answer may be long under way. `TreeInv` carries one relation from the
objects still to be listed over the listing and the answers to the page:
`Follows` says which object may come right behind which, and a list that is
read puts a chain in its place (`ReadChain`), whatever it holds by then.
`AnswerHeld` takes it through the page's array, of which an older answer may
still hold the end. From neighbours then follow the levels, by induction the
number of open folds (`FoldsCounted`) and each node's parent.

Only model-checked: every liveness property (fairness and `ENABLED` are beyond
the prover), and what is said of Vue beyond its scheduler: `KeptAliveOnce`,
`ShowsMeaning`, and that the pages use the scheduler as `VueScheduler` allows
(`Scheduled`). Templates, virtual nodes and documents are worked on by
recursive operators on trees, as in the code, and the prover has no backend
for a module that reaches one.

## 7. What the code does otherwise than it says

Shown by a run:

- `query_edits`: `editResult` ignores `jsessionid` and edits the result set of
  the session that queried last (`QueryService.java:647`).
- `settings_remove`: removing the last setting in memory brings it back from
  the file, because the settings are read again before the file is written
  (`OpsService.java:110`).
- `tree_refresh`: after a refresh with fewer objects the page draws the old
  nodes behind the new ones (`tables.js:76`).
- `client_callback`: of two calls of one method the first one's callback never
  runs and the second one's runs for both answers (`lealone-rpc-5.0.0.js:54`).

Met while modelling, without a run of their own: a session is handed out up to
two timeouts after its last use, the sweep being lazy (`IdleAtMostTwice` is the
bound that holds); any command for a session, `@cancel` included, resets
`executingStatement` while another statement of it may be running, so that
`RegisteredIsRunning` has no converse (`QueryService.java:338`); the admin
page's last query is the oldest command of the history
(`ServiceSession.java:194`); `settingSave` after a restart, before anything
read the settings, overwrites the saved ones (a named cause in
`LossesExplained`); an admin save drops the stored history from the file; a
reload between asking for a page and the administrator's login ends on a page
without a name (`BlankNeedsReload`); on the worker pool a sweep may drop a
session that another call has refreshed since the look at it, and leave its
connection open (the second case of `OrphanIsExpired`;
`ServiceConfig.java:128`); a store that throws leaves a truncated file behind a
program that goes on (`ServiceConfig.java:537`), and a read that fails once
lets the next save write the generic settings over the saved ones
(`ServiceConfig.java:454`; both are causes in `LossesExplained`);
`@autocommit_false` in the SQL box leaves the header's switch on
(`QueryService.java:179`, the last exception of `SwitchTells`); a `select`
whose value is no longer among its options sets its own variable to undefined,
which no later answer assigns again; `parse` of the translations throws when a
text comes before one two or more parts below it, so that nothing is mounted
(`opscenter.js:33`; the server keeps the texts in a `HashMap`, so that their
order is any).

## 8. Limits

Assumptions: the clock does not go back; from the reading of the clock in
`createNewSession` or `getSession` to the end of that method at most one
timeout (30 minutes by default) passes, since they walk a map and read the
program's own resources; a single operation of a `HashMap` is atomic even with
two handlers (its internal races are not modelled); generated session ids do
not repeat; settings operations run one at a time although `updateSetting` is
not synchronized; nobody edits the properties file by hand so that it names a
setting twice or holds a history the program would not have written;
`SchemaTree` has one session and one listing at a time, since its service too
shares one field, which `QueryService` covers; a setting's content is its name,
and the options of the file are one value, so that a torn file has all of them
or none; the administrator's password is in the file but in no property, and
the directory "null", with which no file is used, is left out; tables and views
are one kind, and columns are never listed because `mainSchema` is always
false.

In `ServiceClient` the SockJS transport is left out: every page of the console
loads axios, which `sendRequest` prefers. How arguments are collected and how
`loadServices` builds its methods is left out as well.

The inputs are those the pages send. `query` without any `sql`, which no page
sends, would fail in the reader (`QueryService.java:84`), before the field is
assigned, and put the error into the session of the query before; `Query` has
no such script.

In `PageRouter` and `Console` there is one tab and one screen: another screen
is another document, and the state that would switch to it is left out with
it. The row limit goes the way of the auto commit switch and is left out.

Of Vue, what no page of the console uses is left out: `v-else`, `v-once`,
`v-pre`, slots other than keep-alive's, literal styles, `include`, `exclude`
and `max` of keep-alive, transitions, hydration, async and functional
components, errors in hooks, branches for other browsers, composition events.
`_beforeRender` and `$destroy` are never reached; the branch of
`getComponentInstance` that makes an instance for a component not drawn yet is
not either, as every script asks for a component that is there. The
`beforeMount` that `component()` adds assigns only data that are empty
already. The breaker that stops a watcher after a hundred runs is left out:
`MaxRuns` bounds the runs below it, and the run `vue` shows with `Scheduled`
that no watcher of a page runs more than 5 times in a flush. Markup given to
`v-html` is one value. A computed property other than the router's does not
occur.

Not modelled: `@` commands by their effect beyond auto commit, the closing of
statements (the code closes few, and nothing promises more); the server's side
of translations and the translate thread; axios, which is the network of
`ServiceClient`; editing, completion and sorting in `query.js`, which no
template calls; logout's change of document; that a text may be empty (`parse`
takes it for no object and puts one in its place); HTTP wiring, start-up,
command line tools (`AdminService.tools`), rendering and formatting of values,
and the tests, which assert nothing.

What is hard to test is listed with its properties in `PROJECT.json`. Known as
well, and left without a property: the ticker is an `int` that only a restart
resets; `resultSetSQL` is set before the statement of an edit runs; `login`
does not close its server session when the connection fails, nor does
`logout`; every session stores its own copy of the history, so the last one
wins; the row limit of the page starts at 1000 whatever the session's is;
logout leaves the id in the browser's storage, which all tabs share, and
`popstate` brings back the user of its entry; columns of an answer that
`data()` does not declare draw nothing by themselves; a call made on a service
object rather than a component keeps its callback on the shared object.
