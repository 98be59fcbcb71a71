----------------------------- MODULE SchemaTree -----------------------------
(***************************************************************************)
(* The tree of database objects: DatabaseService.readAllDatabaseObjects    *)
(* lists the objects as numbered nodes with a level and a type, one node   *)
(* after the other, while statements change the database; the page keeps   *)
(* the nodes of an answer by number and writes nested, folded HTML from    *)
(* them (ops/js/tables.js).                                                *)
(*                                                                         *)
(* The service runs one call at a time and for one session here; answers   *)
(* may reach the page in another order than they were sent.                *)
(***************************************************************************)
EXTENDS Integers, Sequences, SequencesExt, FiniteSets, Functions

CONSTANTS
  Schema,      \* names of schemas
  User,        \* names of users
  Admin,       \* the users that are administrators
  MaxTables,   \* bound: tables and views of a schema
  MaxCalls     \* bound: calls in a behaviour

ASSUME TreeAssumption ==
  /\ IsFiniteSet(Schema) /\ IsFiniteSet(User)
  /\ User # {} /\ Admin \subseteq User
  /\ MaxTables \in Nat /\ MaxCalls \in Nat

VARIABLES
  tables,    \* the database: how many tables and views each schema has
  users,     \* the database: users
  reading,   \* a call of readAllDatabaseObjects is running
  todo,      \* the objects it has still to list, in order
  listing,   \* ServiceSession.nodeList
  treeIndex, \* its local variable treeIndex
  calls,     \* calls so far
  answers,   \* answers on their way to the page
  nodeList,  \* the page's array of nodes, by index
  shown      \* the answer the page's tree was written for

databaseVars == <<tables, users>>
serviceVars == <<reading, todo, listing, treeIndex>>
pageVars == <<nodeList, shown>>
vars == <<databaseVars, serviceVars, calls, answers, pageVars>>

(* An object to list.  The kinds "schemas", "tables" and "allUsers" stand  *)
(* for a list that is read from the database when its turn comes.          *)
Object(kind, name) == [kind |-> kind, name |-> name]
Only(kind) == Object(kind, "")
IsList(o) == o.kind \in {"schemas", "tables", "allUsers"}

(* The level and the type of the node of each kind of object.              *)
Level(kind) == CASE kind \in {"table", "user"} -> 1
                 [] kind = "admin" -> 2
                 [] OTHER -> 0

\* Mutant: a user is a leaf.
LeafUser(kind) == CASE kind \in {"table", "user", "admin"} -> 2
                    [] kind \in {"folder", "users"} -> 1
                    [] OTHER -> 0
Type(kind) == CASE kind \in {"table", "admin"} -> 2
                [] kind \in {"folder", "users", "user"} -> 1
                [] OTHER -> 0

Node(id, o) ==
  [id |-> id, level |-> Level(o.kind), type |-> Type(o.kind), object |-> o]

Init ==
  /\ tables \in [Schema -> 0 .. MaxTables]
  /\ users = User
  /\ reading = FALSE /\ todo = <<>> /\ listing = <<>> /\ treeIndex = 0
  /\ calls = 0
  /\ answers = {}
  /\ nodeList = <<>> /\ shown = <<>>

-----------------------------------------------------------------------------
(* Statements of any session change the database.                          *)
SetTables(s, n) ==
  /\ s \in DOMAIN tables /\ n # tables[s]
  /\ tables' = [tables EXCEPT ![s] = n]
  /\ UNCHANGED <<users, serviceVars, calls, answers, pageVars>>

DropSchema(s) ==
  /\ s \in DOMAIN tables
  /\ tables' = Restrict(tables, DOMAIN tables \ {s})
  /\ UNCHANGED <<users, serviceVars, calls, answers, pageVars>>

DropUser(u) ==
  /\ u \in users /\ users # {u}
  /\ users' = users \ {u}
  /\ UNCHANGED <<tables, serviceVars, calls, answers, pageVars>>

-----------------------------------------------------------------------------
(* readAllDatabaseObjects                                                  *)

Begin ==
  /\ ~reading /\ calls < MaxCalls
  /\ reading' = TRUE
  /\ calls' = calls + 1
  /\ todo' = <<Only("database"), Only("schemas"), Only("allUsers"), Only("info")>>
  /\ treeIndex' = 0
  /\ UNCHANGED <<databaseVars, listing, answers, pageVars>>

\* Mutant: a schema's folder comes behind its tables.
FolderLast(s) == <<Object("tables", s), Object("folder", s)>>
ListedSchema(s) == <<Object("folder", s), Object("tables", s)>>

\* Mutant: the mark of an administrator comes in front of the user.
MarkedUser(u) ==
  (IF u \in Admin THEN <<Object("admin", u)>> ELSE <<>>) \o <<Object("user", u)>>
ListedUser(u) ==
  <<Object("user", u)>> \o (IF u \in Admin THEN <<Object("admin", u)>> ELSE <<>>)

(* What a list holds when it is read.  A schema that was dropped since it  *)
(* was listed has no tables any more.                                      *)
Read(o) ==
  CASE o.kind = "schemas" ->
         FlattenSeq(SetToSeq({ListedSchema(s) : s \in DOMAIN tables}))
    [] o.kind = "tables" ->
         [i \in 1 .. (IF o.name \in DOMAIN tables THEN tables[o.name] ELSE 0) |->
            Object("table", o.name)]
    [] o.kind = "allUsers" ->
         IF users = {} THEN <<>>
         ELSE <<Only("users")>> \o FlattenSeq(SetToSeq({ListedUser(u) : u \in users}))

ReadList ==
  /\ todo # <<>> /\ IsList(Head(todo))
  /\ todo' = Read(Head(todo)) \o Tail(todo)
  /\ UNCHANGED <<databaseVars, reading, listing, treeIndex, calls, answers,
                 pageVars>>

\* Mutant: a user who is no administrator uses up the mark's index, too.
AddNodeUnmarked ==
  /\ todo # <<>> /\ ~IsList(Head(todo))
  /\ listing' = Append(listing, Node(treeIndex, Head(todo)))
  /\ treeIndex' = treeIndex +
       (IF Head(todo).kind = "user" /\ Head(todo).name \notin Admin THEN 2 ELSE 1)
  /\ todo' = Tail(todo)
  /\ UNCHANGED <<databaseVars, reading, calls, answers, pageVars>>

(* session.addNode, and treeIndex++.                                       *)
AddNode ==
  /\ todo # <<>> /\ ~IsList(Head(todo))
  /\ listing' = Append(listing, Node(treeIndex, Head(todo)))
  /\ treeIndex' = treeIndex + 1
  /\ todo' = Tail(todo)
  /\ UNCHANGED <<databaseVars, reading, calls, answers, pageVars>>

(* An exception while the objects are listed, a text without translation   *)
(* for one, ends the listing: the nodes so far become the answer.          *)
ListingFails ==
  /\ todo # <<>> /\ listing # <<>>
  /\ todo' = <<>>
  /\ UNCHANGED <<databaseVars, reading, listing, treeIndex, calls, answers,
                 pageVars>>

Answer ==
  /\ reading /\ todo = <<>>
  /\ reading' = FALSE
  /\ answers' = answers \cup {listing}
  /\ listing' = <<>>
  /\ UNCHANGED <<databaseVars, todo, treeIndex, calls, pageVars>>

-----------------------------------------------------------------------------
(* The page                                                                *)

(* setNode for every node of the answer, in order; an index the answer     *)
(* does not have keeps its node.                                           *)
SetNode(list, n) ==
  [i \in DOMAIN list \cup {n.id} |-> IF i = n.id THEN n ELSE list[i]]
SetNodes(answer) == FoldLeft(SetNode, nodeList, answer)

Show(answer) ==
  /\ answer \in answers
  /\ answers' = answers \ {answer}
  /\ nodeList' = SetNodes(answer)
  /\ shown' = answer
  /\ UNCHANGED <<databaseVars, serviceVars, calls>>

(* What writeTree writes in front of and for the node at index i.          *)
Indices == DOMAIN nodeList
Dist(i) == IF i = 0 THEN 0 ELSE nodeList[i].level - nodeList[i - 1].level
OpensFold(i) == Dist(i) > 0                \* <div id="div(i-1)">, hidden
ClosedFolds(i) == IF Dist(i) < 0 THEN -Dist(i) ELSE 0
HasSwitch(i) ==                            \* onclick="hit(i)"
  /\ nodeList[i].type = 1
  /\ i + 1 \in DOMAIN nodeList
  /\ nodeList[i + 1].level > nodeList[i].level

(* The folds that are open where node i is written.                        *)
Folds[i \in Indices] ==
  IF i = 0 THEN 0
  ELSE Folds[i - 1] + (IF OpensFold(i) THEN 1 ELSE 0) - ClosedFolds(i)

(* writeTree's last writeDiv closes as many folds as the last type says.   *)
FoldsLeft(last) == Folds[last] - nodeList[last].type

Next ==
  \/ \E s \in Schema : DropSchema(s) \/ \E n \in 0 .. MaxTables : SetTables(s, n)
  \/ \E u \in User : DropUser(u)
  \/ Begin \/ ReadList \/ AddNode \/ ListingFails \/ Answer
  \/ \E answer \in answers : Show(answer)

Spec == Init /\ [][Next]_vars

-----------------------------------------------------------------------------
NodeType == [id : Nat, level : 0 .. 2, type : 0 .. 2,
             object : [kind : {"database", "folder", "table", "users", "user",
                               "admin", "info"},
                       name : Schema \cup User \cup {""}]]

(* The types of the variables.                                             *)
TypeOK ==
  /\ DOMAIN tables \subseteq Schema
  /\ \A s \in DOMAIN tables : tables[s] \in 0 .. MaxTables
  /\ users \subseteq User /\ users # {}
  /\ reading \in BOOLEAN
  /\ listing \in Seq(NodeType) /\ (~reading => listing = <<>>)
  /\ treeIndex \in Nat /\ (reading => treeIndex = Len(listing))
  /\ calls \in 0 .. MaxCalls
  /\ answers \subseteq Seq(NodeType)
  /\ Range(nodeList) \subseteq NodeType

(* Whatever listings failed and in whatever order answers arrive, the      *)
(* page's array has no holes: writeTree fails at the first one.            *)
NoHole == DOMAIN nodeList = 0 .. (Cardinality(DOMAIN nodeList) - 1)

(* No node of an earlier, longer answer is left behind the last answer's.  *)
NoneLeft == Len(shown) = Cardinality(DOMAIN nodeList)

(* Then a node is written inside as many folds as its level says, also for *)
(* a listing cut short; a complete one leaves no fold open.                *)
FoldsAreLevels ==
  NoneLeft /\ shown # <<>> =>
    /\ \A i \in Indices : Folds[i] = nodeList[i].level
    /\ Last(shown).object.kind = "info" => FoldsLeft(Len(shown) - 1) = 0

(* And every fold, hidden at first, belongs to a node that can unfold it.  *)
EveryFoldUnfolds ==
  NoneLeft => \A i \in Indices : OpensFold(i) => HasSwitch(i - 1)

(* And a node stands in its own object's fold - a table in its schema's, a *)
(* user among the users, the mark of an administrator in its user's - also *)
(* when the objects were dropped while they were listed.                   *)
Parent(i) ==
  nodeList[CHOOSE j \in 0 .. i :
             /\ nodeList[j].level < nodeList[i].level
             /\ \A k \in (j + 1) .. i : nodeList[k].level >= nodeList[i].level].object

UnderItsOwn ==
  NoneLeft => \A i \in Indices :
    LET o == nodeList[i].object
    IN  /\ o.kind = "table" => Parent(i) = Object("folder", o.name)
        /\ o.kind = "user" => Parent(i) = Only("users")
        /\ o.kind = "admin" => Parent(i) = Object("user", o.name)

(* The button that reads the tables again is titled "Refresh" (ops/template*)
(* /header.html): the tree shows what the last answer says, nothing older. *)
RefreshReplaces == shown # <<>> => NoneLeft
=============================================================================
