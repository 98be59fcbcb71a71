---------------------------- MODULE Translations ----------------------------
(***************************************************************************)
(* The texts of the pages: parse of opscenter.js turns keys with dots into *)
(* nested objects, for templates that say {{ text.a.b }}.  The server      *)
(* keeps the texts in a HashMap, so the keys come in any order.            *)
(*                                                                         *)
(* A key is the sequence of its parts; the text of a key stands for        *)
(* itself, none is empty.  Nested objects are a function from the paths to *)
(* what is there.                                                          *)
(***************************************************************************)
EXTENDS Naturals, Sequences, SequencesExt

CONSTANTS
  Parts,    \* the names between the dots
  Keys,     \* the keys that may have a text
  MaxKeys   \* a bound: keys of one language

ASSUME KeysAssumption == Keys \subseteq Seq(Parts) \ {<<>>}
ASSUME MaxKeysAssumption == MaxKeys \in Nat

VARIABLES
  newText,  \* what has been made of them
  read,     \* the keys so far, in their order
  thrown    \* parse has thrown: nothing will be mounted

textVars == <<newText, read, thrown>>

Object == <<>>   \* an object, no text
Text(key) == key

Above(p, q) == IsStrictPrefix(p, q)
Way(key) == {p \in Prefixes(key) : p \notin {<<>>, key}}
Paths == (UNION {Prefixes(key) : key \in Keys}) \ {<<>>}

TextsInit == newText = <<>> /\ read = <<>> /\ thrown = FALSE

-----------------------------------------------------------------------------

(* The texts reduce comes across where it looks for objects.               *)
InTheWay(o, key) == {p \in Way(key) \cap DOMAIN o : o[p] # Object}

\* Mutant: a text in the way becomes an object.
PutThrough(o, key) ==
  [p \in {q \in DOMAIN o : ~Above(key, q)} \cup Way(key) \cup {key} |->
     IF p = key THEN Text(key)
     ELSE IF p \in DOMAIN o \ InTheWay(o, key) THEN o[p] ELSE Object]

(* reduce: objects on the way, and at its end the text in place of         *)
(* whatever was there.  A property assigned to a text is lost.             *)
Put(o, key) ==
  IF InTheWay(o, key) # {} THEN o
  ELSE [p \in {q \in DOMAIN o : ~Above(key, q)} \cup Way(key) \cup {key} |->
          IF p = key THEN Text(key) ELSE IF p \in DOMAIN o THEN o[p] ELSE Object]

(* What is read from a text is undefined, and a property of that throws.   *)
Throws(o, key) == \E p \in InTheWay(o, key) : Len(p) + 1 < Len(key)

(* One turn of the loop.                                                   *)
ParseKey(key) ==
  /\ ~thrown /\ Len(read) < MaxKeys
  /\ key \notin Range(read)
  /\ read' = Append(read, key)
  /\ thrown' = Throws(newText, key)
  /\ newText' = IF thrown' THEN newText ELSE Put(newText, key)

TextsNext == \E key \in Keys : ParseKey(key)

TextsSpec == TextsInit /\ [][TextsNext]_textVars

-----------------------------------------------------------------------------
(* Properties.                                                             *)

(* Texts and objects lie at paths of keys, below objects only (newText of  *)
(* parse).                                                                 *)
TextsTypeOK ==
  /\ read \in Seq(Keys) /\ thrown \in BOOLEAN
  /\ DOMAIN newText \subseteq Paths
  /\ \A q \in DOMAIN newText :
       /\ newText[q] \in Keys \cup {Object}
       /\ \A p \in Way(q) : p \in DOMAIN newText /\ newText[p] = Object

(* parse fails exactly when a text came before one two or more parts below *)
(* it (the callback of reduce in parse).                                   *)
ThrowsBelowTexts ==
  thrown <=> \E i, j \in DOMAIN read :
               i < j /\ Above(read[i], read[j]) /\ Len(read[i]) + 1 < Len(read[j])

(* Else the order does not matter: {{ text.key }} shows the text of its    *)
(* key unless that begins with another key: then the shorter one is shown  *)
(* and the longer one has no text (parse, whatever the HashMap's order).   *)
TextsAreFound ==
  /\ ThrowsBelowTexts
  /\ ~thrown =>
       \A key \in Range(read) :
         key \in DOMAIN newText /\ newText[key] = Text(key)
           <=> ~\E k \in Range(read) : Above(k, key)
=============================================================================
