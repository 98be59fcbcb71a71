----------------------- MODULE CommandHistoryProofs -----------------------
(***************************************************************************)
(* Proofs about CommandHistory for any commands, characters, sessions and  *)
(* limit: the stored string is read back as the history it was made from,  *)
(* histories hold no command twice and stay within the limit, and forget   *)
(* only their oldest command.                                              *)
(***************************************************************************)
EXTENDS CommandHistory, SequenceTheorems, TLAPS

(* The folds that write and read the stored string.                        *)
Escapes == INSTANCE Folding WITH op <- Escaping
Joins == INSTANCE Folding WITH op <- Joining
Reads == INSTANCE Folding WITH op <- Reading

Text == Seq(Char)
ReadState == [done : Seq(Text), sb : Text, esc : BOOLEAN]
ReadAll(d, str) == FoldLeft(Reading, d, str)

LEMMA EscapesIsFold ==
  ASSUME NEW sb, NEW cmd PROVE FoldLeft(Escaping, sb, cmd) = Escapes!Fold(sb, cmd)
BY DEF Escapes!Fold, Escapes!FoldLeft, FoldLeft, Escapes!MapThenFoldSet, MapThenFoldSet,
       Escapes!Max, Max

LEMMA JoinsIsFold ==
  ASSUME NEW sb, NEW l PROVE FoldLeft(Joining, sb, l) = Joins!Fold(sb, l)
BY DEF Joins!Fold, Joins!FoldLeft, FoldLeft, Joins!MapThenFoldSet, MapThenFoldSet,
       Joins!Max, Max

LEMMA ReadsIsFold ==
  ASSUME NEW d, NEW str PROVE ReadAll(d, str) = Reads!Fold(d, str)
BY DEF ReadAll, Reads!Fold, Reads!FoldLeft, FoldLeft, Reads!MapThenFoldSet, MapThenFoldSet,
       Reads!Max, Max

LEMMA Chars == Semi \in Char /\ Esc \in Char
BY DEF Char

LEMMA CommandsAreText ==
  ASSUME NEW cmd \in Command PROVE cmd \in Text /\ cmd # <<>>
BY HistoryAssumption DEF Text

-----------------------------------------------------------------------------
(* Writing.                                                                *)

LEMMA EscapeType ==
  ASSUME NEW c \in Char PROVE Escape(c) \in Text /\ Escape(c) # <<>>
<1>1. <<Esc, c>> \in Seq(Char) /\ <<c>> \in Seq(Char)
  BY Chars
<1>2. <<Esc, c>> # <<>> /\ <<c>> # <<>>
  OBVIOUS
<1> QED BY <1>1, <1>2 DEF Escape, Text

LEMMA EscapingType ==
  \A sb \in Text, c \in Char : Escaping(sb, c) \in Text
BY EscapeType DEF Escaping, Text

LEMMA EscapedSteps ==
  /\ Escaped(<<>>) = <<>>
  /\ \A cmd \in Text : Escaped(cmd) \in Text
  /\ \A cmd \in Text, c \in Char : Escaped(Append(cmd, c)) = Escaped(cmd) \o Escape(c)
<1>1. <<>> \in Text
  BY DEF Text
<1>2. Escaped(<<>>) = <<>>
  <2>1. Escapes!Fold(<<>>, <<>>) = <<>>
    BY <1>1, EscapingType, Escapes!FoldEmpty
  <2> QED BY <2>1, EscapesIsFold DEF Escaped
<1>3. ASSUME NEW cmd \in Text PROVE Escaped(cmd) \in Text
  <2>1. cmd \in Seq(Char)
    BY DEF Text
  <2>2. Escapes!Fold(<<>>, cmd) \in Text
    BY <1>1, <2>1, EscapingType, Escapes!FoldType
  <2> QED BY <2>2, EscapesIsFold DEF Escaped
<1>4. ASSUME NEW cmd \in Text, NEW c \in Char
      PROVE  Escaped(Append(cmd, c)) = Escaped(cmd) \o Escape(c)
  <2>1. Escapes!Fold(<<>>, Append(cmd, c)) = Escaping(Escapes!Fold(<<>>, cmd), c)
    <3>1. cmd \in Seq(Char)
      BY DEF Text
    <3> QED BY <1>1, <3>1, EscapingType, Escapes!FoldAppend
  <2> QED BY <2>1, EscapesIsFold DEF Escaped, Escaping
<1> QED BY <1>2, <1>3, <1>4

LEMMA EscapedNotEmpty ==
  ASSUME NEW cmd \in Command PROVE Escaped(cmd) \in Text /\ Escaped(cmd) # <<>>
<1> DEFINE U == {s \in Text : s # <<>> => Escaped(s) # <<>>}
<1>1. <<>> \in U
  BY DEF Text
<1>2. ASSUME NEW s \in Text, NEW c \in Char PROVE Append(s, c) \in U
  <2>1. Escaped(Append(s, c)) = Escaped(s) \o Escape(c)
    BY EscapedSteps
  <2>2. Escaped(s) \in Text /\ Escape(c) \in Text /\ Escape(c) # <<>>
    BY EscapedSteps, EscapeType
  <2>3. Escaped(s) \o Escape(c) # <<>>
    BY <2>2 DEF Text
  <2> QED BY <2>1, <2>3 DEF Text
<1>3. Text \subseteq U
  <2> HIDE DEF U
  <2> QED BY <1>1, <1>2, Escapes!SequencesBuilt DEF Text
<1> QED BY <1>3, CommandsAreText, EscapedSteps

LEMMA JoiningType ==
  \A sb \in Text, cmd \in Command : Joining(sb, cmd) \in Text
<1> SUFFICES ASSUME NEW sb \in Text, NEW cmd \in Command PROVE Joining(sb, cmd) \in Text
  OBVIOUS
<1>1. Append(sb, Semi) \in Text /\ sb \in Text /\ Escaped(cmd) \in Text
  BY Chars, EscapedNotEmpty DEF Text
<1> QED BY <1>1 DEF Joining, Text

LEMMA EncodeSteps ==
  /\ Encode(<<>>) = <<>>
  /\ \A l \in Seq(Command) : Encode(l) \in Text
  /\ \A l \in Seq(Command), cmd \in Command :
       Encode(Append(l, cmd)) = Joining(Encode(l), cmd)
<1>1. <<>> \in Text
  BY DEF Text
<1>2. Encode(<<>>) = <<>>
  <2>1. Joins!Fold(<<>>, <<>>) = <<>>
    BY <1>1, JoiningType, Joins!FoldEmpty
  <2> QED BY <2>1, JoinsIsFold DEF Encode
<1>3. ASSUME NEW l \in Seq(Command) PROVE Encode(l) \in Text
  <2>1. Joins!Fold(<<>>, l) \in Text
    BY <1>1, JoiningType, Joins!FoldType
  <2> QED BY <2>1, JoinsIsFold DEF Encode
<1>4. ASSUME NEW l \in Seq(Command), NEW cmd \in Command
      PROVE  Encode(Append(l, cmd)) = Joining(Encode(l), cmd)
  <2>1. Joins!Fold(<<>>, Append(l, cmd)) = Joining(Joins!Fold(<<>>, l), cmd)
    BY <1>1, JoiningType, Joins!FoldAppend
  <2> QED BY <2>1, JoinsIsFold DEF Encode
<1> QED BY <1>2, <1>3, <1>4

-----------------------------------------------------------------------------
(* Reading.                                                                *)

LEMMA FlushType ==
  ASSUME NEW d \in ReadState
  PROVE  /\ Flush(d) \in ReadState
         /\ Flush(d).done = IF d.sb = <<>> THEN d.done ELSE Append(d.done, d.sb)
         /\ Flush(d).sb = <<>> /\ Flush(d).esc = d.esc
<1>1. d.done \in Seq(Text) /\ d.sb \in Text /\ d.esc \in BOOLEAN /\ <<>> \in Text
  BY DEF ReadState, Text
<1> DEFINE x == IF d.sb = <<>> THEN d.done ELSE Append(d.done, d.sb)
<1>2. Append(d.done, d.sb) \in Seq(Text)
  BY <1>1
<1>3. x \in Seq(Text)
  BY <1>1, <1>2
<1>4. Flush(d) = [d EXCEPT !.done = x, !.sb = <<>>]
  BY DEF Flush, ReadState
<1> HIDE DEF x
<1>5. /\ Flush(d) \in ReadState /\ Flush(d).done = x
      /\ Flush(d).sb = <<>> /\ Flush(d).esc = d.esc
  BY <1>1, <1>3, <1>4 DEF ReadState
<1> QED BY <1>5 DEF x

LEMMA SameState ==
  ASSUME NEW d \in ReadState, NEW e \in ReadState,
         d.done = e.done, d.sb = e.sb, d.esc = e.esc
  PROVE  d = e
BY DEF ReadState

LEMMA AppendLast ==
  \A s, t \in Text, c \in Char :
    s \o t \in Text /\ Append(t, c) \in Text /\ Append(s \o t, c) = s \o Append(t, c)
BY DEF Text

LEMMA ReadingType ==
  \A d \in ReadState, c \in Char : Reading(d, c) \in ReadState
<1> SUFFICES ASSUME NEW d \in ReadState, NEW c \in Char PROVE Reading(d, c) \in ReadState
  OBVIOUS
<1>1. Append(d.sb, c) \in Text
  BY DEF ReadState, Text
<1>2. [d EXCEPT !.sb = Append(d.sb, c), !.esc = FALSE] \in ReadState
  BY <1>1 DEF ReadState
<1>3. [d EXCEPT !.sb = Append(d.sb, c)] \in ReadState
  BY <1>1 DEF ReadState
<1>4. [d EXCEPT !.esc = TRUE] \in ReadState
  BY DEF ReadState
<1> QED BY <1>2, <1>3, <1>4, FlushType DEF Reading

LEMMA ReadSteps ==
  ASSUME NEW d \in ReadState
  PROVE  /\ ReadAll(d, <<>>) = d
         /\ \A s \in Text : ReadAll(d, s) \in ReadState
         /\ \A s \in Text, c \in Char : ReadAll(d, Append(s, c)) = Reading(ReadAll(d, s), c)
         /\ \A s \in Text, t \in Text : ReadAll(d, s \o t) = ReadAll(ReadAll(d, s), t)
<1>1. ReadAll(d, <<>>) = d
  <2>1. Reads!Fold(d, <<>>) = d
    BY ReadingType, Reads!FoldEmpty
  <2> QED BY <2>1, ReadsIsFold
<1>2. ASSUME NEW s \in Text PROVE ReadAll(d, s) \in ReadState
  <2>1. s \in Seq(Char)
    BY DEF Text
  <2>2. Reads!Fold(d, s) \in ReadState
    BY <2>1, ReadingType, Reads!FoldType
  <2> QED BY <2>2, ReadsIsFold
<1>3. ASSUME NEW s \in Text, NEW c \in Char
      PROVE  ReadAll(d, Append(s, c)) = Reading(ReadAll(d, s), c)
  <2>1. s \in Seq(Char)
    BY DEF Text
  <2>2. Reads!Fold(d, Append(s, c)) = Reading(Reads!Fold(d, s), c)
    BY <2>1, ReadingType, Reads!FoldAppend
  <2> QED BY <2>2, ReadsIsFold
<1>4. ASSUME NEW s \in Text, NEW t \in Text
      PROVE  ReadAll(d, s \o t) = ReadAll(ReadAll(d, s), t)
  <2>1. s \in Seq(Char) /\ t \in Seq(Char)
    BY DEF Text
  <2>2. Reads!Fold(d, s \o t) = Reads!Fold(Reads!Fold(d, s), t)
    BY <2>1, ReadingType, Reads!FoldConcat
  <2> QED BY <2>2, ReadsIsFold
<1> QED BY <1>1, <1>2, <1>3, <1>4

(* An escaped character is read as itself.                                 *)
LEMMA CharIsReadBack ==
  ASSUME NEW d \in ReadState, ~d.esc, NEW c \in Char
  PROVE  ReadAll(d, Escape(c)) = [d EXCEPT !.sb = Append(d.sb, c)]
<1>1. ASSUME NEW e \in ReadState, NEW x \in Char
      PROVE  ReadAll(e, <<x>>) = Reading(e, x)
  <2>1. <<>> \in Text /\ Append(<<>>, x) = <<x>>
    BY DEF Text
  <2>2. ReadAll(e, Append(<<>>, x)) = Reading(ReadAll(e, <<>>), x)
    BY <2>1, ReadSteps
  <2> QED BY <2>1, <2>2, ReadSteps
<1>2. CASE c \in {Semi, Esc}
  <2> DEFINE e == [d EXCEPT !.esc = TRUE]
  <2>1. e \in ReadState /\ e.esc
    BY DEF ReadState
  <2>2. Reading(d, Esc) = e
    BY HistoryAssumption DEF Reading
  <2>3. /\ Escape(c) = <<Esc>> \o <<c>>
        /\ <<Esc>> \in Text /\ <<c>> \in Text
    BY <1>2, Chars DEF Escape, Text
  <2>4. ReadAll(d, <<Esc>> \o <<c>>) = ReadAll(e, <<c>>)
    <3>1. ReadAll(d, <<Esc>>) = e
      BY <1>1, <2>2, Chars
    <3> HIDE DEF e
    <3> QED BY <2>3, <3>1, ReadSteps
  <2>5. Reading(e, c) = [e EXCEPT !.sb = Append(e.sb, c), !.esc = FALSE]
    BY <2>1 DEF Reading
  <2>6. [e EXCEPT !.sb = Append(e.sb, c), !.esc = FALSE] = [d EXCEPT !.sb = Append(d.sb, c)]
    BY DEF ReadState
  <2> HIDE DEF e
  <2> QED BY <1>1, <2>1, <2>3, <2>4, <2>5, <2>6
<1>3. CASE c \notin {Semi, Esc}
  BY <1>1, <1>3 DEF Escape, Reading
<1> QED BY <1>2, <1>3

LEMMA CommandIsReadBack ==
  ASSUME NEW d \in ReadState, ~d.esc, NEW cmd \in Text
  PROVE  ReadAll(d, Escaped(cmd)) = [d EXCEPT !.sb = d.sb \o cmd]
<1> DEFINE U == {s \in Text : ReadAll(d, Escaped(s)) = [d EXCEPT !.sb = d.sb \o s]}
<1>1. d.sb \in Text /\ d.done \in Seq(Text)
  BY DEF ReadState
<1>2. <<>> \in U
  <2>1. d.sb \o <<>> = d.sb /\ <<>> \in Text
    BY <1>1, ConcatEmptySeq DEF Text
  <2>2. [d EXCEPT !.sb = d.sb] = d
    BY DEF ReadState
  <2> QED BY <2>1, <2>2, EscapedSteps, ReadSteps
<1>3. ASSUME NEW s \in Text, s \in U, NEW c \in Char PROVE Append(s, c) \in U
  <2> DEFINE e == [d EXCEPT !.sb = d.sb \o s]
  <2>1. d.sb \o s \in Text /\ Append(s, c) \in Text
        /\ Append(d.sb \o s, c) = d.sb \o Append(s, c)
    BY <1>1, AppendLast
  <2>2. e \in ReadState /\ ~e.esc /\ e.sb = d.sb \o s
    BY <2>1 DEF ReadState
  <2>3. [e EXCEPT !.sb = Append(e.sb, c)] = [d EXCEPT !.sb = d.sb \o Append(s, c)]
    BY <2>1, <2>2 DEF ReadState
  <2> HIDE DEF e
  <2>4. ReadAll(d, Escaped(s)) = e
    BY <1>3 DEF e
  <2>5. /\ Escaped(Append(s, c)) = Escaped(s) \o Escape(c)
        /\ Escaped(s) \in Text /\ Escape(c) \in Text
    BY EscapedSteps, EscapeType
  <2>6. ReadAll(d, Escaped(s) \o Escape(c)) = ReadAll(e, Escape(c))
    BY <2>4, <2>5, ReadSteps
  <2>7. ReadAll(e, Escape(c)) = [e EXCEPT !.sb = Append(e.sb, c)]
    BY <2>2, CharIsReadBack
  <2> QED BY <2>1, <2>3, <2>5, <2>6, <2>7
<1>4. Text \subseteq U
  <2> HIDE DEF U
  <2> QED BY <1>2, <1>3, Escapes!SequencesBuilt DEF Text
<1> QED BY <1>4

Nothing == [done |-> <<>>, sb |-> <<>>, esc |-> FALSE]

(* All but the last command are done when the text of a history is read.   *)
ReadSoFar(l) ==
  IF l = <<>> THEN Nothing
  ELSE [done |-> SubSeq(l, 1, Len(l) - 1), sb |-> l[Len(l)], esc |-> FALSE]

Done(l) == [done |-> l, sb |-> <<>>, esc |-> FALSE]

LEMMA HistoryIsRead ==
  ASSUME NEW l \in Seq(Command)
  PROVE  /\ ReadAll(Nothing, Encode(l)) = ReadSoFar(l)
         /\ Flush(ReadSoFar(l)).done = l
<1> DEFINE U == {k \in Seq(Command) :
                   /\ ReadAll(Nothing, Encode(k)) = ReadSoFar(k)
                   /\ Encode(k) = <<>> <=> k = <<>>
                   /\ ReadSoFar(k) \in ReadState
                   /\ Flush(ReadSoFar(k)) = Done(k)}
<1>1. Nothing \in ReadState /\ ~Nothing.esc
  BY DEF Nothing, ReadState, Text
<1>2. <<>> \in U
  <2>1. Encode(<<>>) = <<>> /\ ReadSoFar(<<>>) = Nothing /\ <<>> \in Seq(Command)
    BY EncodeSteps DEF ReadSoFar
  <2>2. Flush(Nothing) = Done(<<>>)
    <3>1. Done(<<>>) = Nothing
      BY DEF Done, Nothing
    <3>2. Nothing.done = <<>> /\ Nothing.sb = <<>> /\ Nothing.esc = FALSE
      BY DEF Nothing
    <3> QED BY <1>1, <3>1, <3>2, FlushType, SameState
  <2> QED BY <1>1, <2>1, <2>2, ReadSteps
<1>3. ASSUME NEW k \in Seq(Command), k \in U, NEW cmd \in Command
      PROVE  Append(k, cmd) \in U
  <2> DEFINE n == Append(k, cmd)
             e == Done(k)
  <2>1. /\ n \in Seq(Command) /\ n # <<>> /\ Len(n) = Len(k) + 1 /\ n[Len(n)] = cmd
        /\ SubSeq(n, 1, Len(n) - 1) = k
    <3>1. n \in Seq(Command) /\ n # <<>> /\ Len(n) = Len(k) + 1 /\ n[Len(n)] = cmd
      OBVIOUS
    <3>2. SubSeq(n, 1, Len(n) - 1) = k
      <4>1. /\ SubSeq(n, 1, Len(k)) \in Seq(Command) /\ Len(SubSeq(n, 1, Len(k))) = Len(k)
            /\ \A i \in 1 .. Len(k) : SubSeq(n, 1, Len(k))[i] = k[i]
        OBVIOUS
      <4> HIDE DEF n
      <4>2. SubSeq(n, 1, Len(k)) = k
        BY <4>1, SeqEqual
      <4>3. Len(n) - 1 = Len(k)
        BY <3>1, LenProperties
      <4> QED BY <4>2, <4>3
    <3> QED BY <3>1, <3>2
  <2>2. k \in Seq(Text) /\ cmd \in Text /\ cmd # <<>>
    BY CommandsAreText, SeqMonotonic
  <2> HIDE DEF n
  <2>3. e \in ReadState /\ e.done = k /\ e.sb = <<>> /\ ~e.esc
    <3>1. <<>> \in Text
      BY DEF Text
    <3> QED BY <2>2, <3>1 DEF Done, ReadState
  <2> HIDE DEF e
  <2>4. ReadSoFar(n) = [done |-> k, sb |-> cmd, esc |-> FALSE]
    BY <2>1 DEF ReadSoFar
  <2>5. ReadSoFar(n) \in ReadState
    BY <2>2, <2>4 DEF ReadState
  <2>6. ReadSoFar(n) = [e EXCEPT !.sb = e.sb \o cmd]
    <3>1. e.sb \o cmd = cmd
      BY <2>2, <2>3, ConcatEmptySeq DEF Text
    <3>2. /\ [e EXCEPT !.sb = cmd] \in ReadState /\ [e EXCEPT !.sb = cmd].done = k
          /\ [e EXCEPT !.sb = cmd].sb = cmd /\ [e EXCEPT !.sb = cmd].esc = FALSE
      BY <2>2, <2>3 DEF ReadState
    <3>3. /\ ReadSoFar(n).done = k /\ ReadSoFar(n).sb = cmd /\ ReadSoFar(n).esc = FALSE
      BY <2>4
    <3>4. ReadSoFar(n) = [e EXCEPT !.sb = cmd]
      BY <2>5, <3>2, <3>3, SameState
    <3> QED BY <3>1, <3>4
  <2>7. Flush(ReadSoFar(n)) = Done(n)
    <3>1. /\ ReadSoFar(n).done = k /\ ReadSoFar(n).sb = cmd /\ ReadSoFar(n).esc = FALSE
      BY <2>4
    <3>2. /\ Flush(ReadSoFar(n)) \in ReadState /\ Flush(ReadSoFar(n)).done = n
          /\ Flush(ReadSoFar(n)).sb = <<>> /\ Flush(ReadSoFar(n)).esc = FALSE
      BY <2>2, <2>5, <3>1, FlushType DEF n
    <3>3. /\ Done(n) \in ReadState /\ Done(n).done = n
          /\ Done(n).sb = <<>> /\ Done(n).esc = FALSE
      <4>1. n \in Seq(Text)
        BY <2>2 DEF n
      <4>2. <<>> \in Text
        BY DEF Text
      <4> QED BY <4>1, <4>2 DEF Done, ReadState
    <3> QED BY <3>2, <3>3, SameState
  <2>8. ReadAll(e, Escaped(cmd)) = ReadSoFar(n)
    BY <2>2, <2>3, <2>6, CommandIsReadBack
  <2>9. Escaped(cmd) \in Text /\ Escaped(cmd) # <<>> /\ Encode(k) \in Text
    BY EscapedNotEmpty, EncodeSteps
  <2>10. Encode(n) = Joining(Encode(k), cmd)
    BY EncodeSteps DEF n
  <2>11. Encode(n) # <<>>
    <3>1. Append(Encode(k), Semi) \in Text
      BY <2>9, Chars DEF Text
    <3> QED BY <2>9, <2>10, <3>1 DEF Joining, Text
  <2>12. ASSUME k = <<>> PROVE ReadAll(Nothing, Encode(n)) = ReadSoFar(n)
    <3>1. e = Nothing
      BY <2>12 DEF Nothing, Done, e
    <3>2. Encode(n) = <<>> \o Escaped(cmd)
      BY <1>3, <2>10, <2>12 DEF Joining
    <3>3. Encode(n) = Escaped(cmd)
      BY <2>9, <3>2, ConcatEmptySeq DEF Text
    <3> QED BY <2>8, <3>1, <3>3
  <2>13. ASSUME k # <<>> PROVE ReadAll(Nothing, Encode(n)) = ReadSoFar(n)
    <3>1. Encode(n) = Append(Encode(k), Semi) \o Escaped(cmd) /\ Append(Encode(k), Semi) \in Text
      <4>1. Encode(n) = Append(Encode(k), Semi) \o Escaped(cmd)
        BY <1>3, <2>10, <2>13 DEF Joining
      <4>2. Append(Encode(k), Semi) \in Text
        BY <2>9, Chars DEF Text
      <4> QED BY <4>1, <4>2
    <3>2. ReadAll(Nothing, Append(Encode(k), Semi)) = Reading(ReadSoFar(k), Semi)
      BY <1>1, <1>3, <2>9, Chars, ReadSteps
    <3>3. Reading(ReadSoFar(k), Semi) = e
      BY <1>3, <2>13 DEF Reading, ReadSoFar, e
    <3>4. ReadAll(Nothing, Encode(n)) = ReadAll(e, Escaped(cmd))
      BY <1>1, <2>9, <3>1, <3>2, <3>3, ReadSteps
    <3> QED BY <2>8, <3>4
  <2>14. n \in U
    BY <2>1, <2>5, <2>7, <2>11, <2>12, <2>13
  <2> QED BY <2>14 DEF n
<1>4. Seq(Command) \subseteq U
  <2> HIDE DEF U
  <2> QED BY <1>2, <1>3, Escapes!SequencesBuilt
<1>5. l \in U
  BY <1>4
<1> QED BY <1>5 DEF Done

(* The stored string is read back as the history it was made from, for     *)
(* every alphabet and all commands: saveCommandHistoryList's escaping and  *)
(* getCommandHistoryList's splitting are each other's inverse.             *)
THEOREM ReadBack ==
  ASSUME NEW l \in Seq(Command) PROVE Decode(Encode(l)) = l
<1>1. ReadAll(Nothing, Encode(l)) = ReadSoFar(l) /\ Flush(ReadSoFar(l)).done = l
  BY HistoryIsRead
<1>2. ~ReadSoFar(l).esc
  BY DEF ReadSoFar, Nothing
<1> QED BY <1>1, <1>2 DEF Decode, ReadAll, Nothing

-----------------------------------------------------------------------------
(* Adding a command.                                                       *)

(* k keeps what it has of l in the order of l.                             *)
KeepsOrder(k, l) ==
  \A b, c \in ToSet(k) : Before(l, b, c) => Before(k, b, c)

LEMMA TrimProperties ==
  ASSUME NEW l \in Histories
  PROVE  LET t == Trim(l)
         IN  /\ t \in Seq(Command) /\ IsInjective(t) /\ Len(t) <= MaxHistory
             /\ ToSet(t) \subseteq ToSet(l) /\ KeepsOrder(t, l)
             /\ \A c \in ToSet(l) \ ToSet(t) : Len(l) > MaxHistory /\ c = Head(l)
<1>1. /\ l \in Seq(Command) /\ IsInjective(l) /\ Len(l) <= MaxHistory + 1
      /\ MaxHistory \in Nat /\ Len(l) \in Nat /\ DOMAIN l = 1 .. Len(l)
  BY HistoryAssumption, LenProperties DEF Histories
<1>2. CASE ~(Len(l) > MaxHistory)
  <2>1. Trim(l) = l
    BY <1>2 DEF Trim
  <2> QED BY <1>1, <1>2, <2>1 DEF KeepsOrder
<1>3. CASE Len(l) > MaxHistory
  <2> DEFINE t == Tail(l)
             n == Len(l)
  <2>1. Trim(l) = t
    BY <1>3 DEF Trim
  <2>2. /\ t \in Seq(Command) /\ Len(t) = n - 1 /\ DOMAIN t = 1 .. (n - 1)
        /\ \A i \in 1 .. (n - 1) : t[i] = l[i + 1] /\ i + 1 \in 1 .. n
    BY <1>1, <1>3
  <2> HIDE DEF t
  <2>3. n \in Nat \ {0} /\ Len(t) <= MaxHistory
    BY <1>1, <1>3, <2>2
  <2>4. IsInjective(t)
    <3> SUFFICES ASSUME NEW i \in 1 .. (n - 1), NEW j \in 1 .. (n - 1), t[i] = t[j]
                 PROVE  i = j
      BY <2>2 DEF IsInjective
    <3>1. l[i + 1] = l[j + 1] /\ i + 1 \in DOMAIN l /\ j + 1 \in DOMAIN l
      BY <1>1, <2>2
    <3>2. i + 1 = j + 1
      BY <1>1, <3>1 DEF IsInjective
    <3> QED BY <2>3, <3>2
  <2>5. ToSet(t) \subseteq ToSet(l)
    BY <1>1, <2>2 DEF ToSet
  <2>6. \A i \in 1 .. n : i # 1 => i - 1 \in 1 .. (n - 1) /\ t[i - 1] = l[i]
    <3> SUFFICES ASSUME NEW i \in 1 .. n, i # 1
                 PROVE  i - 1 \in 1 .. (n - 1) /\ t[i - 1] = l[i]
      OBVIOUS
    <3>1. i - 1 \in 1 .. (n - 1) /\ (i - 1) + 1 = i
      BY <2>3
    <3> QED BY <2>2, <3>1
  <2>7. \A c \in ToSet(l) \ ToSet(t) : c = Head(l)
    <3> SUFFICES ASSUME NEW i \in 1 .. n, l[i] \notin ToSet(t) PROVE l[i] = Head(l)
      BY <1>1 DEF ToSet
    <3>1. i = 1
      BY <2>2, <2>6 DEF ToSet
    <3> QED BY <1>1, <2>3, <3>1
  <2>8. KeepsOrder(t, l)
    <3> SUFFICES ASSUME NEW b \in ToSet(t), NEW c \in ToSet(t),
                        NEW i \in 1 .. n, NEW j \in 1 .. n, i < j, l[i] = b, l[j] = c
                 PROVE  Before(t, b, c)
      BY <1>1 DEF KeepsOrder, Before
    <3>1. PICK p \in 1 .. (n - 1) : t[p] = b
      BY <2>2 DEF ToSet
    <3>2. l[p + 1] = l[i] /\ p + 1 \in 1 .. n
      BY <2>2, <3>1
    <3>3. p + 1 = i
      BY <1>1, <3>2 DEF IsInjective
    <3>4. i # 1 /\ j # 1
      BY <2>3, <3>1, <3>3
    <3>5. /\ i - 1 \in 1 .. (n - 1) /\ t[i - 1] = b /\ j - 1 \in 1 .. (n - 1) /\ t[j - 1] = c
          /\ i - 1 < j - 1
      BY <2>3, <2>6, <3>4
    <3> QED BY <2>2, <3>5 DEF Before
  <2> QED BY <1>3, <2>1, <2>2, <2>3, <2>4, <2>5, <2>7, <2>8
<1> QED BY <1>2, <1>3

LEMMA WithoutProperties ==
  ASSUME NEW t \in Seq(Command), IsInjective(t), NEW cmd \in Command
  PROVE  LET w == Without(t, cmd)
         IN  /\ w \in Seq(Command) /\ IsInjective(w) /\ Len(w) <= Len(t)
             /\ ToSet(w) = ToSet(t) \ {cmd} /\ KeepsOrder(w, t)
<1> DEFINE n == Len(t)
<1>1. n \in Nat /\ DOMAIN t = 1 .. n /\ \A i \in 1 .. n : t[i] \in Command
  BY LenProperties
<1>2. CASE cmd \notin ToSet(t)
  <2>1. Without(t, cmd) = t
    BY <1>2 DEF Without
  <2> QED BY <1>1, <1>2, <2>1 DEF KeepsOrder
<1>3. CASE cmd \in ToSet(t)
  <2> DEFINE p == CHOOSE i \in DOMAIN t : t[i] = cmd /\ \A j \in 1 .. (i - 1) : t[j] # cmd
             w == RemoveAt(t, p)
  <2>1. \E i \in DOMAIN t : t[i] = cmd /\ \A j \in 1 .. (i - 1) : t[j] # cmd
    <3>1. PICK i \in 1 .. n : t[i] = cmd
      BY <1>1, <1>3 DEF ToSet
    <3>2. ASSUME NEW j \in 1 .. (i - 1), t[j] = cmd PROVE FALSE
      <4>1. j \in 1 .. n /\ j # i
        BY <1>1
      <4> QED BY <1>1, <3>1, <3>2, <4>1 DEF IsInjective
    <3> QED BY <1>1, <3>1, <3>2
  <2>2. p \in 1 .. n /\ t[p] = cmd
    BY <1>1, <2>1
  <2>3. Without(t, cmd) = w
    BY <1>3 DEF Without
  <2> HIDE DEF p
  <2>4. /\ SubSeq(t, 1, p - 1) \in Seq(Command) /\ Len(SubSeq(t, 1, p - 1)) = p - 1
        /\ SubSeq(t, p + 1, n) \in Seq(Command) /\ Len(SubSeq(t, p + 1, n)) = n - p
        /\ \A i \in 1 .. (p - 1) : SubSeq(t, 1, p - 1)[i] = t[i]
        /\ \A i \in 1 .. (n - p) : SubSeq(t, p + 1, n)[i] = t[i + p]
    <3>1. /\ SubSeq(t, 1, p - 1) \in Seq(Command) /\ Len(SubSeq(t, 1, p - 1)) = p - 1
          /\ \A i \in 1 .. (p - 1) : SubSeq(t, 1, p - 1)[i] = t[i]
      BY <1>1, <2>2
    <3>2. SubSeq(t, p + 1, n) \in Seq(Command) /\ Len(SubSeq(t, p + 1, n)) = n - p
      <4>1. p + 1 \in Int /\ n \in Int /\ \A i \in (p + 1) .. n : t[i] \in Command
        BY <1>1, <2>2
      <4>2. /\ SubSeq(t, p + 1, n) \in Seq(Command)
            /\ Len(SubSeq(t, p + 1, n)) = IF p + 1 <= n THEN n - (p + 1) + 1 ELSE 0
        BY <4>1, SubSeqProperties
      <4>3. ASSUME NEW k \in Nat, NEW j \in 1 .. k
            PROVE  (IF j + 1 <= k THEN k - (j + 1) + 1 ELSE 0) = k - j
        OBVIOUS
      <4>4. (IF p + 1 <= n THEN n - (p + 1) + 1 ELSE 0) = n - p
        BY <1>1, <2>2, <4>3
      <4> QED BY <4>2, <4>4
    <3>3. ASSUME NEW i \in 1 .. (n - p) PROVE SubSeq(t, p + 1, n)[i] = t[i + p]
      <4>1. i \in Nat /\ (p + 1) + i - 1 = i + p /\ i \in 1 .. (n - (p + 1) + 1)
        BY <1>1, <2>2
      <4>2. SubSeq(t, p + 1, n)[i] = t[(p + 1) + i - 1]
        BY <1>1, <2>2, <4>1
      <4> QED BY <4>1, <4>2
    <3> QED BY <3>1, <3>2, <3>3
  <2>5. /\ w \in Seq(Command) /\ Len(w) = n - 1 /\ DOMAIN w = 1 .. (n - 1)
        /\ \A i \in 1 .. (n - 1) : w[i] = IF i < p THEN t[i] ELSE t[i + 1]
    <3> DEFINE u == SubSeq(t, 1, p - 1)
               v == SubSeq(t, p + 1, n)
    <3>1. w = u \o v
      BY DEF RemoveAt
    <3>2. /\ u \in Seq(Command) /\ Len(u) = p - 1 /\ v \in Seq(Command) /\ Len(v) = n - p
      BY <2>4
    <3> HIDE DEF u, v, w
    <3>3. w \in Seq(Command) /\ Len(w) = n - 1
      <4>1. w \in Seq(Command) /\ Len(w) = Len(u) + Len(v)
        BY <3>1, <3>2, ConcatProperties
      <4> QED BY <1>1, <2>2, <3>2, <4>1
    <3>4. ASSUME NEW i \in 1 .. (n - 1) PROVE w[i] = IF i < p THEN t[i] ELSE t[i + 1]
      <4>1. CASE i < p
        <5>1. i \in 1 .. (p - 1)
          BY <2>2, <4>1
        <5>2. w[i] = u[i]
          BY <3>1, <3>2, <5>1
        <5> QED BY <2>4, <4>1, <5>1, <5>2 DEF u
      <4>2. CASE ~(i < p)
        <5>1. i - (p - 1) \in 1 .. (n - p) /\ (i - (p - 1)) + p = i + 1
          BY <1>1, <2>2, <4>2
        <5>2. w[i] = v[i - (p - 1)]
          BY <1>1, <2>2, <3>1, <3>2, <4>2
        <5>3. v[i - (p - 1)] = t[(i - (p - 1)) + p]
          BY <2>4, <5>1 DEF v
        <5> QED BY <4>2, <5>1, <5>2, <5>3
      <4> QED BY <4>1, <4>2
    <3> QED BY <3>3, <3>4, LenProperties
  <2> HIDE DEF w
  <2> DEFINE At(i) == IF i < p THEN i ELSE i + 1
  <2>6. \A i \in 1 .. (n - 1) : At(i) \in 1 .. n /\ At(i) # p /\ w[i] = t[At(i)]
    BY <1>1, <2>2, <2>5
  <2>7. \A i \in 1 .. n : i # p =>
          \E k \in 1 .. (n - 1) : At(k) = i
    <3> SUFFICES ASSUME NEW i \in 1 .. n, i # p PROVE \E k \in 1 .. (n - 1) : At(k) = i
      OBVIOUS
    <3>1. CASE i < p
      <4>1. i \in 1 .. (n - 1) /\ At(i) = i
        BY <1>1, <2>2, <3>1
      <4> QED BY <4>1
    <3>2. CASE ~(i < p)
      <4>1. i - 1 \in 1 .. (n - 1) /\ At(i - 1) = i
        BY <1>1, <2>2, <3>2
      <4> QED BY <4>1
    <3> QED BY <3>1, <3>2
  <2>8. \A i, j \in 1 .. (n - 1) : At(i) < At(j) <=> i < j
    BY <1>1, <2>2
  <2>9. \A i, j \in 1 .. (n - 1) : At(i) = At(j) => i = j
    BY <1>1, <2>2
  <2> HIDE DEF At
  <2>10. IsInjective(w)
    <3> SUFFICES ASSUME NEW i \in 1 .. (n - 1), NEW j \in 1 .. (n - 1), w[i] = w[j]
                 PROVE  i = j
      BY <2>5 DEF IsInjective
    <3>1. At(i) \in DOMAIN t /\ At(j) \in DOMAIN t /\ t[At(i)] = t[At(j)]
      BY <1>1, <2>6
    <3>2. At(i) = At(j)
      BY <3>1 DEF IsInjective
    <3> QED BY <2>9, <3>2
  <2>11. ToSet(w) = ToSet(t) \ {cmd}
    <3>1. ASSUME NEW i \in 1 .. (n - 1) PROVE w[i] \in ToSet(t) /\ w[i] # cmd
      BY <1>1, <2>2, <2>6 DEF ToSet, IsInjective
    <3>2. ASSUME NEW i \in 1 .. n, t[i] # cmd PROVE t[i] \in ToSet(w)
      <4>1. PICK k \in 1 .. (n - 1) : At(k) = i
        BY <2>2, <2>7, <3>2
      <4>2. w[k] = t[i]
        BY <2>6, <4>1
      <4> QED BY <2>5, <4>2 DEF ToSet
    <3> QED BY <1>1, <2>5, <3>1, <3>2 DEF ToSet
  <2>12. KeepsOrder(w, t)
    <3> SUFFICES ASSUME NEW b \in ToSet(w), NEW c \in ToSet(w),
                        NEW i \in 1 .. n, NEW j \in 1 .. n, i < j, t[i] = b, t[j] = c
                 PROVE  Before(w, b, c)
      BY <1>1 DEF KeepsOrder, Before
    <3>1. i # p /\ j # p
      BY <2>2, <2>11
    <3>2. PICK k \in 1 .. (n - 1) : At(k) = i
      BY <2>7, <3>1
    <3>3. PICK m \in 1 .. (n - 1) : At(m) = j
      BY <2>7, <3>1
    <3>4. k < m /\ w[k] = b /\ w[m] = c
      BY <2>6, <2>8, <3>2, <3>3
    <3> QED BY <2>5, <3>4 DEF Before
  <2>13. Len(w) <= n
    BY <1>1, <2>5
  <2> QED BY <2>3, <2>5, <2>10, <2>11, <2>12, <2>13
<1> QED BY <1>2, <1>3

(* What addCommand makes of a history.                                     *)
LEMMA AddedProperties ==
  ASSUME NEW l \in Histories, NEW cmd \in Command
  PROVE  LET a == Append(Without(Trim(l), cmd), cmd)
         IN  /\ a \in Histories /\ Last(a) = cmd
             /\ ToSet(a) \subseteq ToSet(l) \cup {cmd}
             /\ \A c \in ToSet(l) \ ToSet(a) : Len(l) > MaxHistory /\ c = Head(l)
             /\ \A b, c \in ToSet(a) \ {cmd} : Before(l, b, c) => Before(a, b, c)
<1> DEFINE t == Trim(l)
           w == Without(t, cmd)
           a == Append(w, cmd)
           n == Len(w)
<1>1. /\ t \in Seq(Command) /\ IsInjective(t) /\ Len(t) <= MaxHistory
      /\ ToSet(t) \subseteq ToSet(l) /\ KeepsOrder(t, l)
      /\ \A c \in ToSet(l) \ ToSet(t) : Len(l) > MaxHistory /\ c = Head(l)
  BY TrimProperties
<1> HIDE DEF t
<1>2. /\ w \in Seq(Command) /\ IsInjective(w) /\ Len(w) <= Len(t)
      /\ ToSet(w) = ToSet(t) \ {cmd} /\ KeepsOrder(w, t)
  BY <1>1, WithoutProperties
<1> HIDE DEF w
<1>3. /\ n \in Nat /\ DOMAIN w = 1 .. n /\ n <= MaxHistory /\ MaxHistory \in Nat
  BY <1>1, <1>2, HistoryAssumption, LenProperties
<1>4. /\ a \in Seq(Command) /\ Len(a) = n + 1 /\ a[n + 1] = cmd
      /\ \A i \in 1 .. n : a[i] = w[i]
  BY <1>2, <1>3
<1>5. DOMAIN a = 1 .. (n + 1)
  BY <1>4, LenProperties
<1> HIDE DEF a, n
<1>6. \A i \in 1 .. (n + 1) : i # n + 1 => i \in 1 .. n
  BY <1>3
<1>7. \A i \in 1 .. n : w[i] \in ToSet(w) /\ w[i] # cmd
  BY <1>2, <1>3 DEF ToSet
<1>8. IsInjective(a)
  <2> SUFFICES ASSUME NEW i \in 1 .. (n + 1), NEW j \in 1 .. (n + 1), a[i] = a[j]
               PROVE  i = j
    BY <1>5 DEF IsInjective
  <2>1. CASE i # n + 1 /\ j # n + 1
    <3>1. i \in DOMAIN w /\ j \in DOMAIN w /\ w[i] = w[j]
      BY <1>3, <1>4, <1>6, <2>1
    <3> QED BY <1>2, <3>1 DEF IsInjective
  <2> QED BY <1>4, <1>6, <1>7, <2>1
<1>9. ToSet(a) = ToSet(w) \cup {cmd}
  <2>1. n + 1 \in 1 .. (n + 1) /\ \A i \in 1 .. n : i \in 1 .. (n + 1)
    BY <1>3
  <2>2. \A i \in 1 .. (n + 1) : a[i] \in ToSet(w) \cup {cmd}
    BY <1>4, <1>6, <1>7
  <2>3. \A i \in 1 .. n : w[i] \in ToSet(a)
    BY <1>4, <1>5, <2>1 DEF ToSet
  <2>4. cmd \in ToSet(a)
    BY <1>4, <1>5, <2>1 DEF ToSet
  <2> QED BY <1>3, <1>5, <2>2, <2>3, <2>4 DEF ToSet
<1>10. a \in Histories /\ Last(a) = cmd
  BY <1>3, <1>4, <1>8 DEF Histories, Last
<1>11. ASSUME NEW b \in ToSet(a) \ {cmd}, NEW c \in ToSet(a) \ {cmd}, Before(l, b, c)
       PROVE  Before(a, b, c)
  <2>1. b \in ToSet(w) /\ c \in ToSet(w) /\ b \in ToSet(t) /\ c \in ToSet(t)
    BY <1>2, <1>9
  <2>2. Before(w, b, c)
    BY <1>1, <1>2, <1>11, <2>1 DEF KeepsOrder
  <2>3. PICK i \in 1 .. n, j \in 1 .. n : i < j /\ w[i] = b /\ w[j] = c
    BY <1>3, <2>2 DEF Before
  <2>4. i \in 1 .. (n + 1) /\ j \in 1 .. (n + 1) /\ a[i] = b /\ a[j] = c
    BY <1>3, <1>4, <2>3
  <2> QED BY <1>5, <2>3, <2>4 DEF Before
<1>12. ToSet(a) \subseteq ToSet(l) \cup {cmd}
  BY <1>1, <1>2, <1>9
<1>13. \A c \in ToSet(l) \ ToSet(a) : Len(l) > MaxHistory /\ c = Head(l)
  BY <1>1, <1>2, <1>9
<1> QED BY <1>10, <1>11, <1>12, <1>13 DEF a, w, t

-----------------------------------------------------------------------------
(* The stored string is always one a history can be read from.             *)
HistoryInv ==
  /\ list \in [Session -> Histories \cup {None}]
  /\ stored \in Text \cup {None}
  /\ stored # None => Decode(stored) \in Histories

LEMMA EmptyHistory ==
  /\ <<>> \in Histories /\ <<>> \in Text /\ Decode(<<>>) = <<>>
  /\ None \notin Histories /\ None \notin Text
<1>1. <<>> \in Seq(Command) /\ <<>> \in Text
  BY DEF Text
<1>2. Decode(<<>>) = <<>>
  BY <1>1, EncodeSteps, ReadBack
<1>3. <<>> \in Histories
  BY <1>1, HistoryAssumption DEF Histories, IsInjective
<1> QED BY <1>1, <1>2, <1>3, HistoryAssumption DEF Text

LEMMA AddStep ==
  ASSUME HistoryInv, NEW s \in Session, NEW cmd \in Command, AddCommand(s, cmd)
  PROVE  LET a == Append(Without(Trim(list[s]), cmd), cmd)
         IN  /\ list[s] \in Histories /\ a \in Histories /\ a \in Seq(Command)
             /\ list' = [list EXCEPT ![s] = a]
             /\ stored' = IF stored = None THEN None ELSE Encode(a)
<1>1. list[s] \in Histories
  BY DEF HistoryInv, AddCommand
<1> DEFINE a == Append(Without(Trim(list[s]), cmd), cmd)
<1>2. a \in Histories
  BY <1>1, AddedProperties
<1>3. list' = [list EXCEPT ![s] = a] /\ stored' = IF stored = None THEN None ELSE Encode(a)
  BY DEF AddCommand
<1> HIDE DEF a
<1>4. a \in Seq(Command)
  BY <1>2 DEF Histories
<1> QED BY <1>1, <1>2, <1>3, <1>4 DEF a

LEMMA HistoryInit == Init => HistoryInv
BY HistoryAssumption DEF Init, HistoryInv, Text

LEMMA HistoryStep == HistoryInv /\ [Next]_vars => HistoryInv'
<1> SUFFICES ASSUME HistoryInv, [Next]_vars PROVE HistoryInv'
  OBVIOUS
<1>1. ASSUME NEW s \in Session, Login(s) PROVE HistoryInv'
  BY <1>1, EmptyHistory DEF Login, HistoryInv
<1>2. ASSUME NEW s \in Session, Logout(s) PROVE HistoryInv'
  BY <1>2 DEF Logout, HistoryInv
<1>3. ASSUME NEW s \in Session, NEW cmd \in Command, AddCommand(s, cmd) PROVE HistoryInv'
  <2> DEFINE a == Append(Without(Trim(list[s]), cmd), cmd)
  <2>1. /\ a \in Histories /\ a \in Seq(Command)
        /\ list' = [list EXCEPT ![s] = a]
        /\ stored' = IF stored = None THEN None ELSE Encode(a)
    BY <1>3, AddStep
  <2> HIDE DEF a
  <2>2. Encode(a) \in Text /\ Decode(Encode(a)) = a
    BY <2>1, EncodeSteps, ReadBack
  <2> QED BY <2>1, <2>2 DEF HistoryInv
<1>4. ASSUME NEW allowed \in BOOLEAN, SetAllowed(allowed) PROVE HistoryInv'
  BY <1>4, EmptyHistory DEF SetAllowed, HistoryInv
<1>5. CASE UNCHANGED vars
  BY <1>5 DEF vars, HistoryInv
<1> QED BY <1>1, <1>2, <1>3, <1>4, <1>5 DEF Next

LEMMA HistoryInvariant == Spec => []HistoryInv
BY HistoryInit, HistoryStep, PTL DEF Spec

(* Every history of every session, whoever stored what it was read from,   *)
(* holds commands, no one twice, and at most one more than the limit.      *)
THEOREM TypeCorrect == Spec => []TypeOK
<1>1. HistoryInv => TypeOK
  BY DEF HistoryInv, TypeOK, Live, Text
<1> QED BY <1>1, HistoryInvariant, PTL

(* A session created next starts with the history of the session that ran  *)
(* a command last, whatever characters the commands contain.               *)
THEOREM StoredAsWritten == Spec => StoredIsReadBack
<1> DEFINE ReadsBack ==
             \A s \in Session : list'[s] # list[s] /\ list'[s] # None /\ stored' # None
               => Decode(stored') = list'[s]
<1>1. ASSUME HistoryInv, Next PROVE ReadsBack
  <2>1. ASSUME NEW s \in Session, Login(s) PROVE ReadsBack
    BY <1>1, <2>1 DEF Login, HistoryInv
  <2>2. ASSUME NEW s \in Session, Logout(s) PROVE ReadsBack
    BY <1>1, <2>2 DEF Logout, HistoryInv
  <2>3. ASSUME NEW s \in Session, NEW cmd \in Command, AddCommand(s, cmd) PROVE ReadsBack
    <3> DEFINE a == Append(Without(Trim(list[s]), cmd), cmd)
    <3>1. /\ a \in Seq(Command) /\ list' = [list EXCEPT ![s] = a]
          /\ stored' = IF stored = None THEN None ELSE Encode(a)
      BY <1>1, <2>3, AddStep
    <3> HIDE DEF a
    <3>2. Decode(Encode(a)) = a
      BY <3>1, ReadBack
    <3> QED BY <1>1, <3>1, <3>2 DEF HistoryInv
  <2>4. ASSUME NEW allowed \in BOOLEAN, SetAllowed(allowed) PROVE ReadsBack
    BY <2>4 DEF SetAllowed
  <2> QED BY <1>1, <2>1, <2>2, <2>3, <2>4 DEF Next
<1>2. HistoryInv /\ [Next]_vars => [ReadsBack]_vars
  BY <1>1
<1> QED BY <1>2, HistoryInvariant, PTL DEF Spec, StoredIsReadBack

(* A history forgets only its oldest command, and only when it is longer   *)
(* than the limit; the others keep their order, the new one goes last.     *)
THEOREM OnlyOldestForgotten == Spec => ForgetsOldest
<1> DEFINE Forgets ==
             \A s \in Live, cmd \in Command : AddCommand(s, cmd) =>
               LET old == list[s]
                   new == list'[s]
               IN  /\ Last(new) = cmd
                   /\ ToSet(new) \subseteq ToSet(old) \cup {cmd}
                   /\ \A c \in ToSet(old) \ ToSet(new) :
                        Len(old) > MaxHistory /\ c = Head(old)
                   /\ \A b, c \in ToSet(new) \ {cmd} :
                        Before(old, b, c) => Before(new, b, c)
<1>1. ASSUME HistoryInv PROVE Forgets
  <2> SUFFICES ASSUME NEW s \in Live, NEW cmd \in Command, AddCommand(s, cmd)
               PROVE  LET old == list[s]
                          new == list'[s]
                      IN  /\ Last(new) = cmd
                          /\ ToSet(new) \subseteq ToSet(old) \cup {cmd}
                          /\ \A c \in ToSet(old) \ ToSet(new) :
                               Len(old) > MaxHistory /\ c = Head(old)
                          /\ \A b, c \in ToSet(new) \ {cmd} :
                               Before(old, b, c) => Before(new, b, c)
    OBVIOUS
  <2> DEFINE a == Append(Without(Trim(list[s]), cmd), cmd)
  <2>1. s \in Session
    BY DEF Live
  <2>2. list[s] \in Histories /\ list' = [list EXCEPT ![s] = a]
    BY <1>1, <2>1, AddStep
  <2>3. /\ Last(a) = cmd
        /\ ToSet(a) \subseteq ToSet(list[s]) \cup {cmd}
        /\ \A c \in ToSet(list[s]) \ ToSet(a) : Len(list[s]) > MaxHistory /\ c = Head(list[s])
        /\ \A b, c \in ToSet(a) \ {cmd} : Before(list[s], b, c) => Before(a, b, c)
    BY <2>2, AddedProperties
  <2> HIDE DEF a
  <2>4. list'[s] = a
    BY <1>1, <2>1, <2>2 DEF HistoryInv
  <2> QED BY <2>3, <2>4
<1>2. HistoryInv /\ [Next]_vars => [Forgets]_vars
  BY <1>1
<1> QED BY <1>2, HistoryInvariant, PTL DEF Spec, ForgetsOldest
=============================================================================
