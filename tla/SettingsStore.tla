--------------------------- MODULE SettingsStore ---------------------------
(***************************************************************************)
(* The part of ServiceConfig that the properties file backs: the named     *)
(* connection settings with their order of use, the server options, the    *)
(* stored command history and the key of privileged connections.  Memory   *)
(* is filled from the file lazily and written back whole on every change.  *)
(* A failure to read or to write the file is swallowed: a read then gives  *)
(* an empty file, a write leaves the old file or a truncated one.          *)
(*                                                                         *)
(* The content of a setting (driver, url, user) is its name here.          *)
(***************************************************************************)
EXTENDS Integers, Sequences, SequencesExt

CONSTANTS
  Name,          \* names of connection settings
  Generic,       \* GENERIC: the settings of a new installation, in order
  Options,       \* values of webPort, webSSL and webAllowOthers together
  AllowsOthers,  \* the options whose allowOthers is true
  DefaultOptions,\* the options where the file has none
  History,       \* values of the stored command history
  Key,           \* keys of privileged connections
  InitFiles,     \* the properties files a first start may find
  MaxTicker,     \* bound of the ticker
  None           \* Java's null, or a property the file does not have

(* settings: the properties "0", "1", ... as a sequence.                   *)
File == [settings : Seq(Name), options : Options \cup {None},
         history : History \cup {None}]

ASSUME SettingsAssumption ==
  /\ Generic \in Seq(Name) /\ Generic # <<>> /\ IsInjective(Generic)
  /\ AllowsOthers \subseteq Options /\ DefaultOptions \in Options
  /\ None \notin Options \cup History \cup Key
  /\ MaxTicker \in Nat
  /\ InitFiles \subseteq File
  /\ \A f \in InitFiles : IsInjective(f.settings)

VARIABLES
  mem,      \* the ServiceConfig object, or Off
  file,     \* the properties file
  apart     \* history: what swallowed failures have set apart in the two

vars == <<mem, file, apart>>

NoFile == [settings |-> <<>>, options |-> None, history |-> None]
Off == [ticker |-> -1]   \* no process
Parts == {"settings", "options", "history"}

Running == mem # Off
Ticks == 0 .. MaxTicker
(* Bounds every step that moves the ticker.                                *)
Bounded(m) == m.ticker <= MaxTicker

-----------------------------------------------------------------------------
With(conns, n, tick) ==
  [x \in DOMAIN conns \cup {n} |-> IF x = n THEN tick ELSE conns[x]]

\* Mutant: the ticker stands still.
UpdateUnticked(m, n) == [m EXCEPT !.conns = With(@, n, m.ticker)]

(* ServiceConfig.updateSetting: the entry gets the next tick.              *)
Update(m, n) ==
  [m EXCEPT !.conns = With(@, n, m.ticker), !.ticker = @ + 1]

(* ConnectionInfo.compareTo sorts by the ticks: the most recently used     *)
(* first, so that an entry's place is the number of entries used after it. *)
UsedAfter(conns, n) == {m \in DOMAIN conns : conns[m] > conns[n]}
MostRecentFirst(conns) ==
  [i \in 1 .. Cardinality(DOMAIN conns) |->
     CHOOSE n \in DOMAIN conns : Cardinality(UsedAfter(conns, n)) = i - 1]

(* ServiceConfig.loadProperties: the file, or nothing when the read fails. *)
Readings == {file, NoFile}

(* The options that saveProperties finds in the old file.                  *)
OldOptions == {r.options : r \in Readings}

(* ServiceConfig.getSettings: an empty map is filled, from what was read   *)
(* or, if that has no properties at all, from GENERIC, each entry with its *)
(* tick.                                                                   *)
Loaded(m, read) ==
  IF m.conns # <<>> THEN m
  ELSE FoldLeft(Update, m, IF read = NoFile THEN Generic ELSE read.settings)

(* What memory takes from a failed read is not in the file.                *)
Misread(m, read) == IF m.conns = <<>> /\ read # file THEN {"settings"} ELSE {}

\* Mutant: entry i is written under key i.
KeyedForward(settings) == settings

(* ServiceConfig.saveProperties writes entry i of len under key len-i-1.   *)
Keyed(settings) ==
  [k \in DOMAIN settings |-> settings[Len(settings) - k + 1]]

Written(m, o, h) ==
  [settings |-> Keyed(MostRecentFirst(m.conns)), options |-> o, history |-> h]

(* Called with null it takes the options from the old file if it has them: *)
(* old is what it read of them.                                            *)
WrittenPlain(m, old) ==
  Written(m, IF old = None THEN m.options ELSE old, m.history)

(* The parts in which file and memory agree once that is written.          *)
PlainDone(old) == IF old = None THEN Parts ELSE {"settings", "history"}

(* What is left of a write cut short: the file is truncated first, and its *)
(* lines are sorted, the settings first and the options last.              *)
Torn(f) ==
  {[NoFile EXCEPT !.settings = s] : s \in Prefixes(f.settings)}
    \cup {[f EXCEPT !.options = None]}

(* m is the new memory and f what it writes.  The write succeeds, and the  *)
(* parts in done agree; or it fails before the file is opened, so that the *)
(* parts in kept may differ; or after it was truncated; or the process     *)
(* dies in it.  The failures are swallowed: the memory is the new one.     *)
Save(m, f, done, kept) ==
  /\ Bounded(m)
  /\ \/ mem' = m /\ file' = f /\ apart' = apart \ done
     \/ mem' = m /\ file' = file /\ apart' = apart \cup kept
     \/ mem' = m /\ file' \in Torn(f) /\ apart' = Parts
     \/ mem' = Off /\ file' \in Torn(f) /\ apart' = {}

-----------------------------------------------------------------------------
Init ==
  /\ mem = Off
  /\ file \in InitFiles
  /\ apart = {}

(* ServiceConfig.init: options and history come from the file, the         *)
(* settings later.  Arguments give no options here: the router factory     *)
(* passes none.                                                            *)
Start ==
  /\ ~Running
  /\ \E read \in Readings :
       /\ mem' = [conns |-> <<>>, ticker |-> 0, history |-> read.history,
                  options |-> IF read.options = None THEN DefaultOptions
                                                     ELSE read.options,
                  key |-> None]
       /\ apart' = IF read = file THEN {} ELSE {"options", "history"}
  /\ UNCHANGED file

Stop ==
  /\ Running
  /\ mem' = Off
  /\ apart' = {}
  /\ UNCHANGED file

(* OpsService.getSettings                                                  *)
GetSettings ==
  /\ Running
  /\ \E read \in Readings :
       /\ Bounded(Loaded(mem, read))
       /\ mem' = Loaded(mem, read) /\ apart' = apart \cup Misread(mem, read)
  /\ UNCHANGED file

\* Mutant: a setting that exists keeps its tick.
SettingSaveNew(n) ==
  /\ Running
  /\ LET m == IF n \in DOMAIN mem.conns THEN mem ELSE Update(mem, n)
     IN  \E old \in OldOptions :
           Save(m, WrittenPlain(m, old), PlainDone(old), {"settings"})

(* OpsService.settingSave: updateSetting, then saveProperties(null), whose *)
(* getSettings has nothing to load any more.                               *)
SettingSave(n) ==
  /\ Running
  /\ LET m == Update(mem, n)
     IN  \E old \in OldOptions :
           Save(m, WrittenPlain(m, old), PlainDone(old), {"settings"})

\* Mutant: the others are removed.
SettingKeep(n, old, read) ==
  /\ Running
  /\ LET kept == [mem EXCEPT !.conns = Restrict(@, DOMAIN @ \cap {n})]
         m == Loaded(kept, read)
     IN  /\ kept.conns # <<>> => read = file
         /\ Save(m, WrittenPlain(m, old), PlainDone(old), {"settings"})

(* OpsService.settingRemove: removeSetting, getSettings, and               *)
(* saveProperties(null).  An emptied map is filled again on the way, once  *)
(* or, from a file without settings, twice: read is what filled it.  old   *)
(* is what saveProperties read.                                            *)
SettingRemove(n, old, read) ==
  /\ Running
  /\ LET kept == [mem EXCEPT !.conns = Restrict(@, DOMAIN @ \ {n})]
         m == Loaded(kept, read)
     IN  /\ kept.conns # <<>> => read = file
         /\ Save(m, WrittenPlain(m, old), PlainDone(old), {"settings"})

\* Mutant: the key is kept.
SetOptionsOnly(m, o) == [m EXCEPT !.options = o]

(* ServiceConfig.setAllowOthers: opening the console drops the key.        *)
SetOptions(m, o) ==
  [m EXCEPT !.options = o, !.key = IF o \in AllowsOthers THEN None ELSE @]

\* Mutant: the settings are written without being loaded first.
AdminSaveUnloaded(o, read) ==
  /\ Running
  /\ read = file
  /\ LET m == SetOptions(mem, o)
     IN  Save(m, Written(m, o, None), Parts, {"options"})

(* AdminService.save: the new options are set and written; the properties  *)
(* it passes to saveProperties have no command history.  (A port that is   *)
(* no number is an exception before anything is set.)                      *)
AdminSave(o, read) ==
  /\ Running
  /\ mem.conns # <<>> => read = file
  /\ LET m == Loaded(SetOptions(mem, o), read)
     IN  Save(m, Written(m, o, None), Parts,
              {"options"} \cup Misread(mem, read))

(* ServiceSession.addCommand with saveCommandHistoryList, when the history *)
(* is allowed to be stored.                                                *)
HistorySave(x, old, read) ==
  /\ Running
  /\ mem.history # None
  /\ mem.conns # <<>> => read = file
  /\ LET m == Loaded([mem EXCEPT !.history = x], read)
     IN  Save(m, WrittenPlain(m, old), PlainDone(old),
              {"history"} \cup Misread(mem, read))

(* ServiceConfig.setKey, called by the program that embeds the console.    *)
SetKey(k) ==
  /\ Running
  /\ mem.options \notin AllowsOthers
  /\ mem' = [mem EXCEPT !.key = k]
  /\ UNCHANGED <<file, apart>>

Next ==
  \/ Start \/ Stop \/ GetSettings
  \/ \E n \in Name : SettingSave(n)
  \/ \E o \in Options, read \in Readings : AdminSave(o, read)
  \/ \E old \in OldOptions, read \in Readings :
       \/ \E n \in Name : SettingRemove(n, old, read)
       \/ \E x \in History : HistorySave(x, old, read)
  \/ \E k \in Key : SetKey(k)

Spec == Init /\ [][Next]_vars

-----------------------------------------------------------------------------
(* The types of the variables; no two entries carry the same tick.         *)
TypeOK ==
  /\ file \in File
  /\ apart \subseteq Parts
  /\ Running =>
       /\ DOMAIN mem.conns \subseteq Name
       /\ \A n \in DOMAIN mem.conns : mem.conns[n] \in 0 .. (mem.ticker - 1)
       /\ IsInjective(mem.conns)
       /\ mem.ticker \in Ticks
       /\ mem.history \in History \cup {None}
       /\ mem.options \in Options
       /\ mem.key \in Key \cup {None}

(* The file lists exactly the settings in memory, and in an order from     *)
(* which getSettings rebuilds the order of use after a restart, and has    *)
(* the options in force and the stored history; only a failed read or      *)
(* write nobody was told of, or defaults not written yet, make the two     *)
(* differ (saveProperties, also called with null).                         *)
FileMirrorsMemory ==
  Running =>
    /\ "settings" \notin apart /\ file # NoFile /\ mem.conns # <<>> =>
         file.settings = Reverse(MostRecentFirst(mem.conns))
    /\ "options" \notin apart /\ file.options # None =>
         file.options = mem.options
    /\ "history" \notin apart /\ file.history # None =>
         file.history = mem.history

(* The save reads the settings, and the read fails: GENERIC is written.    *)
SavesMisread ==
  /\ mem.conns = <<>>
  /\ \/ \E o \in Options : AdminSave(o, NoFile)
     \/ \E old \in OldOptions :
          \/ \E n \in Name : SettingRemove(n, old, NoFile)
          \/ \E x \in History : HistorySave(x, old, NoFile)

(* A setting leaves the file only by settingRemove; in a write that fails  *)
(* after the truncation, whether the process dies or goes on; after a      *)
(* failure to read or write that was swallowed, or in the save that failed *)
(* to read - or, the trap, by a settingSave after a restart before         *)
(* anything has read the settings.  The permission to store the history    *)
(* leaves it only by an admin save, which does not write it, in such a     *)
(* write, or after such a failure.                                         *)
LossesExplained ==
  [][/\ \A n \in ToSet(file.settings) \ ToSet(file'.settings) :
          \/ mem' = Off
          \/ "settings" \in apart \cup apart'
          \/ \E old \in OldOptions, read \in Readings :
               SettingRemove(n, old, read)
          \/ SavesMisread
          \/ mem.conns = <<>> /\ \E other \in Name : SettingSave(other)
     /\ file.history # None /\ file'.history = None =>
          \/ mem' = Off
          \/ "history" \in apart \cup apart'
          \/ \E o \in Options, read \in Readings : AdminSave(o, read)]_vars

(* The default that getSettings offers first is the setting saved last; on *)
(* a new installation the one GENERIC's comment names, "this will be       *)
(* listed on top for new installations": the last of the array.            *)
ListedOnTop ==
  [][Running /\ mem' # Off =>
       /\ \A n \in Name :
            SettingSave(n) => Head(MostRecentFirst(mem'.conns)) = n
       /\ mem.conns = <<>> /\ file = NoFile /\ GetSettings =>
            Head(MostRecentFirst(mem'.conns)) = Generic[Len(Generic)]]_vars

(* The key for privileged connections exists only while other hosts have   *)
(* no access, in whatever order keys are set and options saved.            *)
KeyOnlyForLocal == Running /\ mem.options \in AllowsOthers => mem.key = None

(* Seen through the order of use, the settings are a RecentSettings list,  *)
(* across every save, removal, failure and restart.                        *)
Recent ==
  INSTANCE RecentSettings WITH
    list <- IF Running THEN MostRecentFirst(mem.conns) ELSE <<>>
RecentListSpec == Recent!Spec

(* ServiceConfig.removeSetting: "Remove a connection information setting   *)
(* from the list": after settingRemove the list does not have it.  No read *)
(* of the file fails.                                                      *)
RemovedIsGone ==
  [][\A n \in Name :
       Running /\ mem' # Off /\ SettingRemove(n, file.options, file) =>
         n \notin DOMAIN mem'.conns]_vars
=============================================================================
