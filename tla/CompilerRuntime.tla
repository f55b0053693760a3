-------------------------- MODULE CompilerRuntime --------------------------
(***************************************************************************)
(* What the binary compiler reports, logs and is set to, three systems     *)
(* beside each other:                                                      *)
(*                                                                         *)
(* runtime/error_handler.c: a report goes into a history of bounded size   *)
(* and to the registered handlers.                                         *)
(*                                                                         *)
(* runtime/logger.c: a log with a file that is rotated when it is too      *)
(* long.  Lines are numbers in the order they are written; a backup is     *)
(* named for the second it is made in.                                     *)
(*                                                                         *)
(* runtime/config_manager.c: a list of keys with typed values; a string    *)
(* value is a copy the item owns.  Values of all types are numbers; a      *)
(* string's number names its copy.                                         *)
(***************************************************************************)
EXTENDS Integers, Sequences, FiniteSets, SequencesExt

CONSTANTS Handlers,     \* sizes error_system_init is called with
          Histories,
          MaxReports,   \* bound: errors reported
          MaxFileSize,  \* config.max_file_size, in lines; 0 is no limit
          MaxLines,     \* bound: lines accepted
          MaxClock,     \* bound: seconds that pass
          Keys,         \* settings, with the numbers and texts given to them
          Numbers, Texts,
          MaxSets,      \* bound: strings set
          None

(* Error reports. *)

\* ErrorLevel
ErrorLevels == 0..4
ERROR_LEVEL_WARNING == 2
ERROR_LEVEL_ERROR == 3
ERROR_LEVEL_FATAL == 4

VARIABLES
  handlers,       \* min_level of each slot, or None where it is not enabled
  error_history,  \* the errors kept, by slot (0 based)
  history_count,
  running,        \* FALSE after exit()
  reported,       \* levels reported since the history was last empty
  called          \* slots whose callbacks the last report called, in order

evars == <<handlers, error_history, history_count, running, reported, called>>

max_handlers == Len(handlers)
max_history == Len(error_history)
error_initialized == handlers # <<>>

ErrorInit == /\ handlers = <<>> /\ error_history = <<>> /\ history_count = 0
             /\ running = TRUE /\ reported = <<>> /\ called = <<>>

\* Mutant: a history that is not full is written over too.
SlotFirst == 1

\* add_to_history: once it is full the count stays at max_history, so that
\* every later error goes to slot 0.
Slot == (history_count % max_history) + 1

\* error_report: to the history, then to each handler whose level it reaches,
\* in the order of their slots; a fatal error ends the process.
error_report(level) ==
  /\ Len(reported) < MaxReports
  /\ reported' = Append(reported, level)
  /\ IF error_initialized
     THEN /\ error_history' = [error_history EXCEPT ![Slot] = <<level, Len(reported) + 1>>]
          /\ history_count' = IF history_count < max_history THEN history_count + 1 ELSE history_count
          /\ called' = SelectSeq([i \in 1..max_handlers |-> i],
                            LAMBDA i : handlers[i] # None /\ level >= handlers[i])
     ELSE UNCHANGED <<error_history, history_count>> /\ called' = <<>>
  /\ running' = (level # ERROR_LEVEL_FATAL)

\* error_system_init registers the default handler for warnings.
error_system_init(slots, size) ==
  IF error_initialized THEN error_report(ERROR_LEVEL_WARNING) /\ UNCHANGED handlers
  ELSE /\ handlers' = [i \in 1..slots |-> IF i = 1 THEN ERROR_LEVEL_WARNING ELSE None]
       /\ error_history' = [i \in 1..size |-> <<>>]
       /\ history_count' = 0 /\ reported' = <<>> /\ called' = <<>>
       /\ UNCHANGED running

error_system_cleanup ==
  /\ error_initialized
  /\ handlers' = <<>> /\ error_history' = <<>> /\ history_count' = 0
  /\ reported' = <<>> /\ called' = <<>> /\ UNCHANGED running

Unused == {i \in 1..max_handlers : handlers[i] = None}

\* error_register_handler: the first slot that is not enabled; when there is
\* none it reports that.
error_register_handler(min_level) ==
  /\ error_initialized
  /\ IF Unused = {} THEN error_report(ERROR_LEVEL_ERROR) /\ UNCHANGED handlers
     ELSE LET i == CHOOSE i \in Unused : \A j \in Unused : i <= j IN
          /\ handlers' = [handlers EXCEPT ![i] = min_level]
          /\ UNCHANGED <<error_history, history_count, running, reported, called>>

\* error_unregister_handler; a number out of range is reported.
error_unregister_handler(id) ==
  /\ error_initialized
  /\ IF id \in 1..max_handlers
     THEN /\ handlers' = [handlers EXCEPT ![id] = None]
          /\ UNCHANGED <<error_history, history_count, running, reported, called>>
     ELSE error_report(ERROR_LEVEL_ERROR) /\ UNCHANGED handlers

error_clear_history ==
  /\ error_initialized
  /\ history_count' = 0 /\ reported' = <<>>
  /\ UNCHANGED <<handlers, error_history, running, called>>

Kept == {error_history[i] : i \in 1..history_count}

\* error_get_last
error_get_last == IF history_count = 0 THEN None
                  ELSE error_history[((history_count - 1) % max_history) + 1]

error_has_errors(min_level) == \E e \in Kept : e[1] >= min_level

ErrorNext ==
  /\ running
  /\ \/ \E s \in Handlers, h \in Histories : error_system_init(s, h)
     \/ error_system_cleanup
     \/ error_clear_history
     \/ \E l \in ErrorLevels : error_report(l) /\ UNCHANGED handlers
     \/ \E l \in {0, ERROR_LEVEL_ERROR} : error_register_handler(l)
     \/ \E i \in 0..3 : error_unregister_handler(i)
----------------------------------------
\* What the history answers: as long as it has not been full, every error since
\* it was empty and the last of them; after that always the last one too, in slot
\* 0, among errors older than any bound, and error_get_last an old one.
HistoryExact == error_initialized =>
  LET n == Len(reported) IN
  /\ history_count = (IF n < max_history THEN n ELSE max_history)
  /\ n <= max_history =>
       /\ \A i \in 1..n : error_history[i] = <<reported[i], i>>
       /\ n > 0 => error_get_last = <<reported[n], n>>
       /\ \A l \in ErrorLevels : error_has_errors(l) <=> \E i \in 1..n : reported[i] >= l
  /\ n > max_history => <<reported[n], n>> \in Kept
----------------------------------------
(* The log. *)

\* LogLevel, without the ones that differ in wording only
LOG_LEVEL_INFO == 2
LOG_LEVEL_ERROR == 4
LOG_LEVEL_FATAL == 5
LOG_LEVEL_OFF == 6
LogLevels == {LOG_LEVEL_INFO, LOG_LEVEL_ERROR, LOG_LEVEL_FATAL, LOG_LEVEL_OFF}

VARIABLES
  initialized, min_level,
  log_file,     \* None, "open", or "closed" for a FILE that has been closed
  log,          \* the lines in the file, or None when there is no file
  backups,      \* backups[t]: the lines of the backup made in second t, or None
  clock,
  accepted,     \* lines so far
  overwritten,  \* lines in backups that a later backup has replaced
  misused       \* a closed FILE was written to

lvars == <<initialized, min_level, log_file, log, backups, clock, accepted, overwritten, misused>>

files == <<log_file, log, backups, accepted, overwritten, misused>>

LogInit == /\ initialized = FALSE /\ min_level = LOG_LEVEL_INFO /\ log_file = None /\ log = None
           /\ backups = [t \in 0..MaxClock |-> None] /\ clock = 0
           /\ accepted = 0 /\ overwritten = {} /\ misused = FALSE

State == [log_file |-> log_file, log |-> log, backups |-> backups,
          accepted |-> accepted, overwritten |-> overwritten, misused |-> misused]

Becomes(s) == /\ log_file' = s.log_file /\ log' = s.log /\ backups' = s.backups
              /\ accepted' = s.accepted /\ overwritten' = s.overwritten /\ misused' = s.misused

\* fprintf to log_file
Written(s) ==
  LET n == s.accepted + 1 IN
  IF s.log_file = "closed" THEN [s EXCEPT !.accepted = n, !.misused = TRUE]
  ELSE IF s.log_file = None THEN s
  ELSE [s EXCEPT !.accepted = n, !.log = Append(@, n)]

\* logger_rotate_file: closes the file, renames it over any backup of the same
\* second, opens a new one and says so in it, if its own level is not off.
Renamed(s) ==
  [s EXCEPT !.overwritten = @ \cup (IF s.backups[clock] = None THEN {} ELSE ToSet(s.backups[clock])),
            !.backups[clock] = s.log, !.log = None]

\* Mutant: a file that is not renamed first is cut off.
logger_rotate_file_truncates(s, renames, reopens) ==
  IF ~renames THEN [s EXCEPT !.log_file = "closed"]
  ELSE [s EXCEPT !.log = <<>>]

logger_rotate_file(s, renames, reopens) ==
  IF ~renames THEN [s EXCEPT !.log_file = "closed"]
  ELSE IF ~reopens THEN [Renamed(s) EXCEPT !.log_file = None]
  ELSE LET new == [Renamed(s) EXCEPT !.log_file = "open", !.log = <<>>] IN
       IF LOG_LEVEL_INFO < min_level THEN new ELSE Written(new)

\* The line that reports a rotation fits in an empty file (MaxFileSize >= 1):
\* otherwise rotation would call itself until the C stack is full.
TooLong(s) == MaxFileSize > 0 /\ s.log_file = "open" /\ Len(s.log) > MaxFileSize

\* logger_log
Logged(s, level, min, renames, reopens) ==
  IF level < min THEN s
  ELSE LET w == Written(s) IN
       IF TooLong(w) THEN logger_rotate_file(w, renames, reopens) ELSE w

logger_log(level, renames, reopens) ==
  /\ initialized
  /\ Becomes(Logged(State, level, min_level, renames, reopens))
  /\ UNCHANGED <<initialized, min_level, clock>>

\* logger_init: appends to a file that exists; when it cannot be opened the
\* logger stays off.
logger_init(level, opens, renames, reopens) ==
  /\ ~initialized
  /\ IF ~opens THEN log_file' = None /\ UNCHANGED <<initialized, min_level, log, backups, accepted, overwritten, misused>>
     ELSE LET s == [State EXCEPT !.log_file = "open", !.log = IF @ = None THEN <<>> ELSE @] IN
          /\ initialized' = TRUE /\ min_level' = level
          /\ Becomes(Logged(s, LOG_LEVEL_INFO, level, renames, reopens))
  /\ UNCHANGED clock

\* logger_cleanup
logger_cleanup(renames, reopens) ==
  /\ initialized
  /\ LET s == Logged(State, LOG_LEVEL_INFO, min_level, renames, reopens) IN
     Becomes([s EXCEPT !.log_file = None, !.misused = @ \/ s.log_file = "closed"])
  /\ initialized' = FALSE
  /\ UNCHANGED <<min_level, clock>>

\* logger_set_level: the change is logged at its own new level.
logger_set_level(level, renames, reopens) ==
  /\ initialized
  /\ min_level' = level
  /\ Becomes(Logged(State, LOG_LEVEL_INFO, level, renames, reopens))
  /\ UNCHANGED <<initialized, clock>>

\* A second passes.
Tick == /\ clock < MaxClock
        /\ clock' = clock + 1
        /\ UNCHANGED <<initialized, min_level, log_file, log, backups, accepted, overwritten, misused>>

LogNext ==
  /\ accepted < MaxLines
  /\ \/ Tick
     \/ \E renames, reopens \in BOOLEAN :
          \/ \E l \in LogLevels : logger_init(l, TRUE, renames, reopens) \/ logger_set_level(l, renames, reopens)
          \/ \E l \in LogLevels \ {LOG_LEVEL_OFF} : logger_log(l, renames, reopens)
          \/ logger_cleanup(renames, reopens)
          \/ logger_init(LOG_LEVEL_INFO, FALSE, renames, reopens)
----------------------------------------
Lines(s) == IF s = None THEN <<>> ELSE s
InBackups == FlattenSeq([i \in 1..MaxClock + 1 |-> Lines(backups[i - 1])])

\* Every line that was accepted is in the log or a backup, once and in order of
\* the backups' names, through rotations and restarts of the logger; lost are
\* only the lines of a backup whose name was used twice in one second, and
\* those written after a rename has failed, to a FILE that is closed.
LinesKept ==
  LET s == InBackups \o Lines(log) IN
  /\ \A i, j \in DOMAIN s : i < j => s[i] < s[j]
  /\ ~misused => ToSet(s) \cup overwritten = 1..accepted

\* As long as no rename has failed no file grows past the limit by more than the
\* line that filled it.
FilesBounded == MaxFileSize > 0 /\ log_file # "closed" /\ ~misused =>
  /\ Len(Lines(log)) <= MaxFileSize
  /\ \A t \in 0..MaxClock : Len(Lines(backups[t])) <= MaxFileSize + 1
----------------------------------------
(* The settings. *)

VARIABLES
  items,       \* the list, newest key first, or None before initialization
  copies,      \* string values allocated and not freed
  leaked,      \* those among them that no item has any more
  settings,    \* what was set last under each key, or None
  sets         \* strings copied so far

cvars == <<items, copies, leaked, settings, sets>>

ConfigInit == items = None /\ copies = {} /\ leaked = {} /\ settings = [k \in Keys |-> None] /\ sets = 0

config_manager_init ==
  /\ items = None
  /\ items' = <<>>
  /\ UNCHANGED <<copies, leaked, settings, sets>>

Owned(list) == {list[i].copy : i \in {i \in DOMAIN list : list[i].type = "string"}}

\* config_manager_cleanup, with free_config_item for each.
config_manager_cleanup ==
  /\ items # None
  /\ copies' = copies \ Owned(items)
  /\ items' = None /\ settings' = [k \in Keys |-> None]
  /\ UNCHANGED <<leaked, sets>>

find_config_item(key) == SelectInSeq(items, LAMBDA i : i.key = key)

\* A found item is changed where it is, a new one goes to the front.
Stored(item) ==
  LET n == find_config_item(item.key) IN
  IF n = 0 THEN <<item>> \o items ELSE [items EXCEPT ![n] = item]

\* config_set_bool, config_set_int and config_set_float: a string the item had
\* before is not freed.
SetNumber(type, key, value) ==
  /\ items # None
  /\ LET n == find_config_item(key) IN
     leaked' = IF n # 0 /\ items[n].type = "string" THEN leaked \cup {items[n].copy} ELSE leaked
  /\ items' = Stored([key |-> key, type |-> type, value |-> value, copy |-> 0])
  /\ settings' = [settings EXCEPT ![key] = <<type, value>>]
  /\ UNCHANGED <<copies, sets>>

\* Mutant: the value that is replaced is freed only when the item is new.
config_set_string_keeps(key, value) ==
  /\ items # None /\ sets < MaxSets
  /\ items' = Stored([key |-> key, type |-> "string", value |-> value, copy |-> sets + 1])
  /\ copies' = copies \cup {sets + 1}
  /\ settings' = [settings EXCEPT ![key] = <<"string", value>>]
  /\ sets' = sets + 1 /\ UNCHANGED leaked

\* config_set_string
config_set_string(key, value) ==
  LET n == find_config_item(key) IN
  /\ items # None /\ sets < MaxSets
  /\ items' = Stored([key |-> key, type |-> "string", value |-> value, copy |-> sets + 1])
  /\ copies' = (IF n # 0 /\ items[n].type = "string" THEN copies \ {items[n].copy} ELSE copies)
                 \cup {sets + 1}
  /\ settings' = [settings EXCEPT ![key] = <<"string", value>>]
  /\ sets' = sets + 1 /\ UNCHANGED leaked

\* config_get_bool and the others: a value of another type is as none.
Get(type, key, default) ==
  LET n == IF items = None THEN 0 ELSE find_config_item(key) IN
  IF n = 0 THEN default ELSE IF items[n].type # type THEN default ELSE items[n].value

config_has_key(key) == items # None /\ find_config_item(key) # 0

\* config_remove_key: the first item with the key.
config_remove_key(key) ==
  /\ config_has_key(key)
  /\ LET n == find_config_item(key) IN
     /\ items' = RemoveAt(items, n)
     /\ copies' = copies \ Owned(<<items[n]>>)
  /\ settings' = [settings EXCEPT ![key] = None]
  /\ UNCHANGED <<leaked, sets>>

ConfigNext ==
  \/ config_manager_init \/ config_manager_cleanup
  \/ \E t \in {"bool", "int", "float"}, k \in Keys, v \in Numbers : SetNumber(t, k, v)
  \/ \E k \in Keys, v \in Texts : config_set_string(k, v)
  \/ \E k \in Keys : config_remove_key(k)
----------------------------------------
\* The list answers as a table would: for each key and type the last value set
\* under it with that type, if no other type has been set since.
TableExact == \A k \in Keys :
  /\ config_has_key(k) <=> settings[k] # None
  /\ \A t \in {"bool", "int", "float", "string"} :
       Get(t, k, -1) = IF settings[k] # None /\ settings[k][1] = t THEN settings[k][2] ELSE -1

\* A copy of a string lives exactly as long as its item has it, except that one
\* whose item is given a number stays for ever; no key is listed twice.
CopiesOwned == items # None =>
  /\ copies = Owned(items) \cup leaked
  /\ \A i, j \in DOMAIN items : items[i].key = items[j].key => i = j
=============================================================================
