----------------------------- MODULE ConfigFiles -----------------------------
(***************************************************************************)
(* The files of the daemon's settings: freeze.conf (core/config_store.h),   *)
(* the white and the black list (core/app_list.h) and the mark that asks    *)
(* for a restart (util/reboot_flag.h), as the workers of api/http_server.h  *)
(* read and write them, across restarts.                                    *)
(*                                                                          *)
(* A file is what reading it gives.  util/file_util.h empties it when it    *)
(* opens it and fills it when it closes it; an empty freeze.conf reads as   *)
(* the defaults.  A text written over a longer one leaves the tail of its   *)
(* last line, which parse ignores: left out.                                *)
(***************************************************************************)
EXTENDS Naturals, FiniteSets

CONSTANTS
  Workers,   \* threads of the server's pool
  Savers,    \* BOUND: those that serve a POST of /api/config
  Pkgs,
  Keys,      \* of freeze.conf
  Posted,    \* those POST /api/config takes
  Seconds,   \* those it takes in seconds, and freeze.conf in milliseconds
  Values,    \* BOUND: values of a key; a switch has two of them
  Defaults,  \* struct Config
  Faults,    \* what may go wrong: "open" (of freeze.conf), "flush", "crash"
  ByHand,    \* when freeze.conf is edited by hand: while up is TRUE, FALSE
  NoOne, NoEdit

ASSUME WorkersAssumption == NoOne \notin Workers /\ Savers \subseteq Workers
ASSUME KeysAssumption ==
  /\ Seconds \subseteq Posted /\ Posted \subseteq Keys
  /\ Values \subseteq Nat /\ Defaults \in [Keys -> Values]
ASSUME FaultsAssumption == Faults \subseteq {"open", "flush", "crash"}
ASSUME ByHandAssumption == ByHand \subseteq BOOLEAN

Lists == {"white", "black"}
Edits == [list : Lists, pkg : Pkgs, add : BOOLEAN]
ASSUME EditsAssumption == NoEdit \notin Edits

VARIABLES
  up,        \* the daemon is running and its server started
  lists,     \* user_whitelist_, sys_blacklist_
  listFile,  \* user_whitelist.txt, system_blacklist.txt
  mutex,     \* AppList's mutex_: its holder, or NoOne
  flag,      \* needs_reboot.txt names the black list
  config,    \* config_
  confFile,  \* freeze.conf, as load() would parse it
  pc,        \* each worker: "idle", "write", "mark", "got", "opened", "flushed"
  edit,      \* the edit of a list it is making
  target,    \* modify_set's target
  body,      \* the settings its request names
  cfg,       \* handle_config_set's cfg
  atStart,   \* history: the black list the daemon started with
  wanted,    \* history: the settings asked for last, through the API or by hand
  inFile,    \* history: keys edited by hand that no load() has read
  cut        \* history: a write of freeze.conf was cut short

listVars   == <<lists, listFile, mutex, flag, edit, target, atStart>>
configVars == <<config, confFile, body, cfg, wanted, inFile, cut>>
vars == <<up, lists, listFile, mutex, flag, config, confFile, pc, edit, target,
          body, cfg, atStart, wanted, inFile, cut>>

Settings == [Keys -> Values]
Bodies == UNION {[named -> Values] : named \in SUBSET Posted}

TypeOK ==
  /\ up \in BOOLEAN /\ flag \in BOOLEAN /\ cut \in BOOLEAN
  /\ lists \in [Lists -> SUBSET Pkgs] /\ listFile \in [Lists -> SUBSET Pkgs]
  /\ mutex \in Workers \cup {NoOne}
  /\ config \in Settings /\ confFile \in Settings /\ wanted \in Settings
  /\ pc \in [Workers -> {"idle", "write", "mark", "got", "opened", "flushed"}]
  /\ edit \in [Workers -> Edits \cup {NoEdit}]
  /\ target \in [Workers -> SUBSET Pkgs]
  /\ body \in [Workers -> Bodies] /\ cfg \in [Workers -> Settings]
  /\ atStart \subseteq Pkgs /\ inFile \subseteq Keys

NoLists == [l \in Lists |-> {}]
NoBody == [k \in {} |-> 0]

Init ==
  /\ up = TRUE /\ flag = FALSE /\ mutex = NoOne /\ cut = FALSE
  /\ lists = NoLists /\ listFile = NoLists /\ atStart = {}
  /\ config = Defaults /\ confFile = Defaults /\ wanted = Defaults
  /\ pc = [w \in Workers |-> "idle"]
  /\ edit = [w \in Workers |-> NoEdit] /\ target = [w \in Workers |-> {}]
  /\ body = [w \in Workers |-> NoBody] /\ cfg = [w \in Workers |-> Defaults]
  /\ inFile = {}

Quiet == \A w \in Workers : pc[w] = "idle"

Edited(set, e) == IF e.add THEN set \cup {e.pkg} ELSE set \ {e.pkg}

\* Settings with the named ones replaced.
Replaced(settings, named) ==
  [k \in Keys |-> IF k \in DOMAIN named THEN named[k] ELSE settings[k]]

\* A delay that goes through /api/config: whole seconds.
InSeconds(ms) == (ms \div 1000) * 1000

\* BOUND: Values holds what rounding makes of them.
ASSUME RoundingAssumption == \A v \in Values : InSeconds(v) \in Values

(***************************************************************************)
(* POST /api/whitelist/..., /api/blacklist/...                              *)
(***************************************************************************)
\* Mutant of EditOpen: the mutex is taken after the set was copied.
EditOpenUnlocked(w, e) ==
  /\ up /\ pc[w] = "idle"
  /\ listFile' = [listFile EXCEPT ![e.list] = {}]
  /\ mutex' = w
  /\ edit' = [edit EXCEPT ![w] = e]
  /\ target' = [target EXCEPT ![w] = Edited(lists[e.list], e)]
  /\ pc' = [pc EXCEPT ![w] = "write"]
  /\ UNCHANGED <<up, lists, flag, atStart, configVars>>

\* modify_set takes the mutex, copies the set, edits the copy and opens the file,
\* which empties it.  When it does not open, the answer is 500 and nothing changes.
EditOpen(w, e) ==
  /\ up /\ pc[w] = "idle" /\ mutex = NoOne
  /\ listFile' = [listFile EXCEPT ![e.list] = {}]
  /\ mutex' = w
  /\ edit' = [edit EXCEPT ![w] = e]
  /\ target' = [target EXCEPT ![w] = Edited(lists[e.list], e)]
  /\ pc' = [pc EXCEPT ![w] = "write"]
  /\ UNCHANGED <<up, lists, flag, atStart, configVars>>

\* write_lines: the lines reach the file when it is closed, after good() was asked;
\* when they do not, nobody is told.  modify_set then replaces the set.
EditClose(w) ==
  /\ pc[w] = "write"
  /\ \/ listFile' = [listFile EXCEPT ![edit[w].list] = target[w]]
     \/ "flush" \in Faults /\ UNCHANGED listFile
  /\ lists' = [lists EXCEPT ![edit[w].list] = target[w]]
  /\ mutex' = NoOne
  /\ pc' = [pc EXCEPT ![w] = IF edit[w].list = "black" THEN "mark" ELSE "idle"]
  /\ edit' = [edit EXCEPT ![w] = NoEdit]
  /\ target' = [target EXCEPT ![w] = {}]
  /\ UNCHANGED <<up, flag, atStart, configVars>>

\* Mutant of Mark: the category is marked for packages added only.
MarkAdded(w) ==
  /\ pc[w] = "mark"
  /\ flag' = (flag \/ lists["black"] \ atStart # {})
  /\ pc' = [pc EXCEPT ![w] = "idle"]
  /\ UNCHANGED <<up, lists, listFile, mutex, edit, target, atStart, configVars>>

\* RebootFlag::mark, which has a mutex of its own.
Mark(w) ==
  /\ pc[w] = "mark"
  /\ flag' = TRUE
  /\ pc' = [pc EXCEPT ![w] = "idle"]
  /\ UNCHANGED <<up, lists, listFile, mutex, edit, target, atStart, configVars>>

(***************************************************************************)
(* POST /api/config                                                         *)
(***************************************************************************)
\* Mutant of Get: starts from struct Config instead of config_.
GetDefaults(w, posted) ==
  /\ up /\ w \in Savers /\ pc[w] = "idle"
  /\ body' = [body EXCEPT ![w] = posted]
  /\ cfg' = [cfg EXCEPT ![w] = Replaced(Defaults, posted)]
  /\ pc' = [pc EXCEPT ![w] = "got"]
  /\ UNCHANGED <<up, listVars, config, confFile, wanted, inFile, cut>>

\* get(), under the mutex, and the keys the request names; a delay it does not name
\* is divided and multiplied all the same.
Get(w, posted) ==
  /\ up /\ w \in Savers /\ pc[w] = "idle"
  /\ \A k \in DOMAIN posted \cap Seconds : posted[k] = InSeconds(posted[k])
  /\ body' = [body EXCEPT ![w] = posted]
  /\ cfg' = [cfg EXCEPT ![w] =
               Replaced([k \in Keys |-> IF k \in Seconds THEN InSeconds(config[k])
                                                         ELSE config[k]], posted)]
  /\ pc' = [pc EXCEPT ![w] = "got"]
  /\ UNCHANGED <<up, listVars, config, confFile, wanted, inFile, cut>>

\* save(): write_str opens freeze.conf, with no lock, or fails.
SaveOpen(w) ==
  /\ pc[w] = "got"
  /\ \/ /\ confFile' = Defaults
        /\ pc' = [pc EXCEPT ![w] = "opened"]
        /\ UNCHANGED <<body, cfg>>
     \/ /\ "open" \in Faults
        /\ pc' = [pc EXCEPT ![w] = "idle"]
        /\ body' = [body EXCEPT ![w] = NoBody]
        /\ cfg' = [cfg EXCEPT ![w] = Defaults]
        /\ UNCHANGED confFile
  /\ UNCHANGED <<up, listVars, config, wanted, inFile, cut>>

SaveClose(w) ==
  /\ pc[w] = "opened"
  /\ \/ confFile' = cfg[w] /\ UNCHANGED cut
     \/ "flush" \in Faults /\ cut' = TRUE /\ UNCHANGED confFile
  /\ pc' = [pc EXCEPT ![w] = "flushed"]
  /\ UNCHANGED <<up, listVars, config, body, cfg, wanted, inFile>>

\* config_ = cfg, under the mutex, and the answer.
SaveCommit(w) ==
  /\ pc[w] = "flushed"
  /\ config' = cfg[w]
  /\ wanted' = Replaced(wanted, body[w])
  /\ inFile' = inFile \ DOMAIN body[w]
  /\ pc' = [pc EXCEPT ![w] = "idle"]
  /\ body' = [body EXCEPT ![w] = NoBody]
  /\ cfg' = [cfg EXCEPT ![w] = Defaults]
  /\ UNCHANGED <<up, listVars, confFile, cut>>

\* Somebody edits freeze.conf.
HandEdit(k, v) ==
  /\ up \in ByHand /\ Quiet
  /\ confFile' = [confFile EXCEPT ![k] = v]
  /\ wanted' = [wanted EXCEPT ![k] = v]
  /\ inFile' = inFile \cup {k}
  /\ UNCHANGED <<up, listVars, config, pc, body, cfg, cut>>

(***************************************************************************)
(* The daemon                                                               *)
(***************************************************************************)
\* main leaves its loop; HttpServer::stop waits for the workers.
Exit ==
  /\ up /\ Quiet
  /\ up' = FALSE
  /\ UNCHANGED <<listVars, configVars, pc>>

\* Killed, wherever the workers are.
Crash ==
  /\ "crash" \in Faults /\ up
  /\ up' = FALSE /\ mutex' = NoOne
  /\ pc' = [w \in Workers |-> "idle"]
  /\ edit' = [w \in Workers |-> NoEdit] /\ target' = [w \in Workers |-> {}]
  /\ body' = [w \in Workers |-> NoBody] /\ cfg' = [w \in Workers |-> Defaults]
  /\ cut' = (cut \/ \E w \in Workers : pc[w] \in {"opened", "flushed"})
  /\ UNCHANGED <<lists, listFile, flag, atStart, config, confFile, wanted, inFile>>

\* main: clear_all, load, reload, and only then HttpServer::start.
Start ==
  /\ ~up
  /\ up' = TRUE
  /\ flag' = FALSE
  /\ config' = confFile /\ inFile' = {}
  /\ lists' = listFile /\ atStart' = listFile["black"]
  /\ UNCHANGED <<listFile, mutex, edit, target, confFile, body, cfg, wanted, cut, pc>>

Next ==
  \/ \E w \in Workers :
       \/ \E e \in Edits : EditOpen(w, e)
       \/ EditClose(w) \/ Mark(w)
       \/ \E posted \in Bodies : Get(w, posted)
       \/ SaveOpen(w) \/ SaveClose(w) \/ SaveCommit(w)
  \/ \E k \in Keys, v \in Values : HandEdit(k, v)
  \/ Exit \/ Crash \/ Start

Spec == Init /\ [][Next]_vars

(***************************************************************************)
(* Properties                                                               *)
(***************************************************************************)
Kept == INSTANCE KeptLists WITH
          sets <- IF up THEN lists ELSE listFile,
          pending <- IF mutex = NoOne THEN NoEdit ELSE edit[mutex],
          unsaved <- IF up THEN {l \in Lists : listFile[l] # lists[l]} ELSE {}

\* app_list.h:69: edits of concurrent requests are made one by one, none undoes
\* another and a failed one changes nothing; whatever kills the daemon or keeps a
\* write from its file, a restart finds a list as it was, or all of it gone when
\* it was the one being written, never a part of it and never the other list.
ImplementsKeptLists == Kept!KeptSpec

\* reboot_flag.h:11: a black list that is not the one the daemon started with is
\* announced, once the request that changed it has been answered.
ChangeAnnounced ==
  up /\ lists["black"] # atStart /\ (\A w \in Workers : pc[w] # "mark") => flag

\* freeze.conf:2: with no request under way and no write of the file ever cut short,
\* the file has what was asked for last, and so has the daemon, but for what was
\* edited by hand since it started.
SettingsKept ==
  Quiet /\ ~cut =>
    /\ confFile = wanted
    /\ up => \A k \in Keys \ inFile : config[k] = wanted[k]

=============================================================================
