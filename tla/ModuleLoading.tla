--------------------------- MODULE ModuleLoading ---------------------------
(***************************************************************************)
(* The module alias engine of ueventd (init/devices.cpp): the alias table  *)
(* read from modules.alias, the blacklist read from modules.blacklist, the *)
(* deferred-loading queue, and the drain of that queue when coldboot       *)
(* completes.  Each uevent "add" is handled atomically by one action, as   *)
(* ueventd handles it in its single thread.  The file system (whether the  *)
(* module files can be opened), /dev/.booting and the restart of ueventd   *)
(* by init are the environment.                                            *)
(*                                                                         *)
(* fnmatch(pattern, modalias) is abstracted to set membership: a pattern   *)
(* is the set of modalias strings it matches.                              *)
(***************************************************************************)
EXTENDS Integers, Sequences, SequencesExt, FiniteSets

CONSTANTS
  Modalias,       \* MODALIAS strings carried by uevents (model values)
  Module,         \* kernel module names (model values)
  NoModalias,     \* a uevent without a MODALIAS tag (modalias == NULL)
  AliasLines,     \* the lines of modules.alias, in file order
  BlacklistLines, \* the lines of modules.blacklist, in file order
  MaxEvents,      \* bound on the number of "add" uevents handled
  MaxRestarts     \* bound on the number of times init restarts ueventd

(* A line as the tokenizer delivers it: the number of tokens on it and the *)
(* tokens the parser may keep.  Only the first args_to_read tokens are     *)
(* stored, so a line with extra tokens still has nargs = args_to_read.     *)
AliasLine     == [ntokens : 1..4, pattern : SUBSET Modalias, name : Module]
BlacklistWord == {"blacklist", "deferred", "other"}
BlacklistLine == [ntokens : 1..3, keyword : BlacklistWord, name : Module]

ASSUME NoModalias \notin Modalias
ASSUME AliasLines \in Seq(AliasLine)
ASSUME BlacklistLines \in Seq(BlacklistLine)
ASSUME MaxEvents \in Nat /\ MaxRestarts \in Nat

VARIABLES
  modulesAliasesMap,   \* modules_aliases_map: Seq of [pattern, name]
  modulesBlacklist,    \* modules_blacklist: Seq of [name, deferred]
  deferredQueue,       \* deferred_module_loading_list: Seq of Modalias
  inColdboot,          \* device_init is walking /sys (coldboot running)
  coldbootDone,        \* the COLDBOOT_DONE sentinel exists
  booting,             \* /dev/.booting exists
  filesReadable,       \* modules.alias and modules.blacklist can be opened
  insmodded,           \* history: modules ever passed to insmod_by_dep
  handled,             \* history: modalias values of handled "add" uevents
  events,              \* number of "add" uevents handled
  restarts             \* number of restarts of ueventd

vars == <<modulesAliasesMap, modulesBlacklist, deferredQueue, inColdboot,
          coldbootDone, booting, filesReadable, insmodded, handled, events,
          restarts>>

Alias == [pattern : SUBSET Modalias, name : Module]
Blacklisted == [name : Module, deferred : BOOLEAN]

-----------------------------------------------------------------------------
(* Reading the description files: __read_modules_desc_file with the line   *)
(* parsers parse_line_module_alias and parse_line_module_blacklist.  A     *)
(* line is kept when it has the required number of arguments; the alias   *)
(* parser does not look at the first word, the blacklist parser takes the  *)
(* first word by prefix ("blacklist..." or "deferred...").                 *)
ReadModulesAliases ==
  LET kept == SelectSeq(AliasLines, LAMBDA l : l.ntokens >= 3)
  IN  [i \in 1..Len(kept) |-> [pattern |-> kept[i].pattern, name |-> kept[i].name]]

ReadModulesBlacklist ==
  LET kept == SelectSeq(BlacklistLines,
                        LAMBDA l : l.ntokens >= 2 /\ l.keyword # "other")
  IN  [i \in 1..Len(kept) |-> [name |-> kept[i].name,
                               deferred |-> kept[i].keyword = "deferred"]]

(* is_module_blacklisted_or_deferred: 0 = may load, 1 = blacklisted,       *)
(* 2 = deferred while the caller asks for deferral.  The first entry of    *)
(* the list with the module's name decides.                                *)
IsModuleBlacklistedOrDeferred(blacklist, name, needDeferred) ==
  LET i == SelectInSeq(blacklist, LAMBDA b : b.name = name)
  IN  IF i = 0 THEN 0
      ELSE IF blacklist[i].deferred THEN (IF needDeferred THEN 2 ELSE 0)
      ELSE 1

(* The aliases of the table whose pattern fnmatches the modalias, in       *)
(* table order.                                                            *)
MatchingAliases(map, id) == SelectSeq(map, LAMBDA a : id \in a.pattern)

(* load_module_by_device_modalias: every matching alias that is not        *)
(* blacklisted is passed to insmod_by_dep (a failure does not stop the     *)
(* loop); the result is ret as left by the LAST matching alias: -1 when    *)
(* none matches, the blacklist class when it was skipped, otherwise the    *)
(* insmod result (0, or an error, here -1).  `failing` is the set of       *)
(* modules whose insmod fails in this call.                                *)
(* Mutant: only a deferral (2) skips a module, a blacklisting (1) does not.*)
LoadTried_SkipOnlyDeferred(map, blacklist, id, needDeferred) ==
  { a.name : a \in { a \in ToSet(MatchingAliases(map, id)) :
                     IsModuleBlacklistedOrDeferred(blacklist, a.name, needDeferred) # 2 } }

LoadTried(map, blacklist, id, needDeferred) ==
  { a.name : a \in { a \in ToSet(MatchingAliases(map, id)) :
                     IsModuleBlacklistedOrDeferred(blacklist, a.name, needDeferred) = 0 } }

LoadRet(map, blacklist, id, needDeferred, failing) ==
  LET ms == MatchingAliases(map, id)
  IN  IF ms = <<>> THEN -1
      ELSE LET last == Last(ms)
               cls  == IsModuleBlacklistedOrDeferred(blacklist, last.name, needDeferred)
           IN  IF cls # 0 THEN cls
               ELSE IF last.name \in failing THEN -1 ELSE 0

-----------------------------------------------------------------------------
Init ==
  /\ modulesAliasesMap = <<>>
  /\ modulesBlacklist = <<>>
  /\ deferredQueue = <<>>
  /\ inColdboot = TRUE
  /\ coldbootDone = FALSE
  /\ booting = TRUE
  /\ filesReadable \in BOOLEAN
  /\ insmodded = {}
  /\ handled = {}
  /\ events = 0
  /\ restarts = 0

(* handle_module_loading, called by handle_device_event for every "add"    *)
(* uevent.  When the alias table is empty it tries to read modules.alias   *)
(* and, if that read succeeds, appends modules.blacklist to the blacklist. *)
(* It does not drain the deferred queue.  Then, for a uevent with a        *)
(* MODALIAS, the modalias is queued when the table is still empty or when  *)
(* the loader returns 2; is_booting() decides whether deferred modules are *)
(* held back.                                                              *)
(* Mutant: is_booting() is not consulted, deferral is never asked for.    *)
HandleModuleLoading_NoDeferral(m, failing) ==
  LET readNow == modulesAliasesMap = <<>> /\ filesReadable
      map     == IF readNow THEN ReadModulesAliases ELSE modulesAliasesMap
      blk     == IF readNow THEN modulesBlacklist \o ReadModulesBlacklist
                            ELSE modulesBlacklist
      queueIt == map = <<>> \/ LoadRet(map, blk, m, FALSE, failing) = 2
  IN
  /\ events < MaxEvents
  /\ events' = events + 1
  /\ modulesAliasesMap' = map
  /\ modulesBlacklist' = blk
  /\ IF m = NoModalias
       THEN UNCHANGED <<deferredQueue, insmodded, handled>>
       ELSE /\ handled' = handled \cup {m}
            /\ insmodded' = IF map = <<>> THEN insmodded
                            ELSE insmodded \cup LoadTried(map, blk, m, FALSE)
            /\ deferredQueue' = IF queueIt THEN Append(deferredQueue, m)
                                ELSE deferredQueue
  /\ UNCHANGED <<inColdboot, coldbootDone, booting, filesReadable, restarts>>

(* Mutant: the "if (!modalias) return" check is missing.                  *)
HandleModuleLoading_NoNullCheck(m, failing) ==
  LET readNow == modulesAliasesMap = <<>> /\ filesReadable
      map     == IF readNow THEN ReadModulesAliases ELSE modulesAliasesMap
      blk     == IF readNow THEN modulesBlacklist \o ReadModulesBlacklist
                            ELSE modulesBlacklist
      queueIt == map = <<>> \/ LoadRet(map, blk, m, booting, failing) = 2
  IN
  /\ events < MaxEvents
  /\ events' = events + 1
  /\ modulesAliasesMap' = map
  /\ modulesBlacklist' = blk
  /\ handled' = handled \cup {m}
  /\ insmodded' = IF map = <<>> THEN insmodded
                  ELSE insmodded \cup LoadTried(map, blk, m, booting)
  /\ deferredQueue' = IF queueIt THEN Append(deferredQueue, m) ELSE deferredQueue
  /\ UNCHANGED <<inColdboot, coldbootDone, booting, filesReadable, restarts>>

HandleModuleLoading(m, failing) ==
  LET readNow == modulesAliasesMap = <<>> /\ filesReadable
      map     == IF readNow THEN ReadModulesAliases ELSE modulesAliasesMap
      blk     == IF readNow THEN modulesBlacklist \o ReadModulesBlacklist
                            ELSE modulesBlacklist
      queueIt == map = <<>> \/ LoadRet(map, blk, m, booting, failing) = 2
  IN
  /\ events < MaxEvents
  /\ events' = events + 1
  /\ modulesAliasesMap' = map
  /\ modulesBlacklist' = blk
  /\ IF m = NoModalias
       THEN UNCHANGED <<deferredQueue, insmodded, handled>>
       ELSE /\ handled' = handled \cup {m}
            /\ insmodded' = IF map = <<>> THEN insmodded
                            ELSE insmodded \cup LoadTried(map, blk, m, booting)
            /\ deferredQueue' = IF queueIt THEN Append(deferredQueue, m)
                                ELSE deferredQueue
  /\ UNCHANGED <<inColdboot, coldbootDone, booting, filesReadable, restarts>>

(* handle_deferred_module_loading: when the alias table is not empty, every *)
(* queued modalias is loaded with need_deferred = false (deferred modules  *)
(* are loaded now) and removed; when it is empty nothing happens.          *)
HandleDeferredModuleLoading ==
  IF modulesAliasesMap = <<>> THEN UNCHANGED <<deferredQueue, insmodded>>
  ELSE /\ insmodded' = insmodded \cup
            UNION { LoadTried(modulesAliasesMap, modulesBlacklist, deferredQueue[i], FALSE) :
                    i \in 1..Len(deferredQueue) }
       /\ deferredQueue' = <<>>

(* The end of device_init: after the three coldboot walks, drain the       *)
(* deferred queue and create COLDBOOT_DONE.                                *)
FinishColdboot ==
  /\ inColdboot
  /\ HandleDeferredModuleLoading
  /\ inColdboot' = FALSE
  /\ coldbootDone' = TRUE
  /\ UNCHANGED <<modulesAliasesMap, modulesBlacklist, booting, filesReadable,
                 handled, events, restarts>>

(* init restarts ueventd: all lists are process memory and start empty;    *)
(* device_init skips coldboot (and its drain) when COLDBOOT_DONE exists.   *)
Restart ==
  /\ restarts < MaxRestarts
  /\ restarts' = restarts + 1
  /\ modulesAliasesMap' = <<>>
  /\ modulesBlacklist' = <<>>
  /\ deferredQueue' = <<>>
  /\ inColdboot' = ~coldbootDone
  /\ UNCHANGED <<coldbootDone, booting, filesReadable, insmodded, handled, events>>

(* Environment: the partition holding the module files is mounted.         *)
MountModuleFiles ==
  /\ ~filesReadable
  /\ filesReadable' = TRUE
  /\ UNCHANGED <<modulesAliasesMap, modulesBlacklist, deferredQueue, inColdboot,
                 coldbootDone, booting, insmodded, handled, events, restarts>>

(* Environment: init removes /dev/.booting.  init waits for COLDBOOT_DONE  *)
(* before it goes on booting, so this happens only after coldboot.         *)
BootComplete ==
  /\ booting
  /\ coldbootDone
  /\ booting' = FALSE
  /\ UNCHANGED <<modulesAliasesMap, modulesBlacklist, deferredQueue, inColdboot,
                 coldbootDone, filesReadable, insmodded, handled, events, restarts>>

Next ==
  \/ \E m \in Modalias \cup {NoModalias}, failing \in SUBSET Module :
        HandleModuleLoading(m, failing)
  \/ FinishColdboot
  \/ Restart
  \/ MountModuleFiles
  \/ BootComplete

(* ueventd runs device_init to its end, and init eventually mounts the     *)
(* partitions and finishes booting.                                        *)
Fairness ==
  /\ WF_vars(FinishColdboot)
  /\ WF_vars(MountModuleFiles)
  /\ WF_vars(BootComplete)

Spec == Init /\ [][Next]_vars /\ Fairness

-----------------------------------------------------------------------------
TypeOK ==
  /\ modulesAliasesMap \in Seq(Alias)
  /\ modulesBlacklist \in Seq(Blacklisted)
  /\ deferredQueue \in Seq(Modalias)
  /\ inColdboot \in BOOLEAN /\ coldbootDone \in BOOLEAN
  /\ booting \in BOOLEAN /\ filesReadable \in BOOLEAN
  /\ insmodded \subseteq Module
  /\ handled \subseteq Modalias
  /\ events \in 0..MaxEvents /\ restarts \in 0..MaxRestarts

(* What modules.blacklist says of a module: the first kept line naming it *)
(* decides whether it is blacklisted for good or deferred.                 *)
FirstListing(mod) == SelectSeq(ReadModulesBlacklist, LAMBDA b : b.name = mod)
ForbiddenModule(mod) == FirstListing(mod) # <<>> /\ ~Head(FirstListing(mod)).deferred
DeferredModule(mod)  == FirstListing(mod) # <<>> /\ Head(FirstListing(mod)).deferred

(* Spec invariant 7: a module that modules.blacklist lists as "blacklist"  *)
(* is never passed to insmod_by_dep, neither by handle_module_loading nor  *)
(* by the coldboot drain, across restarts of ueventd.                      *)
BlacklistedNeverInsmodded ==
  \A mod \in insmodded : ~ForbiddenModule(mod)

(* A module listed as "deferred" (and not also blacklisted by an earlier   *)
(* line) is not passed to insmod_by_dep while coldboot is still running:   *)
(* handle_module_loading holds it back while /dev/.booting exists, and the *)
(* drain that releases it runs only at the end of coldboot.                *)
DeferredWaitsForColdboot ==
  \A mod \in insmodded :
    DeferredModule(mod) => coldbootDone

(* No modalias is dropped: for every handled modalias, each module of a    *)
(* matching alias that the blacklist does not forbid has been passed to    *)
(* insmod_by_dep, or the modalias is still in the deferred queue.          *)
NoModaliasDropped ==
  \A m \in handled :
    \/ m \in ToSet(deferredQueue)
    \/ \A a \in ToSet(MatchingAliases(ReadModulesAliases, m)) :
          ~ForbiddenModule(a.name) => a.name \in insmodded

(* Every modalias put in the deferred queue is eventually taken out of it  *)
(* and loaded (spec 4.G: once modules.alias is read, the queue is drained).*)
QueuedEventuallyDrained ==
  \A m \in Modalias : (m \in ToSet(deferredQueue)) ~> (m \notin ToSet(deferredQueue))

=============================================================================
