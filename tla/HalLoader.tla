------------------------------ MODULE HalLoader ------------------------------
(***************************************************************************)
(* platform/libhardware/hardware.c: a module is looked for in the plug-in  *)
(* of each directory of the search path, in order, and what is found is    *)
(* cached under the path and the module's id.  The environment gives the   *)
(* path and may change between calls, and so may the files.  Callers share *)
(* the cache under a lock: hw_get_module() is atomic.                      *)
(***************************************************************************)
EXTENDS Integers, Sequences, FiniteSets

CONSTANTS Ids, Directories, Paths, MaxCached   \* HAL_MAX_CACHED_MODULES

VARIABLES
  plugin,   \* the ids that the plug-in of a directory provides, {} without one, Broken
            \* for one that does not load or holds a bad module
  cache,    \* g_cache: from <<id, path>> to the directory of the module
  open,     \* how often the plug-in of a directory has been opened and not closed
  given     \* <<id, path, directory>>: what callers have been given
vars == <<plugin, cache, open, given>>

Broken == {"broken"}
Plugins == {Broken} \cup SUBSET Ids

Init ==
  /\ plugin \in [Directories -> Plugins]
  /\ cache = <<>> /\ open = [d \in Directories |-> 0] /\ given = {}

\* load_from_directory(): 0, -ENOENT, -ELIBBAD.  Only what is found stays open.
LoadFrom(d, id) ==
  CASE plugin[d] = Broken -> "bad"
    [] id \in plugin[d] \ Broken -> "found"
    [] OTHER -> "absent"

\* Mutant of Search: a bad plug-in is passed over.
SearchOn(path, id) ==
  LET good == {i \in DOMAIN path : LoadFrom(path[i], id) = "found"} IN
  IF good = {} THEN "none" ELSE path[CHOOSE i \in good : \A j \in good : i <= j]

\* The directory where the scan of hw_get_module() ends with a module, or "none": the
\* first that has the module, unless a bad plug-in is met before.
Search(path, id) ==
  LET ends == {i \in DOMAIN path : LoadFrom(path[i], id) # "absent"} IN
  IF ends = {} THEN "none"
  ELSE LET i == CHOOSE i \in ends : \A j \in ends : i <= j IN
       IF LoadFrom(path[i], id) = "found" THEN path[i] ELSE "none"

Cached(id, path) == <<id, path>> \in DOMAIN cache

\* find_cached()
FromCache(id, path) ==
  /\ Cached(id, path) /\ given' = given \cup {<<id, path, cache[<<id, path>>]>>}
  /\ UNCHANGED <<plugin, cache, open>>

NotFound(id, path) ==
  /\ ~Cached(id, path) /\ Search(path, id) = "none" /\ UNCHANGED vars

\* Mutant of CacheFull: what cannot be cached is left open.
CacheFullOpen(id, path) ==
  /\ ~Cached(id, path) /\ Search(path, id) # "none" /\ Cardinality(DOMAIN cache) >= MaxCached
  /\ open' = [open EXCEPT ![Search(path, id)] = @ + 1] /\ UNCHANGED <<plugin, cache, given>>

\* No entry is free: the plug-in is closed again, -ENOSPC.
CacheFull(id, path) ==
  /\ ~Cached(id, path) /\ Search(path, id) # "none" /\ Cardinality(DOMAIN cache) >= MaxCached
  /\ UNCHANGED vars

\* Mutant of Found: the module is not cached.
FoundUncached(id, path) ==
  LET d == Search(path, id) IN
  /\ ~Cached(id, path) /\ d # "none" /\ Cardinality(DOMAIN cache) < MaxCached
  /\ open' = [open EXCEPT ![d] = 1] /\ given' = given \cup {<<id, path, d>>}
  /\ UNCHANGED <<plugin, cache>>

Found(id, path) ==
  LET d == Search(path, id) IN
  /\ ~Cached(id, path) /\ d # "none" /\ Cardinality(DOMAIN cache) < MaxCached
  /\ cache' = [key \in DOMAIN cache \cup {<<id, path>>} |->
                 IF key = <<id, path>> THEN d ELSE cache[key]]
  /\ open' = [open EXCEPT ![d] = @ + 1] /\ given' = given \cup {<<id, path, d>>}
  /\ UNCHANGED plugin

\* hw_get_module()
GetModule(id, path) ==
  FromCache(id, path) \/ NotFound(id, path) \/ CacheFull(id, path) \/ Found(id, path)

\* A plug-in is installed, replaced or removed.
Install(d, p) == plugin' = [plugin EXCEPT ![d] = p] /\ UNCHANGED <<cache, open, given>>

Next ==
  \/ \E id \in Ids, path \in Paths : GetModule(id, path)
  \/ \E d \in Directories, p \in Plugins : Install(d, p)

Spec == Init /\ [][Next]_vars

-----------------------------------------------------------------------------
(* Correctness. *)

(* A caller is always given the module that the first caller was given for  *)
(* the id and the path, also when the files change in between.             *)
OneModule == \A g, h \in given : g[1] = h[1] /\ g[2] = h[2] => g[3] = h[3]

(* A plug-in is open once for each module that was given from it, and so    *)
(* stays loaded; one that gave nothing is closed.                          *)
OpenWhileGiven == \A d \in Directories : open[d] = Cardinality({g \in given : g[3] = d})

(* A module is never taken from behind a plug-in that is bad: what callers  *)
(* see is the failure ("abort the scan", hardware.c:115).                   *)
NotPastBad ==
  [][\A g \in given' \ given :
       \A i \in DOMAIN g[2] : plugin[g[2][i]] = Broken => \E j \in 1 .. i - 1 : g[2][j] = g[3]]_vars
==============================================================================
