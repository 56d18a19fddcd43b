--------------------------- MODULE DictionaryCache ---------------------------
(***************************************************************************)
(* The cache of a DictionaryService (features/productConfigAgent/          *)
(* dictionary/dictionary.cache.ts).  A load empties the maps, fills them   *)
(* from one table after the other and then reads the dictionary version.   *)
(* ensureFresh loads when the cache is old and the version has changed, at *)
(* most one load at a time; a request that changes the dictionary raises   *)
(* the version and loads the cache of its own service, whatever else is    *)
(* under way.                                                              *)
(*                                                                         *)
(* Abstractions.  The content of a table is the number of its last change. *)
(***************************************************************************)
EXTENDS Naturals

CONSTANTS
    Writers,    \* requests of this service that change the dictionary
    Others,     \* those of other services and processes
    Flight,     \* the load of ensureFresh
    MaxChanges, \* bound on the changes of a table
    MaxFaults   \* bound on errors and restarts

VARIABLES
    db,        \* tables of the dictionary
    version,   \* dictionary_version
    todo,      \* what a writer that has changed a table has still to do
    unraised,  \* a table has changed since the version was raised
    map,       \* what the cache holds of each table
    loaded,    \* loadedVersion
    expired,   \* cacheTtlMs is over since lastLoadedAt
    load,      \* the loads under way
    disturbed, \* a change, an error or another load met the load that ended last
    faults

base  == <<db, version, todo, unraised>>
cache == <<map, loaded, expired, load, disturbed>>
vars  == <<base, cache, faults>>

Tables == {"types", "aliases"}
Stages == Tables \cup {"version"}
Empty  == 0
Null   == 0
Loads  == Writers \cup {Flight}
Idle   == [at |-> "idle"]

TypeOK ==
    /\ db \in [Tables -> 1..(MaxChanges + 1)]
    /\ version \in Nat \ {Null}
    /\ todo \in [Writers \cup Others -> {"nothing", "raise", "load"}]
    /\ unraised \in BOOLEAN
    /\ map \in [Tables -> 0..(MaxChanges + 1)]
    /\ loaded \in 0..version
    /\ expired \in BOOLEAN /\ disturbed \in BOOLEAN
    /\ load \in [Loads -> [at : Stages, got : Nat, alone : BOOLEAN] \cup {Idle}]
    /\ faults \in 0..MaxFaults

Init ==
    /\ db = [t \in Tables |-> 1] /\ version = 1
    /\ todo = [w \in Writers \cup Others |-> "nothing"] /\ unraised = FALSE
    /\ map = [t \in Tables |-> Empty] /\ loaded = Null
    /\ expired = TRUE /\ disturbed = FALSE
    /\ load = [l \in Loads |-> Idle]
    /\ faults = 0

-----------------------------------------------------------------------------
(* DictionaryCache.reload *)

Running == {l \in Loads : load[l] # Idle}
Disturb == [l \in Loads |-> IF l \in Running THEN [load[l] EXCEPT !.alone = FALSE] ELSE Idle]

(* Mutant: a load adds to what the maps hold.                              *)
BeginKept(l) ==
    /\ map' = map
    /\ load' = [Disturb EXCEPT ![l] = [at |-> "types", got |-> 0, alone |-> Running = {}]]

(* The maps are emptied at once; ...                                       *)
Begin(l) ==
    /\ map' = [t \in Tables |-> Empty]
    /\ load' = [Disturb EXCEPT ![l] = [at |-> "types", got |-> 0, alone |-> Running = {}]]

(* ... every answer of the database is applied some time after it was      *)
(* given.                                                                  *)
Query(l) ==
    /\ l \in Running /\ load[l].got = 0
    /\ load' = [load EXCEPT ![l].got = IF load[l].at = "version" THEN version ELSE db[load[l].at]]
    /\ UNCHANGED <<base, map, loaded, expired, disturbed, faults>>

Answered(l, stages) == l \in Running /\ load[l].got # 0 /\ load[l].at \in stages

(* registerValueAlias keeps what the map has of an alias.                  *)
Fill(l) ==
    LET t == load[l].at IN
    /\ Answered(l, Tables)
    /\ map' = [map EXCEPT ![t] = IF t = "aliases" /\ @ # Empty THEN @ ELSE load[l].got]
    /\ load' = [load EXCEPT ![l].at = IF t = "types" THEN "aliases" ELSE "version",
                            ![l].got = 0]
    /\ UNCHANGED <<base, loaded, expired, disturbed, faults>>

Finish(l) ==
    /\ Answered(l, {"version"})
    /\ loaded' = load[l].got
    /\ expired' = FALSE
    /\ disturbed' = ~load[l].alone
    /\ load' = [load EXCEPT ![l] = Idle]
    /\ UNCHANGED <<base, map, faults>>

(* A query fails: the maps stay as they are.                               *)
Fails(l) ==
    /\ l \in Running
    /\ faults < MaxFaults /\ faults' = faults + 1
    /\ disturbed' = TRUE
    /\ load' = [load EXCEPT ![l] = Idle]
    /\ UNCHANGED <<base, map, loaded, expired>>

-----------------------------------------------------------------------------
(* Mutant: an old cache is taken for fresh without a look at the version.  *)
FreshUnseen ==
    /\ load[Flight] = Idle
    /\ IF loaded = Null
       THEN Begin(Flight) /\ UNCHANGED expired
       ELSE expired /\ expired' = FALSE /\ UNCHANGED <<map, load>>
    /\ UNCHANGED <<base, loaded, disturbed, faults>>

(* ensureFresh, when its load is not under way.                            *)
EnsureFresh ==
    /\ load[Flight] = Idle
    /\ loaded = Null \/ expired
    /\ IF loaded # version
       THEN Begin(Flight) /\ UNCHANGED expired
       ELSE expired' = FALSE /\ UNCHANGED <<map, load>>
    /\ UNCHANGED <<base, loaded, disturbed, faults>>

Expire ==
    /\ ~expired
    /\ expired' = TRUE
    /\ UNCHANGED <<base, map, loaded, load, disturbed, faults>>

-----------------------------------------------------------------------------
(* Changes of the dictionary *)

Then(w, step) == todo' = [todo EXCEPT ![w] = step]
Free(w)       == todo[w] = "nothing" /\ w \notin Running

Change(w, t) ==
    /\ Free(w)
    /\ db[t] <= MaxChanges
    /\ db' = [db EXCEPT ![t] = @ + 1]
    /\ load' = Disturb

(* mutateDictionary: the change and the version are one transaction.       *)
Mutate(w, t) ==
    /\ Change(w, t)
    /\ version' = version + 1 /\ unraised' = FALSE
    /\ Then(w, "load")
    /\ UNCHANGED <<map, loaded, expired, disturbed, faults>>

(* Other changes raise the version afterwards.                             *)
Write(w, t) ==
    /\ Change(w, t)
    /\ unraised' = TRUE
    /\ Then(w, "raise")
    /\ UNCHANGED <<version, map, loaded, expired, disturbed, faults>>

(* Mutant: the row of the version is written anew.                         *)
RaiseAnew(w) ==
    /\ todo[w] = "raise"
    /\ version' = 1 /\ unraised' = FALSE
    /\ Then(w, "load")
    /\ UNCHANGED <<db, cache, faults>>

(* bumpVersion                                                             *)
Raise(w) ==
    /\ todo[w] = "raise"
    /\ version' = version + 1 /\ unraised' = FALSE
    /\ Then(w, "load")
    /\ UNCHANGED <<db, cache, faults>>

ReloadCache(w) ==
    /\ todo[w] = "load"
    /\ IF w \in Writers THEN Begin(w) ELSE UNCHANGED <<map, load>>
    /\ Then(w, "nothing")
    /\ UNCHANGED <<db, version, unraised, loaded, expired, disturbed, faults>>

(* A recheck of the candidates loads the cache whether it is old or not.   *)
Recheck(w) ==
    /\ Free(w)
    /\ Begin(w)
    /\ UNCHANGED <<base, loaded, expired, disturbed, faults>>

WriterFails(w) ==
    /\ todo[w] # "nothing"
    /\ faults < MaxFaults /\ faults' = faults + 1
    /\ Then(w, "nothing")
    /\ UNCHANGED <<db, version, unraised, cache>>

Loading(l) == Query(l) \/ Fill(l) \/ Finish(l)

Next ==
    \/ \E l \in Loads : Loading(l) \/ Fails(l)
    \/ EnsureFresh \/ Expire
    \/ \E w \in Writers \cup Others :
          \/ \E t \in Tables : Mutate(w, t) \/ Write(w, t)
          \/ Raise(w) \/ ReloadCache(w) \/ WriterFails(w)
    \/ \E w \in Writers : Recheck(w)

(* Queries are answered, the time passes and requests keep coming.         *)
Fairness ==
    /\ \A l \in Loads : WF_vars(Loading(l))
    /\ WF_vars(EnsureFresh) /\ WF_vars(Expire)
    /\ \A w \in Writers \cup Others : WF_vars(Raise(w)) /\ WF_vars(ReloadCache(w))

Spec == Init /\ [][Next]_vars /\ Fairness

-----------------------------------------------------------------------------
(* Correctness properties *)

(* A cache of the current version holds the current dictionary, although   *)
(* it reads one table after the other and the version last, if it was last *)
(* filled by a load beside which nothing changed and no other load ran.    *)
CurrentOfItsVersion ==
    Running = {} /\ ~disturbed /\ ~unraised /\ loaded = version => map = db

(* The cache gets hold of every last change, also one that another service *)
(* made, unless a disturbed load left it with something else under the     *)
(* number of the current version.                                          *)
CatchesUp == []<>(map = db \/ disturbed \/ unraised)
=============================================================================
