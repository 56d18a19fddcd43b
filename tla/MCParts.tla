------------------------------- MODULE MCParts -------------------------------
(***************************************************************************)
(* Eight parts of the system that share no state, each on its own: a       *)
(* behaviour is one of the part it begins with, while the others rest.     *)
(***************************************************************************)
EXTENDS RateLimiter, AgentRuntime, ConceptResolver, ExtractionNormalization

CONSTANTS
    Writers, Others, Flight, MaxChanges,
    Extractors, Items, TypeOf, Faults,
    Logins, Codes, MaxCache, MaxPending,
    Schedules, Users, Early, Visitors, Strangers, MaxForms

VARIABLES
    part,
    db, version, todo, unraised, map, loaded, expired, load, disturbed, cacheFaults,
    json, extracted, status, docStatus, at, accepted, answered, planFaults,
    cache, old, pending, login, spent, lost, authFaults,
    rows, forms, asked, events, run, raced, tripFaults

D == INSTANCE DictionaryCache   WITH faults <- cacheFaults
P == INSTANCE PlannedExtraction WITH faults <- planFaults
A == INSTANCE AuthExchange      WITH faults <- authFaults
T == INSTANCE TripCheckin       WITH faults <- tripFaults

(* The bounds are numbers and the items of a plan are numbered from 1 on.  *)
ASSUME PartsAssumption ==
    /\ {MaxChanges, Faults, MaxCache, MaxPending, MaxForms} \subseteq Nat
    /\ IsFiniteSet(Items) /\ Items \subseteq P!Indices
    /\ IsFiniteSet(Schedules)

dVars == <<db, version, todo, unraised, map, loaded, expired, load, disturbed, cacheFaults>>
pVars == <<json, extracted, status, docStatus, at, accepted, answered, planFaults>>
aVars == <<cache, old, pending, login, spent, lost, authFaults>>
tVars == <<rows, forms, asked, events, run, raced, tripFaults>>

allVars ==
    <<part, vars, dVars, pVars, aVars, tVars, agentVars, resolverVars, normalVars>>

(* What the model gives for a document without products.                   *)
NoItems == [items |-> <<>>, manual |-> {}]

PartsInit ==
    /\ part \in {"limiter", "dictionary", "plan", "login", "trips", "agent", "resolver",
                "normalization"}
    /\ Init /\ D!Init /\ P!Init /\ A!Init /\ T!Init /\ AgentInit
    /\ ResolverInit
    /\ NormalizationInit
    /\ (part # "normalization" => source = NoItems)
    /\ (part # "plan" => docStatus = "planned")

(* The parts that are instances, and those that are extended.              *)
Rest1 == <<part, dVars, pVars, aVars, tVars>>
Rest2 == <<part, vars, agentVars, resolverVars, normalVars>>

LimiterStep  ==
    part = "limiter" /\ Next /\ UNCHANGED <<Rest1, agentVars, resolverVars, normalVars>>
CacheStep    == part = "dictionary" /\ D!Next /\ UNCHANGED <<Rest2, pVars, aVars, tVars>>
PlanStep     == part = "plan" /\ P!Next /\ UNCHANGED <<Rest2, dVars, aVars, tVars>>
LoginStep    == part = "login" /\ A!Next /\ UNCHANGED <<Rest2, dVars, pVars, tVars>>
TripStep     == part = "trips" /\ T!Next /\ UNCHANGED <<Rest2, dVars, pVars, aVars>>
AgentStep    ==
    part = "agent" /\ AgentNext /\ UNCHANGED <<Rest1, vars, resolverVars, normalVars>>
ResolverStep ==
    part = "resolver" /\ ResolverNext /\ UNCHANGED <<Rest1, vars, agentVars, normalVars>>
NormalStep   ==
    part = "normalization" /\ NormalizationNext /\ UNCHANGED <<Rest1, vars, agentVars, resolverVars>>

PartsNext ==
    \/ LimiterStep \/ CacheStep \/ PlanStep \/ LoginStep \/ TripStep
    \/ AgentStep \/ ResolverStep \/ NormalStep

(* The fairness of the four modules that state any, each while it runs.    *)
CacheRuns == part = "dictionary"
PlanRuns  == part = "plan"
LoginRuns == part = "login"
TripsRun  == part = "trips"

Fairness ==
    /\ \A l \in D!Loads : WF_dVars(CacheRuns /\ D!Loading(l))
    /\ WF_dVars(CacheRuns /\ D!EnsureFresh) /\ WF_dVars(CacheRuns /\ D!Expire)
    /\ \A w \in Writers \cup Others :
          WF_dVars(CacheRuns /\ D!Raise(w)) /\ WF_dVars(CacheRuns /\ D!ReloadCache(w))
    /\ \A p \in Extractors :
          /\ WF_pVars(PlanRuns /\ P!ReadBatch(p)) /\ WF_pVars(PlanRuns /\ P!Saved(p))
          /\ WF_pVars(PlanRuns /\ (P!MarkBlocked(p) \/ P!Normalize(p)))
    /\ \A k \in Codes : WF_aVars(LoginRuns /\ A!Exchange(k))
    /\ \A s \in Schedules : WF_tVars(TripsRun /\ T!Proceeds(s))

PartsSpec == PartsInit /\ [][PartsNext]_allVars /\ Fairness

-----------------------------------------------------------------------------
(* What is checked of each part; the modules say what it means. *)

(* The type invariants of all parts.                                       *)
TypesOK ==
    /\ TypeOK /\ D!TypeOK /\ P!TypeOK /\ A!TypeOK /\ T!TypeOK
    /\ AgentTypeOK /\ ResolverTypeOK /\ (part = "normalization" => NormalizationTypeOK)

(* A dictionary cache of the current version, filled undisturbed, holds    *)
(* the current dictionary.                                                 *)
CurrentOfItsVersion == D!CurrentOfItsVersion

(* The dictionary cache gets hold of every last change.                    *)
CatchesUp == CacheRuns => D!CatchesUp

(* No step settles an extraction or a document while a planned item was    *)
(* neither answered by the model nor displaced by an instance of another.  *)
NormalizedIsWhole == P!NormalizedIsWhole

(* Every planned item is answered or displaced in the end.                 *)
EveryItemIsAnswered == PlanRuns => P!EveryItemIsAnswered

(* A code WeCom accepted is not refused while its result is kept.          *)
RepeatIsNotRefused == A!RepeatIsNotRefused

(* Every request that waits for an exchange is answered.                   *)
LoginIsAnswered == A!LoginIsAnswered

(* A traveller is asked for a check-in once, whatever fails in between.    *)
AskedOnce == T!AskedOnce

(* A traveller who set out before the day gets a check-in, unless one who  *)
(* is not known ends the runs before him for ever.                         *)
EarlyTravellersAreFound == TripsRun => T!EarlyTravellersAreFound

-----------------------------------------------------------------------------
CONSTANT v1

SlotsOf    == [l \in Limiters |-> IF l = Global THEN 2 ELSE 1]
OneService == [r \in Runs |-> v1]
HintOf     == [i \in Items |-> IF i = 3 THEN "b" ELSE "a"]

(* A dimension of the die, one of two products, the halves of a speed, the *)
(* dimension of two pumps, a note, a field of the document and options.    *)
Plain == [kind |-> "plain", base |-> "", instance |-> 0, targets |-> {}, role |-> "none", term |-> ""]

Meanings ==
    [die    |-> [Plain EXCEPT !.targets = {"flat_die"}, !.term = "width"],
     oil    |-> [Plain EXCEPT !.targets = {"flat_die", "hydraulic_station"}],
     least  |-> [Plain EXCEPT !.base = "speed", !.role = "min", !.term = "speed"],
     most   |-> [Plain EXCEPT !.base = "speed", !.role = "max", !.term = "speed"],
     pump1  |-> [Plain EXCEPT !.base = "die", !.instance = 1],
     pump2  |-> [Plain EXCEPT !.base = "die", !.instance = 2],
     note   |-> [Plain EXCEPT !.kind = "note"],
     info   |-> [Plain EXCEPT !.kind = "info"],
     chosen |-> [Plain EXCEPT !.kind = "selected"],
     open   |-> [Plain EXCEPT !.kind = "unselected"]]

Field(n, v)     == [name |-> n, value |-> v, parts |-> <<>>, found |-> FALSE]
Split(n, v, ps) == [Field(n, v) EXCEPT !.parts = ps]
Note(ps)        == [name |-> "note", value |-> "n", parts |-> ps, found |-> TRUE]

FieldLists ==
    {<<Field("die", "a"), Field("oil", "b")>>,
     <<Note(<<Field("die", "b"), Field("most", "c")>>), Field("least", "a")>>,
     <<Field("pump1", "a"), Field("pump2", "b"), Field("most", "c"), Field("most", "d"),
       Split("die", "ab", <<Field("least", "a"), Field("least", "b"), Field("info", "c")>>)>>,
     <<Split("oil", "ab", <<Field("chosen", "a"), Field("open", "b"), Note(<<Field("die", "c")>>)>>),
       Field("info", "i"), Field("least", "a"), Field("most", "b")>>}

Pieces == <<Field("least", "p"), Field("oil", "q")>>
ByHand == {{}, {[index |-> 1, name |-> "die", value |-> "a", parts |-> Pieces],
                [index |-> 1, name |-> "oil", value |-> "a", parts |-> Pieces]}}

(* The numbers and the types of three items; two numbers may be the same.  *)
Documents ==
    {[index |-> <<1, 2, 3>>, hint |-> <<"pump", "flat_die", "unknown">>],
     [index |-> <<2, 1, 1>>, hint |-> <<"unknown", "flat_die", "pump">>]}

Extracted(d, fs, m) ==
    [items  |-> [k \in 1..3 |-> [index |-> d.index[k], hint |-> d.hint[k],
                                 named |-> "hydraulic_station", fields |-> fs[k]]],
     manual |-> m]

SmallExtractions == {NoItems} \cup
    {Extracted(d, fs, m) : d \in Documents, fs \in [1..3 -> FieldLists], m \in ByHand}
=============================================================================
