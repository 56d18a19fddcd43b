----------------------------- MODULE RateLimiter -----------------------------
(***************************************************************************)
(* The limiter of calls to remote services (config/limiter.ts).  A call    *)
(* passes the limiter all calls share, then the limiter of its name.  A    *)
(* limiter is a ring of slots, each with the time of the last call it let  *)
(* through; a call takes the slot at seq, at once if that slot's bucket is *)
(* over, else at the end of its bucket.                                    *)
(*                                                                         *)
(* A timer fires at its time or at any time after it.                      *)
(*                                                                         *)
(* Abstractions.  All limiters have one bucket length, as those of the     *)
(* code do.  Time begins one bucket after 0, the time a new slot holds.    *)
(***************************************************************************)
EXTENDS Integers, Sequences

CONSTANTS
    Callers,   \* calls that can be under way at once
    Names,     \* limitOption.name
    Global,    \* globalLimiter
    Limit,     \* number of slots of each limiter
    Bucket,    \* length of the bucket
    MaxTime    \* bound on the clock

Limiters == Names \cup {Global}

ASSUME LimitAssumption  == Limit \in [Limiters -> Nat \ {0}]
ASSUME BucketAssumption == Bucket \in Nat \ {0}
ASSUME TimeAssumption   == MaxTime \in Nat
ASSUME NameAssumption   == Global \notin Names

VARIABLES
    now,     \* new Date().getTime()
    t,       \* per limiter, the time in each slot
    seq,     \* per limiter, the slot whose turn it is
    caller,  \* what each call does, and when its sleep ends
    ran,     \* per name, the times at which its calls have run
    late     \* the longest a call has slept past the time it was to run at

vars == <<now, t, seq, caller, ran, late>>

Slots(l) == 0..(Limit[l] - 1)

Following(l, i) == IF i = Limit[l] - 1 THEN 0 ELSE i + 1

Idle   == [at |-> "idle"]
Called == [at : {"global", "named", "run"}, name : Names, wake : Nat]

TypeOK ==
    /\ now \in Nat
    /\ \A l \in Limiters : t[l] \in [Slots(l) -> Nat]
    /\ DOMAIN t = Limiters
    /\ seq \in [Limiters -> Nat] /\ \A l \in Limiters : seq[l] \in Slots(l)
    /\ caller \in [Callers -> Called \cup {Idle}]
    /\ ran \in [Names -> Seq(Nat)]
    /\ late \in Nat

Init ==
    /\ now = Bucket
    /\ t = [l \in Limiters |-> [i \in Slots(l) |-> 0]]
    /\ seq = [l \in Limiters |-> 0]
    /\ caller = [c \in Callers |-> Idle]
    /\ ran = [n \in Names |-> <<>>]
    /\ late = 0

Sleep(c, name, at, until) ==
    caller' = [caller EXCEPT ![c] = [at |-> at, name |-> name, wake |-> until]]

Grant(l, time) ==
    /\ t' = [t EXCEPT ![l] = [@ EXCEPT ![seq[l]] = time]]
    /\ seq' = [seq EXCEPT ![l] = Following(l, seq[l])]

(* Mutant: a slot that is taken ahead of time is not carried forward.      *)
GrantAtOnce(l) == Grant(l, now)

GrantLater(l) == Grant(l, t[l][seq[l]] + Bucket)

(* Limiter.tryBeforeRun, up to its sleep.  A slot already promised for a   *)
(* later time cannot be promised again: the call comes back at its end.    *)
TryBeforeRun(c, name, l, again, passed) ==
    LET slot     == t[l][seq[l]]
        interval == now - slot
    IN
    \/ /\ interval < 0
       /\ Sleep(c, name, again, slot + Bucket)
       /\ UNCHANGED <<t, seq>>
    \/ /\ interval >= 0 /\ interval < Bucket
       /\ GrantLater(l)
       /\ Sleep(c, name, passed, slot + Bucket)
    \/ /\ interval >= Bucket
       /\ Grant(l, now)
       /\ Sleep(c, name, passed, now)

Awake(c, at) == caller[c].at = at /\ caller[c].wake <= now

(* LimiterSet.tryBeforeRun: the shared limiter, ...                        *)
Call(c, name) ==
    /\ caller[c] = Idle
    /\ TryBeforeRun(c, name, Global, "global", "named")
    /\ UNCHANGED <<now, ran, late>>

CallAgain(c) ==
    /\ Awake(c, "global")
    /\ TryBeforeRun(c, caller[c].name, Global, "global", "named")
    /\ UNCHANGED <<now, ran, late>>

(* ... and the limiter of the name.                                        *)
TryName(c) ==
    /\ Awake(c, "named")
    /\ TryBeforeRun(c, caller[c].name, caller[c].name, "named", "run")
    /\ UNCHANGED <<now, ran, late>>

Run(c) ==
    /\ Awake(c, "run")
    /\ ran' = [ran EXCEPT ![caller[c].name] = Append(@, now)]
    /\ caller' = [caller EXCEPT ![c] = Idle]
    /\ UNCHANGED <<now, t, seq, late>>

Oversleeps(c) == caller[c].at = "run" /\ caller[c].wake + late <= now

(* The event loop may be busy when a timer is due.                         *)
Tick ==
    /\ now < MaxTime
    /\ now' = now + 1
    /\ late' = IF \E c \in Callers : Oversleeps(c) THEN late + 1 ELSE late
    /\ UNCHANGED <<t, seq, caller, ran>>

Next ==
    \/ \E c \in Callers, name \in Names : Call(c, name)
    \/ \E c \in Callers : CallAgain(c) \/ TryName(c) \/ Run(c)
    \/ Tick

Spec == Init /\ [][Next]_vars

-----------------------------------------------------------------------------
(* Correctness properties *)

Latest(l) == IF seq[l] = 0 THEN Limit[l] - 1 ELSE seq[l] - 1

(* Slot i was taken before slot j.                                         *)
Before(l, i, j) ==
    \/ i <= j /\ (j < seq[l] \/ seq[l] <= i)
    \/ j < seq[l] /\ seq[l] <= i

(* The ring holds the last calls a limiter let through, in the order of    *)
(* their times, and the newest is at most a bucket after the oldest when   *)
(* it lies in the future: this is why looking at one slot is enough.       *)
RingInOrder ==
    \A l \in Limiters :
        /\ \A i, j \in Slots(l) : Before(l, i, j) => t[l][i] <= t[l][j]
        /\ \/ t[l][Latest(l)] <= now
           \/ t[l][Latest(l)] <= t[l][seq[l]] + Bucket

(* A call a limiter lets through runs no earlier than every one before it, *)
(* and a bucket after the one Limit calls before it, whatever the          *)
(* order in which timers wake the calls that wait.                         *)
GrantSpaced(l) ==
    LET new == t'[l][seq[l]] IN
    t'[l] # t[l] =>
        /\ t[l][seq[l]] + Bucket <= new
        /\ \A i \in Slots(l) : t[l][i] <= new

EachGrantIsSpaced == [][\A l \in Limiters : GrantSpaced(l)]_vars

Spaced(times, limit, delay) ==
    \A i \in 1..Len(times) :
        i + limit <= Len(times) => times[i] + Bucket <= times[i + limit] + delay

(* Of the calls of one name no more than its limit run in a bucket, less   *)
(* the longest that a timer has been late.                                 *)
NamedLimitHolds == \A n \in Names : Spaced(ran[n], Limit[n], late)
=============================================================================
