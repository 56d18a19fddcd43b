---------------------------- MODULE PartsProofs ----------------------------
(***************************************************************************)
(* Proofs about the parts of the system that share no state, as MCParts    *)
(* checks them.  The rate limiter: the ring of a limiter stays in the      *)
(* order of its times, and for that reason a look at the one slot whose    *)
(* turn it is spaces every grant.  The agent runtime: what a request       *)
(* leaves behind tells how it ended.  The concept resolver: what is known  *)
(* of a version is what was published with it.  The dictionary cache: a    *)
(* load that meets nothing has in the maps the tables it is past.  The     *)
(* planned extraction: marks that a call has read are those of the row,    *)
(* and of two places for every item one is left for each further item      *)
(* found.  The check-ins: a traveller is asked after his check-in is       *)
(* stored.  The login: a code WeCom has accepted has a result, or had one  *)
(* and lost it.  Then the parts together, with the normalization that has  *)
(* proofs of its own: none disturbs another.                               *)
(***************************************************************************)
EXTENDS MCParts, ExtractionNormalizationProofs, SequenceTheorems, TLAPS

-----------------------------------------------------------------------------
(* RateLimiter *)

RateInv == TypeOK /\ RingInOrder

-----------------------------------------------------------------------------
(* One ring *)

(* In a ring in order the slot before seq holds the newest time.           *)
LEMMA LatestIsNewest ==
    ASSUME RateInv, NEW l \in Limiters, NEW i \in Slots(l)
    PROVE  /\ Latest(l) \in Slots(l)
           /\ t[l][i] <= t[l][Latest(l)]
<1>1. Limit[l] \in Nat \ {0} /\ seq[l] \in Slots(l) /\ seq[l] \in Nat
  BY LimitAssumption DEF RateInv, TypeOK
<1>2. Latest(l) \in Slots(l)
  BY <1>1 DEF Latest, Slots
<1>3. Before(l, i, Latest(l))
  BY <1>1 DEF Latest, Slots, Before
<1>4. QED
  BY <1>2, <1>3 DEF RateInv, RingInOrder

(* What a limiter lets through comes after all it has let through before.  *)
LEMMA GrantIsNewest ==
    ASSUME RateInv, NEW l \in Limiters, NEW i \in Slots(l), NEW time \in Nat,
           t[l][seq[l]] + Bucket <= time, now <= time
    PROVE  t[l][i] <= time
<1>1. /\ seq[l] \in Slots(l) /\ t[l] \in [Slots(l) -> Nat] /\ now \in Nat
      /\ Bucket \in Nat
  BY BucketAssumption DEF RateInv, TypeOK
<1>2. t[l][i] <= t[l][Latest(l)] /\ Latest(l) \in Slots(l)
  BY LatestIsNewest
<1>3. t[l][Latest(l)] <= now \/ t[l][Latest(l)] <= t[l][seq[l]] + Bucket
  BY DEF RateInv, RingInOrder
<1>4. /\ t[l][i] \in Nat /\ t[l][Latest(l)] \in Nat /\ t[l][seq[l]] \in Nat
  BY <1>1, <1>2
<1>5. QED
  BY <1>1, <1>2, <1>3, <1>4

(* The turn passes to a slot of the ring.                                  *)
LEMMA FollowingIsSlot ==
    ASSUME NEW l \in Limiters, NEW i \in Slots(l)
    PROVE  Following(l, i) \in Slots(l)
<1>1. Limit[l] \in Nat \ {0} /\ i \in 0..(Limit[l] - 1)
  BY LimitAssumption DEF Slots
<1>2. CASE i = Limit[l] - 1
  BY <1>1, <1>2 DEF Following, Slots
<1>3. CASE i # Limit[l] - 1
  BY <1>1, <1>3 DEF Following, Slots
<1>4. QED
  BY <1>2, <1>3

(* The order of slots after the turn has passed on: the slot just taken    *)
(* comes last.                                                             *)
LEMMA TurnOfTheRing ==
    ASSUME RateInv, NEW l \in Limiters, NEW i \in Slots(l), NEW j \in Slots(l),
           seq'[l] = Following(l, seq[l]), Before(l, i, j)'
    PROVE  j = seq[l] \/ (i # seq[l] /\ Before(l, i, j))
<1>1. Limit[l] \in Nat \ {0} /\ seq[l] \in Slots(l)
  BY LimitAssumption DEF RateInv, TypeOK
<1>2. Before(l, i, j)' = (\/ i <= j /\ (j < seq'[l] \/ seq'[l] <= i)
                          \/ j < seq'[l] /\ seq'[l] <= i)
  BY DEF Before
<1>3. QED
  BY <1>1, <1>2 DEF Slots, Following, Before

LEMMA GrantKeeps ==
    ASSUME RateInv, NEW l \in Limiters, NEW time \in Nat, Grant(l, time),
           t[l][seq[l]] + Bucket <= time, now <= time,
           time <= now \/ time = t[l][seq[l]] + Bucket,
           now' = now
    PROVE  /\ DOMAIN t' = Limiters
           /\ \A k \in Limiters : t'[k] \in [Slots(k) -> Nat]
           /\ seq' \in [Limiters -> Nat] /\ \A k \in Limiters : seq'[k] \in Slots(k)
           /\ RingInOrder'
           /\ \A k \in Limiters : GrantSpaced(k)
<1> DEFINE s == seq[l]
<1>1. /\ Limit[l] \in Nat \ {0} /\ s \in Slots(l) /\ s \in Nat
      /\ t[l] \in [Slots(l) -> Nat]
      /\ now \in Nat /\ Bucket \in Nat \ {0} /\ DOMAIN t = Limiters
      /\ seq \in [Limiters -> Nat] /\ \A k \in Limiters : seq[k] \in Slots(k)
      /\ \A k \in Limiters : t[k] \in [Slots(k) -> Nat]
  BY LimitAssumption, BucketAssumption DEF RateInv, TypeOK
<1>2. /\ t'[l] = [t[l] EXCEPT ![s] = time] /\ DOMAIN t' = Limiters
      /\ \A k \in Limiters \ {l} : t'[k] = t[k]
  BY <1>1 DEF Grant
<1>3. /\ seq'[l] = Following(l, s) /\ \A k \in Limiters \ {l} : seq'[k] = seq[k]
      /\ seq' \in [Limiters -> Nat]
  <2>1. Following(l, s) \in Nat
    BY <1>1 DEF Following
  <2>2. QED
    BY <1>1, <2>1 DEF Grant
<1>4. t'[l] \in [Slots(l) -> Nat] /\ seq'[l] \in Slots(l)
  <2>1. Following(l, s) \in Slots(l)
    BY <1>1, FollowingIsSlot
  <2>2. QED
    BY <1>1, <1>2, <1>3, <2>1
<1>5. \A k \in Limiters : t'[k] \in [Slots(k) -> Nat] /\ seq'[k] \in Slots(k)
  BY <1>1, <1>2, <1>3, <1>4
<1>6. \A i \in Slots(l) : t[l][i] <= time
  BY GrantIsNewest
<1>7. \A i, j \in Slots(l) : Before(l, i, j)' => t'[l][i] <= t'[l][j]
  <2> SUFFICES ASSUME NEW i \in Slots(l), NEW j \in Slots(l), Before(l, i, j)'
               PROVE  t'[l][i] <= t'[l][j]
    OBVIOUS
  <2>1. j = s \/ (i # s /\ Before(l, i, j))
    BY <1>3, TurnOfTheRing
  <2>2. CASE j = s
    <3>1. t'[l][j] = time /\ t'[l][i] \in {time, t[l][i]}
      BY <1>1, <1>2, <2>2
    <3>2. QED
      BY <1>6, <3>1
  <2>3. CASE i # s /\ j # s /\ Before(l, i, j)
    <3>1. t'[l][i] = t[l][i] /\ t'[l][j] = t[l][j]
      BY <1>1, <1>2, <2>3
    <3>2. QED
      BY <3>1, <2>3 DEF RateInv, RingInOrder
  <2>4. QED
    BY <2>1, <2>2, <2>3
<1>8. t'[l][s] = time /\ Latest(l)' = s
  <2>1. t'[l][s] = time
    BY <1>1, <1>2
  <2>2. Latest(l)' = s
    BY <1>1, <1>3 DEF Latest, Following, Slots
  <2>3. QED
    BY <2>1, <2>2
<1>9. t'[l][s] <= now \/ t'[l][s] <= t'[l][seq'[l]] + Bucket
  <2>1. t[l][s] <= t'[l][seq'[l]]
    <3>1. t[l][s] <= t[l][seq'[l]]
      <4>1. Before(l, s, seq'[l])
        BY <1>1, <1>4 DEF Before, Slots
      <4>2. QED
        BY <1>1, <1>4, <4>1 DEF RateInv, RingInOrder
    <3>2. t'[l][seq'[l]] \in {time, t[l][seq'[l]]}
      BY <1>1, <1>2, <1>4
    <3>3. QED
      BY <1>1, <1>6, <3>1, <3>2
  <2>2. t[l][s] \in Nat /\ t'[l][seq'[l]] \in Nat
    BY <1>1, <1>4
  <2>3. QED
    BY <1>1, <1>8, <2>1, <2>2
<1>10. RingInOrder'
  <2> SUFFICES ASSUME NEW k \in Limiters
               PROVE  /\ \A i, j \in Slots(k) : Before(k, i, j)' => t'[k][i] <= t'[k][j]
                      /\ \/ t'[k][Latest(k)'] <= now'
                         \/ t'[k][Latest(k)'] <= t'[k][seq'[k]] + Bucket
    BY DEF RingInOrder, Slots
  <2>1. CASE k = l
    BY <1>7, <1>8, <1>9, <2>1
  <2>2. CASE k # l
    <3>1. t'[k] = t[k] /\ seq'[k] = seq[k]
      BY <1>2, <1>3, <2>2
    <3>2. Latest(k)' = Latest(k) /\ \A i, j \in Slots(k) : Before(k, i, j)' = Before(k, i, j)
      BY <3>1 DEF Latest, Before
    <3>3. QED
      BY <3>1, <3>2 DEF RateInv, RingInOrder
  <2>3. QED
    BY <2>1, <2>2
<1>11. \A k \in Limiters : GrantSpaced(k)
  <2> SUFFICES ASSUME NEW k \in Limiters, t'[k] # t[k]
               PROVE  /\ t[k][seq[k]] + Bucket <= t'[k][seq[k]]
                      /\ \A i \in Slots(k) : t[k][i] <= t'[k][seq[k]]
    BY DEF GrantSpaced
  <2>1. k = l
    BY <1>2
  <2>2. QED
    BY <2>1, <1>6, <1>8
<1>12. QED
  BY <1>2, <1>3, <1>5, <1>10, <1>11

-----------------------------------------------------------------------------
(* The steps *)

(* A try of a limiter keeps the rings in order, and what it grants, spaced. *)
LEMMA TryKeeps ==
    ASSUME RateInv, NEW c \in Callers, NEW name \in Names, NEW l \in Limiters,
           NEW again \in {"global", "named", "run"},
           NEW passed \in {"global", "named", "run"},
           TryBeforeRun(c, name, l, again, passed), UNCHANGED <<now, ran, late>>
    PROVE  RateInv' /\ \A k \in Limiters : GrantSpaced(k)
<1> DEFINE slot == t[l][seq[l]]
<1>1. /\ slot \in Nat /\ now \in Nat /\ Bucket \in Nat \ {0}
      /\ caller \in [Callers -> Called \cup {Idle}]
  <2>1. t[l] \in [Slots(l) -> Nat] /\ seq[l] \in Slots(l)
    BY DEF RateInv, TypeOK
  <2>2. QED
    BY <2>1, BucketAssumption DEF RateInv, TypeOK
<1>2. caller' \in [Callers -> Called \cup {Idle}]
  <2>1. \A where \in {"global", "named", "run"}, until \in Nat :
            Sleep(c, name, where, until) => caller' \in [Callers -> Called \cup {Idle}]
    <3> SUFFICES ASSUME NEW where \in {"global", "named", "run"}, NEW until \in Nat,
                        Sleep(c, name, where, until)
                 PROVE  caller' \in [Callers -> Called \cup {Idle}]
      OBVIOUS
    <3>1. [at |-> where, name |-> name, wake |-> until] \in Called
      BY DEF Called
    <3>2. QED
      BY <1>1, <3>1 DEF Sleep
  <2>2. slot + Bucket \in Nat
    BY <1>1
  <2>3. \/ Sleep(c, name, again, slot + Bucket)
        \/ Sleep(c, name, passed, slot + Bucket)
        \/ Sleep(c, name, passed, now)
    BY DEF TryBeforeRun
  <2>4. QED
    BY <1>1, <2>1, <2>2, <2>3
<1>3. now' \in Nat /\ ran' \in [Names -> Seq(Nat)] /\ late' \in Nat
  BY DEF RateInv, TypeOK
<1>4. CASE UNCHANGED <<t, seq>>
  <2>1. TypeOK'
    BY <1>2, <1>3, <1>4 DEF RateInv, TypeOK, Slots
  <2>2. RingInOrder'
    BY <1>4 DEF RateInv, RingInOrder, Before, Latest, Slots
  <2>3. \A k \in Limiters : GrantSpaced(k)
    BY <1>4 DEF GrantSpaced
  <2>4. QED
    BY <2>1, <2>2, <2>3 DEF RateInv
<1>5. ASSUME NEW time \in Nat, Grant(l, time), slot + Bucket <= time, now <= time,
             time <= now \/ time = slot + Bucket
      PROVE  RateInv' /\ \A k \in Limiters : GrantSpaced(k)
  <2>1. /\ DOMAIN t' = Limiters
        /\ \A k \in Limiters : t'[k] \in [Slots(k) -> Nat]
        /\ seq' \in [Limiters -> Nat] /\ \A k \in Limiters : seq'[k] \in Slots(k)
        /\ RingInOrder'
        /\ \A k \in Limiters : GrantSpaced(k)
    BY <1>5, GrantKeeps
  <2>2. TypeOK'
    BY <1>2, <1>3, <2>1 DEF TypeOK, Slots
  <2>3. QED
    BY <2>1, <2>2 DEF RateInv
<1>6. CASE now - slot >= 0 /\ now - slot < Bucket /\ GrantLater(l)
  <2>1. slot + Bucket \in Nat /\ now <= slot + Bucket /\ slot + Bucket <= slot + Bucket
    BY <1>1, <1>6
  <2>2. Grant(l, slot + Bucket)
    BY <1>6 DEF GrantLater
  <2>3. QED
    BY <1>5, <2>1, <2>2
<1>7. CASE now - slot >= Bucket /\ Grant(l, now)
  <2>1. slot + Bucket <= now /\ now <= now
    BY <1>1, <1>7
  <2>2. QED
    BY <1>1, <1>5, <1>7, <2>1
<1>8. QED
  BY <1>4, <1>6, <1>7 DEF TryBeforeRun

(* A call that is under way has the name it was made with.                 *)
LEMMA AwakeCall ==
    ASSUME TypeOK, NEW c \in Callers, NEW where \in {"global", "named", "run"}, Awake(c, where)
    PROVE  caller[c] \in Called /\ caller[c].name \in Names
<1>1. caller[c] \in Called \cup {Idle} /\ caller[c].at = where
  BY DEF TypeOK, Awake
<1>2. caller[c] # Idle
  BY <1>1 DEF Idle
<1>3. QED
  BY <1>1, <1>2 DEF Called

LEMMA RateInit == Init => RateInv
<1> SUFFICES ASSUME Init PROVE RateInv
  OBVIOUS
<1>1. \A l \in Limiters : Limit[l] \in Nat \ {0} /\ 0 \in Slots(l)
  BY LimitAssumption DEF Slots
<1>2. /\ DOMAIN t = Limiters /\ seq \in [Limiters -> Nat]
      /\ \A l \in Limiters : /\ t[l] = [i \in Slots(l) |-> 0] /\ seq[l] = 0
                             /\ t[l] \in [Slots(l) -> Nat] /\ seq[l] \in Slots(l)
  BY <1>1 DEF Init
<1>3. now = Bucket /\ now \in Nat /\ Bucket \in Nat
  BY BucketAssumption DEF Init
<1>4. TypeOK
  <2>1. ran \in [Names -> Seq(Nat)]
    BY DEF Init
  <2>2. caller \in [Callers -> Called \cup {Idle}]
    BY DEF Init
  <2>3. QED
    BY <1>2, <1>3, <2>1, <2>2 DEF Init, TypeOK
<1>5. RingInOrder
  <2> SUFFICES ASSUME NEW l \in Limiters
               PROVE  /\ \A i, j \in Slots(l) : t[l][i] <= t[l][j]
                      /\ t[l][Latest(l)] <= now
    BY DEF RingInOrder
  <2>1. Latest(l) \in Slots(l)
    BY <1>1, <1>2 DEF Latest, Slots
  <2>2. QED
    BY <1>2, <1>3, <2>1
<1>6. QED
  BY <1>4, <1>5 DEF RateInv

LEMMA RateStep == RateInv /\ [Next]_vars => RateInv' /\ \A l \in Limiters : GrantSpaced(l)
<1> SUFFICES ASSUME RateInv, [Next]_vars
             PROVE  RateInv' /\ \A l \in Limiters : GrantSpaced(l)
  OBVIOUS
<1>1. ASSUME NEW c \in Callers, NEW name \in Names, Call(c, name)
      PROVE  RateInv' /\ \A l \in Limiters : GrantSpaced(l)
  BY <1>1, TryKeeps DEF Call, Limiters
<1>2. ASSUME NEW c \in Callers, CallAgain(c)
      PROVE  RateInv' /\ \A l \in Limiters : GrantSpaced(l)
  <2>1. caller[c].name \in Names
    BY <1>2, AwakeCall DEF CallAgain, RateInv
  <2>2. QED
    BY <1>2, <2>1, TryKeeps DEF CallAgain, Limiters
<1>3. ASSUME NEW c \in Callers, TryName(c)
      PROVE  RateInv' /\ \A l \in Limiters : GrantSpaced(l)
  <2>1. caller[c].name \in Names
    BY <1>3, AwakeCall DEF TryName, RateInv
  <2>2. QED
    BY <1>3, <2>1, TryKeeps DEF TryName, Limiters
<1>4. ASSUME UNCHANGED <<t, seq>>, now' \in Nat, now <= now',
             caller' \in [Callers -> Called \cup {Idle}],
             ran' \in [Names -> Seq(Nat)], late' \in Nat
      PROVE  RateInv' /\ \A l \in Limiters : GrantSpaced(l)
  <2>1. TypeOK'
    BY <1>4 DEF RateInv, TypeOK, Slots
  <2>2. RingInOrder'
    <3> SUFFICES ASSUME NEW l \in Limiters
                 PROVE  \/ t[l][Latest(l)] <= now'
                        \/ t[l][Latest(l)] <= t[l][seq[l]] + Bucket
      BY <1>4 DEF RateInv, RingInOrder, Before, Latest, Slots
    <3>1. Latest(l) \in Slots(l) /\ t[l] \in [Slots(l) -> Nat]
      <4>1. Limit[l] \in Nat \ {0} /\ seq[l] \in Slots(l)
        BY LimitAssumption DEF RateInv, TypeOK
      <4>2. QED
        BY <4>1 DEF RateInv, TypeOK, Latest, Slots
    <3>2. t[l][Latest(l)] \in Nat /\ now \in Nat
      BY <3>1 DEF RateInv, TypeOK
    <3>3. t[l][Latest(l)] <= now \/ t[l][Latest(l)] <= t[l][seq[l]] + Bucket
      BY DEF RateInv, RingInOrder
    <3>4. QED
      BY <1>4, <3>2, <3>3
  <2>3. \A l \in Limiters : GrantSpaced(l)
    BY <1>4 DEF GrantSpaced
  <2>4. QED
    BY <2>1, <2>2, <2>3 DEF RateInv
<1>5. ASSUME NEW c \in Callers, Run(c)
      PROVE  RateInv' /\ \A l \in Limiters : GrantSpaced(l)
  <2>1. caller[c].name \in Names /\ now \in Nat
    BY <1>5, AwakeCall DEF Run, RateInv, TypeOK
  <2>2. Append(ran[caller[c].name], now) \in Seq(Nat)
    BY <2>1 DEF RateInv, TypeOK
  <2>3. ran' \in [Names -> Seq(Nat)]
    BY <1>5, <2>2 DEF Run, RateInv, TypeOK
  <2>4. caller' \in [Callers -> Called \cup {Idle}]
    BY <1>5 DEF Run, RateInv, TypeOK
  <2>5. QED
    BY <1>4, <1>5, <2>1, <2>3, <2>4 DEF Run, RateInv, TypeOK
<1>6. CASE Tick
  BY <1>4, <1>6 DEF Tick, RateInv, TypeOK
<1>7. CASE UNCHANGED vars
  BY <1>4, <1>7 DEF vars, RateInv, TypeOK
<1>8. QED
  BY <1>1, <1>2, <1>3, <1>5, <1>6, <1>7 DEF Next

-----------------------------------------------------------------------------
(* The calls of one name: from the grants of its limiter to their runs *)

(* In a ring of size L whose turn is at s, how many grants ago slot i was  *)
(* taken.                                                                  *)
Age(L, s, i) == IF i < s THEN s - i ELSE s + L - i

(* The ring holds the last of the grants 1..len, of times g.               *)
Granted(ring, L, s, len, g) ==
    /\ \A i, j \in 1..len : i <= j => g[i] <= g[j]
    /\ \A i \in 1..len : i + L <= len => g[i] + Bucket <= g[i + L]
    /\ \A i \in 0..(L - 1) : Age(L, s, i) <= len => ring[i] = g[len + 1 - Age(L, s, i)]

(* A call that waits for its time may stand for a grant of that time, or   *)
(* for a later one that is over.                                           *)
Fits(time, grant, clock) == time <= grant /\ (grant <= clock \/ grant = time)

(* Of the grants as many have run as there are runs, the i-th run no       *)
(* earlier than the i-th grant and at most delay after it; q gives every   *)
(* call that waits one of the others.                                      *)
Served(past, waiting, clock, delay, len, g, q) ==
    /\ Len(past) <= len
    /\ \A i \in 1..Len(past) : g[i] <= past[i] /\ past[i] <= g[i] + delay
    /\ \A c \in DOMAIN waiting :
           q[c] \in 1..len /\ q[c] > Len(past) /\ Fits(waiting[c], g[q[c]], clock)
    /\ \A c, d \in DOMAIN waiting : q[c] = q[d] => c = d
    /\ \A i \in 1..len : i > Len(past) => \E c \in DOMAIN waiting : q[c] = i

Traced(ring, L, s, past, waiting, clock, delay) ==
    \E len \in Nat : \E g \in [1..len -> Nat], q \in [Callers -> Nat] :
        Granted(ring, L, s, len, g) /\ Served(past, waiting, clock, delay, len, g, q)

LEMMA TracedBy ==
    ASSUME NEW ring, NEW L, NEW s, NEW past, NEW waiting, NEW clock, NEW delay,
           NEW len \in Nat, NEW g \in [1..len -> Nat], NEW q \in [Callers -> Nat],
           Granted(ring, L, s, len, g), Served(past, waiting, clock, delay, len, g, q)
    PROVE  Traced(ring, L, s, past, waiting, clock, delay)
BY DEF Traced

LEMMA TracedSpaced ==
    ASSUME NEW ring, NEW L \in Nat \ {0}, NEW s, NEW past \in Seq(Nat), NEW waiting,
           NEW clock, NEW delay \in Nat, Traced(ring, L, s, past, waiting, clock, delay)
    PROVE  Spaced(past, L, delay)
<1>1. PICK len \in Nat : \E g \in [1..len -> Nat], q \in [Callers -> Nat] :
          Granted(ring, L, s, len, g) /\ Served(past, waiting, clock, delay, len, g, q)
  BY DEF Traced
<1>2. PICK g \in [1..len -> Nat], q \in [Callers -> Nat] :
          Granted(ring, L, s, len, g) /\ Served(past, waiting, clock, delay, len, g, q)
  BY <1>1
<1> SUFFICES ASSUME NEW i \in 1..Len(past), i + L <= Len(past)
             PROVE  past[i] + Bucket <= past[i + L] + delay
  BY DEF Spaced
<1>3. Len(past) \in Nat
  OBVIOUS
<1>4. i + L \in 1..Len(past) /\ Len(past) <= len
  BY <1>2, <1>3 DEF Served
<1>5. past[i] <= g[i] + delay /\ g[i + L] <= past[i + L]
  BY <1>2, <1>4 DEF Served
<1>6. i \in 1..len /\ i + L \in 1..len
  BY <1>3, <1>4
<1>7. g[i] + Bucket <= g[i + L]
  BY <1>2, <1>6 DEF Granted
<1>8. past[i] \in Nat /\ past[i + L] \in Nat
  BY <1>4, ElementOfSeq
<1>9. g[i] \in Nat /\ g[i + L] \in Nat /\ Bucket \in Nat
  BY <1>6, BucketAssumption
<1>10. \A a, b, x, y, k, e \in Nat : a <= x + e /\ x + k <= y /\ y <= b => a + k <= b + e
  OBVIOUS
<1>11. QED
  BY <1>5, <1>7, <1>8, <1>9, <1>10

(* Time goes on, and the calls that wait may be later than any before.     *)
LEMMA TracedLater ==
    ASSUME NEW ring, NEW L, NEW s, NEW past \in Seq(Nat), NEW waiting,
           NEW clock \in Nat, NEW delay \in Nat, NEW clock2 \in Nat, NEW delay2 \in Nat,
           clock <= clock2, delay <= delay2,
           Traced(ring, L, s, past, waiting, clock, delay)
    PROVE  Traced(ring, L, s, past, waiting, clock2, delay2)
<1>1. PICK len \in Nat : \E g \in [1..len -> Nat], q \in [Callers -> Nat] :
          Granted(ring, L, s, len, g) /\ Served(past, waiting, clock, delay, len, g, q)
  BY DEF Traced
<1>2. PICK g \in [1..len -> Nat], q \in [Callers -> Nat] :
          Granted(ring, L, s, len, g) /\ Served(past, waiting, clock, delay, len, g, q)
  BY <1>1
<1>3. \A i \in 1..Len(past) : g[i] <= past[i] /\ past[i] <= g[i] + delay2
  <2> SUFFICES ASSUME NEW i \in 1..Len(past) PROVE g[i] <= past[i] /\ past[i] <= g[i] + delay2
    OBVIOUS
  <2>1. i \in 1..len /\ g[i] <= past[i] /\ past[i] <= g[i] + delay
    <3>1. Len(past) \in Nat /\ Len(past) <= len
      BY <1>2 DEF Served
    <3>2. QED
      BY <1>2, <3>1 DEF Served
  <2>2. g[i] \in Nat /\ past[i] \in Nat
    BY <2>1
  <2>3. QED
    BY <2>1, <2>2
<1>4. \A c \in DOMAIN waiting : Fits(waiting[c], g[q[c]], clock2)
  <2> SUFFICES ASSUME NEW c \in DOMAIN waiting PROVE Fits(waiting[c], g[q[c]], clock2)
    OBVIOUS
  <2>1. g[q[c]] \in Nat /\ Fits(waiting[c], g[q[c]], clock)
    BY <1>2 DEF Served
  <2>2. QED
    BY <2>1 DEF Fits
<1>5. Served(past, waiting, clock2, delay2, len, g, q)
  BY <1>2, <1>3, <1>4 DEF Served
<1>6. QED
  BY <1>2, <1>5, TracedBy

LEMMA AgeOfTurn ==
    ASSUME NEW L \in Nat \ {0}, NEW s \in 0..(L - 1), NEW i \in 0..(L - 1), NEW next,
           next = IF s = L - 1 THEN 0 ELSE s + 1
    PROVE  /\ Age(L, s, i) \in 1..L
           /\ Age(L, next, i) = IF i = s THEN 1 ELSE Age(L, s, i) + 1
           /\ i = s => Age(L, s, i) = L
BY DEF Age

(* A grant: the slot of age L, at s, becomes the newest.                   *)
LEMMA GrantIsTraced ==
    ASSUME NEW L \in Nat \ {0}, NEW s \in 0..(L - 1), NEW ring \in [0..(L - 1) -> Nat],
           NEW next, next = IF s = L - 1 THEN 0 ELSE s + 1,
           NEW len \in Nat, NEW g \in [1..len -> Nat], Granted(ring, L, s, len, g),
           NEW time \in Nat, ring[s] + Bucket <= time, \A i \in 0..(L - 1) : ring[i] <= time,
           NEW g2 \in [1..(len + 1) -> Nat],
           g2[len + 1] = time, \A i \in 1..len : g2[i] = g[i]
    PROVE  Granted([ring EXCEPT ![s] = time], L, next, len + 1, g2)
<1>1. Bucket \in Nat
  BY BucketAssumption
<1>2. len >= 1 => g[len] <= time
  <2> SUFFICES ASSUME len >= 1 PROVE g[len] <= time
    OBVIOUS
  <2> DEFINE last == IF s = 0 THEN L - 1 ELSE s - 1
  <2>1. last \in 0..(L - 1) /\ Age(L, s, last) = 1
    BY DEF Age
  <2> HIDE DEF last
  <2>2. ring[last] = g[len + 1 - 1]
    BY <2>1 DEF Granted
  <2>3. QED
    BY <2>1, <2>2
<1>3. L <= len => g[len + 1 - L] + Bucket <= time
  <2>1. L <= len => ring[s] = g[len + 1 - L]
    BY AgeOfTurn DEF Granted
  <2>2. QED
    BY <2>1
<1>4. ASSUME NEW i \in 1..(len + 1), NEW j \in 1..(len + 1), i <= j PROVE g2[i] <= g2[j]
  <2>1. CASE j # len + 1
    <3>1. i \in 1..len /\ j \in 1..len
      BY <1>4, <2>1
    <3>2. QED
      BY <1>4, <3>1 DEF Granted
  <2>2. CASE j = len + 1 /\ i # len + 1
    <3>1. i \in 1..len /\ len \in 1..len /\ i <= len
      BY <2>2
    <3>2. g[i] <= g[len] /\ g[i] \in Nat /\ g[len] \in Nat
      BY <3>1 DEF Granted
    <3>3. QED
      BY <1>2, <2>2, <3>1, <3>2
  <2>3. CASE j = len + 1 /\ i = len + 1
    BY <2>3
  <2>4. QED
    BY <2>1, <2>2, <2>3
<1>5. ASSUME NEW i \in 1..(len + 1), i + L <= len + 1 PROVE g2[i] + Bucket <= g2[i + L]
  <2>1. CASE i + L = len + 1
    <3>1. i = len + 1 - L /\ L <= len /\ i \in 1..len
      BY <2>1
    <3>2. QED
      BY <1>3, <2>1, <3>1
  <2>2. CASE i + L # len + 1
    <3>1. i \in 1..len /\ i + L \in 1..len
      BY <1>5, <2>2
    <3>2. QED
      BY <3>1 DEF Granted
  <2>3. QED
    BY <2>1, <2>2
<1>6. ASSUME NEW i \in 0..(L - 1), Age(L, next, i) <= len + 1
      PROVE  [ring EXCEPT ![s] = time][i] = g2[len + 1 + 1 - Age(L, next, i)]
  <2>1. CASE i = s
    <3>1. Age(L, next, i) = 1 /\ len + 1 + 1 - 1 = len + 1
      BY <2>1, AgeOfTurn
    <3>2. QED
      BY <2>1, <3>1
  <2>2. CASE i # s
    <3>1. PICK age \in 1..L : age = Age(L, s, i)
      BY AgeOfTurn
    <3>2. Age(L, next, i) = age + 1
      <4>1. Age(L, next, i) = IF i = s THEN 1 ELSE Age(L, s, i) + 1
        BY DEF Age
      <4>2. QED
        BY <2>2, <3>1, <4>1
    <3>3. age + 1 <= len + 1
      BY <1>6, <3>2
    <3>4. age <= len /\ len + 1 - age \in 1..len /\ len + 1 + 1 - (age + 1) = len + 1 - age
      BY <3>3
    <3>5. ring[i] = g[len + 1 - age]
      BY <3>1, <3>4 DEF Granted
    <3>6. [ring EXCEPT ![s] = time][i] = ring[i]
      BY <2>2
    <3>7. QED
      BY <3>2, <3>4, <3>5, <3>6
  <2>3. QED
    BY <2>1, <2>2
<1>7. QED
  BY <1>4, <1>5, <1>6 DEF Granted

(* The call granted waits for its time.                                    *)
Enters(waiting, waiting2, c, time) ==
    /\ c \in Callers \ DOMAIN waiting
    /\ DOMAIN waiting \subseteq Callers
    /\ DOMAIN waiting2 = DOMAIN waiting \cup {c}
    /\ waiting2[c] = time
    /\ \A d \in DOMAIN waiting : waiting2[d] = waiting[d]

Longer(g, g2, len, time) == g2[len + 1] = time /\ \A i \in 1..len : g2[i] = g[i]

Assigned(q, q2, c, len) == q2[c] = len + 1 /\ \A d \in Callers \ {c} : q2[d] = q[d]

LEMMA GrantIsServed ==
    ASSUME NEW past \in Seq(Nat), NEW waiting, NEW c, NEW time \in Nat, NEW len \in Nat,
           NEW clock, NEW delay,
           NEW g, NEW q, Served(past, waiting, clock, delay, len, g, q),
           NEW g2, NEW q2, NEW waiting2,
           Longer(g, g2, len, time), Assigned(q, q2, c, len),
           Enters(waiting, waiting2, c, time)
    PROVE  Served(past, waiting2, clock, delay, len + 1, g2, q2)
<1> USE DEF Enters, Longer, Assigned
<1>1. Len(past) \in Nat /\ Len(past) <= len /\ Len(past) <= len + 1
  BY DEF Served
<1>2. \A i \in 1..Len(past) : g2[i] <= past[i] /\ past[i] <= g2[i] + delay
  <2> SUFFICES ASSUME NEW i \in 1..Len(past) PROVE g2[i] <= past[i] /\ past[i] <= g2[i] + delay
    OBVIOUS
  <2>1. i \in 1..len
    BY <1>1
  <2>2. g2[i] = g[i] /\ g[i] <= past[i] /\ past[i] <= g[i] + delay
    BY <2>1 DEF Served
  <2>3. QED
    BY <2>2
<1>3. \A d \in DOMAIN waiting : /\ q2[d] = q[d] /\ q2[d] \in 1..len /\ q2[d] > Len(past)
                                /\ Fits(waiting2[d], g2[q2[d]], clock)
  <2> SUFFICES ASSUME NEW d \in DOMAIN waiting
               PROVE  /\ q2[d] = q[d] /\ q2[d] \in 1..len /\ q2[d] > Len(past)
                      /\ Fits(waiting2[d], g2[q2[d]], clock)
    OBVIOUS
  <2>1. q2[d] = q[d] /\ waiting2[d] = waiting[d]
    OBVIOUS
  <2>2. q[d] \in 1..len /\ q[d] > Len(past) /\ Fits(waiting[d], g[q[d]], clock)
    BY DEF Served
  <2>3. QED
    BY <2>1, <2>2
<1>4. ASSUME NEW d \in DOMAIN waiting2
      PROVE  /\ q2[d] \in 1..(len + 1) /\ q2[d] > Len(past)
             /\ Fits(waiting2[d], g2[q2[d]], clock)
  <2>1. CASE d = c
    <3>1. len + 1 \in 1..(len + 1) /\ len + 1 > Len(past)
      BY <1>1
    <3>2. Fits(time, time, clock)
      BY DEF Fits
    <3>3. QED
      BY <2>1, <3>1, <3>2
  <2>2. CASE d \in DOMAIN waiting
    <3>1. q2[d] \in 1..(len + 1)
      BY <1>3, <2>2
    <3>2. QED
      BY <1>3, <2>2, <3>1
  <2>3. QED
    BY <2>1, <2>2
<1>5. \A d, e \in DOMAIN waiting2 : q2[d] = q2[e] => d = e
  BY <1>3 DEF Served
<1>6. ASSUME NEW i \in 1..(len + 1), i > Len(past) PROVE \E d \in DOMAIN waiting2 : q2[d] = i
  <2>1. CASE i = len + 1
    BY <2>1
  <2>2. CASE i # len + 1
    <3>1. i \in 1..len
      BY <1>6, <2>2
    <3>2. \E d \in DOMAIN waiting : q[d] = i
      BY <1>6, <3>1 DEF Served
    <3>3. PICK d \in DOMAIN waiting : q[d] = i
      BY <3>2
    <3>4. QED
      BY <1>3, <3>3
  <2>3. QED
    BY <2>1, <2>2
<1>7. QED
  BY <1>1, <1>2, <1>4, <1>5, <1>6 DEF Served

(* A call that runs takes the grant of the first that waits, which takes   *)
(* that of the call, a later one that is over.                             *)
LEMMA RunIsServed ==
    ASSUME NEW past \in Seq(Nat), NEW waiting, NEW c \in DOMAIN waiting, NEW time \in Nat,
           DOMAIN waiting \subseteq Callers,
           NEW delay \in Nat,
           \A d \in DOMAIN waiting : waiting[d] \in Nat /\ time <= waiting[d] + delay,
           waiting[c] <= time,
           NEW len \in Nat, NEW g \in [1..len -> Nat], NEW q \in [Callers -> Nat],
           \A i, j \in 1..len : i <= j => g[i] <= g[j],
           Served(past, waiting, time, delay, len, g, q),
           NEW waiting2, DOMAIN waiting2 = DOMAIN waiting \ {c},
           \A d \in DOMAIN waiting2 : waiting2[d] = waiting[d]
    PROVE  \E q2 \in [Callers -> Nat] :
               Served(Append(past, time), waiting2, time, delay, len, g, q2)
<1> DEFINE runs2 == Append(past, time)
<1>1. PICK m \in Nat : m = Len(past)
  OBVIOUS
<1> DEFINE k == m + 1
<1>2. /\ q[c] \in 1..len /\ q[c] > m /\ g[q[c]] <= time
      /\ k \in 1..len /\ k <= q[c]
  <2>1. q[c] \in 1..len /\ q[c] > m /\ Fits(waiting[c], g[q[c]], time)
    BY <1>1 DEF Served
  <2>2. QED
    BY <2>1 DEF Fits
<1>3. PICK first \in DOMAIN waiting : q[first] = k
  <2>1. k > m
    OBVIOUS
  <2>2. QED
    BY <1>1, <1>2, <2>1 DEF Served
<1>4. /\ g[k] <= time /\ time <= g[k] + delay
      /\ Fits(waiting[first], g[q[c]], time)
  <2>1. Fits(waiting[first], g[k], time)
    BY <1>3 DEF Served
  <2>2. g[k] \in Nat /\ g[q[c]] \in Nat /\ g[k] <= g[q[c]]
    BY <1>2
  <2>3. waiting[first] \in Nat /\ time <= waiting[first] + delay
    OBVIOUS
  <2>4. QED
    BY <1>2, <2>1, <2>2, <2>3 DEF Fits
<1>5. PICK q2 \in [Callers -> Nat] :
          q2[first] = q[c] /\ \A d \in Callers \ {first} : q2[d] = q[d]
  <2>1. [q EXCEPT ![first] = q[c]] \in [Callers -> Nat]
    BY <1>2
  <2>2. QED
    BY <1>3, <2>1
<1>6. Len(runs2) = k /\ runs2[k] = time /\ \A i \in 1..m : runs2[i] = past[i]
  BY <1>1
<1>7. \A i \in 1..Len(runs2) : g[i] <= runs2[i] /\ runs2[i] <= g[i] + delay
  <2> SUFFICES ASSUME NEW i \in 1..k PROVE g[i] <= runs2[i] /\ runs2[i] <= g[i] + delay
    BY <1>6
  <2>1. CASE i = k
    BY <1>4, <1>6, <2>1
  <2>2. CASE i # k
    <3>1. i \in 1..m
      BY <2>2
    <3>2. QED
      BY <1>1, <1>6, <3>1 DEF Served
  <2>3. QED
    BY <2>1, <2>2
<1>8. ASSUME NEW d \in DOMAIN waiting2
      PROVE  q2[d] \in 1..len /\ q2[d] > k /\ Fits(waiting2[d], g[q2[d]], time)
  <2>1. d \in DOMAIN waiting /\ d # c /\ q[d] # q[c]
    BY DEF Served
  <2>2. CASE d = first
    <3>1. q2[d] = q[c] /\ q[c] # k
      BY <1>3, <1>5, <2>1, <2>2
    <3>2. QED
      BY <1>2, <1>4, <2>1, <2>2, <3>1
  <2>3. CASE d # first
    <3>1. q2[d] = q[d] /\ q[d] # k
      BY <1>3, <1>5, <2>1, <2>3 DEF Served
    <3>2. q[d] \in 1..len /\ q[d] > m /\ Fits(waiting[d], g[q[d]], time)
      BY <1>1, <2>1 DEF Served
    <3>3. QED
      BY <2>1, <3>1, <3>2
  <2>4. QED
    BY <2>2, <2>3
<1>9. ASSUME NEW d \in DOMAIN waiting2, NEW e \in DOMAIN waiting2, q2[d] = q2[e]
      PROVE  d = e
  <2>1. \A x \in DOMAIN waiting2 : x \in DOMAIN waiting /\ x \in Callers /\ q[x] # q[c]
    BY DEF Served
  <2>2. q2[d] = (IF d = first THEN q[c] ELSE q[d]) /\ q2[e] = (IF e = first THEN q[c] ELSE q[e])
    BY <1>5, <2>1
  <2>3. q[d] = q[e] \/ (d = first /\ e = first)
    BY <1>9, <2>1, <2>2
  <2>4. QED
    BY <2>1, <2>3 DEF Served
<1>10. ASSUME NEW i \in 1..len, i > k PROVE \E d \in DOMAIN waiting2 : q2[d] = i
  <2>1. i > m
    BY <1>10
  <2>2. PICK d \in DOMAIN waiting : q[d] = i
    BY <1>1, <2>1 DEF Served
  <2>3. CASE d = c
    <3>1. first # c
      BY <1>3, <1>10, <2>2, <2>3
    <3>2. QED
      BY <1>3, <1>5, <2>2, <2>3, <3>1
  <2>4. CASE d # c
    <3>1. d # first
      BY <1>3, <1>10, <2>2
    <3>2. QED
      BY <1>5, <2>2, <2>4, <3>1
  <2>5. QED
    BY <2>3, <2>4
<1> HIDE DEF k, runs2
<1>11. k <= len
  BY <1>2
<1>12. Served(runs2, waiting2, time, delay, len, g, q2)
  BY <1>6, <1>7, <1>8, <1>9, <1>10, <1>11 DEF Served
<1>13. QED
  BY <1>12 DEF runs2

-----------------------------------------------------------------------------
(* Every state reached is well formed.                                     *)
THEOREM TypeCorrect == Spec => []TypeOK
<1>1. RateInv => TypeOK
  BY DEF RateInv
<1>2. QED
  BY RateInit, RateStep, <1>1, PTL DEF Spec

(* The ring of every limiter stays in the order of its times, whatever the *)
(* order in which the timers wake the calls.                               *)
THEOREM RingStaysInOrder == Spec => []RingInOrder
<1>1. RateInv => RingInOrder
  BY DEF RateInv
<1>2. QED
  BY RateInit, RateStep, <1>1, PTL DEF Spec

(* Every call a limiter lets through is a bucket after the one Limit calls *)
(* before it, and after all it let through.                                *)
THEOREM GrantsAreSpaced == Spec => EachGrantIsSpaced
<1> DEFINE Rule == \A l \in Limiters : GrantSpaced(l)
<1>1. RateInv /\ [Next]_vars => RateInv' /\ [Rule]_vars
  BY RateStep
<1>2. QED
  BY RateInit, <1>1, PTL DEF Spec, EachGrantIsSpaced

-----------------------------------------------------------------------------
(* The calls of every name *)

(* The calls of name n its limiter has let through and that have not run,  *)
(* with the times they wait for.                                           *)
Waits(queue, n) ==
    [c \in {c \in Callers : queue[c].at = "run" /\ queue[c].name = n} |-> queue[c].wake]

(* None of them is later than the latest.                                  *)
Punctual(queue, clock, delay) ==
    \A c \in Callers :
        queue[c].at = "run" => queue[c].wake \in Nat /\ clock <= queue[c].wake + delay

TraceInv ==
    /\ RateInv
    /\ Punctual(caller, now, late)
    /\ \A n \in Names : Traced(t[n], Limit[n], seq[n], ran[n], Waits(caller, n), now, late)

(* What waits for a name is what it was, when the one call that changes    *)
(* neither waited nor waits for it.                                        *)
LEMMA WaitsAreKept ==
    ASSUME NEW queue, NEW calls2, NEW c \in Callers, NEW n,
           \A d \in Callers \ {c} : calls2[d] = queue[d],
           ~(queue[c].at = "run" /\ queue[c].name = n),
           ~(calls2[c].at = "run" /\ calls2[c].name = n)
    PROVE  Waits(calls2, n) = Waits(queue, n)
<1> DEFINE S(x) == {d \in Callers : x[d].at = "run" /\ x[d].name = n}
<1>1. S(calls2) = S(queue) /\ \A d \in S(queue) : calls2[d].wake = queue[d].wake
  OBVIOUS
<1>2. Waits(calls2, n) = [d \in S(calls2) |-> calls2[d].wake]
      /\ Waits(queue, n) = [d \in S(queue) |-> queue[d].wake]
  BY DEF Waits
<1> HIDE DEF S
<1>3. QED
  BY <1>1, <1>2

LEMMA TraceInit == Init => TraceInv
<1> SUFFICES ASSUME Init PROVE TraceInv
  OBVIOUS
<1>1. Punctual(caller, now, late)
  BY DEF Init, Punctual, Idle
<1>2. ASSUME NEW n \in Names
      PROVE  Traced(t[n], Limit[n], seq[n], ran[n], Waits(caller, n), now, late)
  <2>1. PICK L \in Nat \ {0} : L = Limit[n]
    BY LimitAssumption DEF Limiters
  <2>2. PICK g \in [1..0 -> Nat], q \in [Callers -> Nat] : TRUE
    <3>1. [i \in 1..0 |-> 0] \in [1..0 -> Nat] /\ [c \in Callers |-> 0] \in [Callers -> Nat]
      OBVIOUS
    <3>2. QED
      BY <3>1
  <2>3. seq[n] = 0 /\ ran[n] = <<>> /\ DOMAIN Waits(caller, n) = {}
    BY DEF Init, Limiters, Waits, Idle
  <2>4. Granted(t[n], L, 0, 0, g)
    <3>1. \A i \in 0..(L - 1) : ~(Age(L, 0, i) <= 0)
      BY DEF Age
    <3>2. QED
      BY <3>1 DEF Granted
  <2>5. Served(<<>>, Waits(caller, n), now, late, 0, g, q)
    BY <2>3 DEF Served
  <2>6. Traced(t[n], L, 0, <<>>, Waits(caller, n), now, late)
    BY <2>4, <2>5, TracedBy
  <2>7. QED
    BY <2>1, <2>3, <2>6
<1>3. QED
  BY <1>1, <1>2, RateInit DEF TraceInv

(* A grant of the limiter of a name.                                       *)
LEMMA NamedGrant ==
    ASSUME TraceInv, NEW c \in Callers, NEW n \in Names, caller[c].at # "run",
           NEW time \in Nat, Grant(n, time), Sleep(c, n, "run", time),
           t[n][seq[n]] + Bucket <= time, now <= time, UNCHANGED <<now, ran, late>>
    PROVE  Traced(t'[n], Limit[n], seq'[n], ran'[n], Waits(caller', n), now', late')
<1>1. PICK L \in Nat \ {0} : L = Limit[n]
  BY LimitAssumption DEF Limiters
<1>2. /\ n \in Limiters /\ Slots(n) = 0..(L - 1)
      /\ t[n] \in [0..(L - 1) -> Nat] /\ seq[n] \in 0..(L - 1)
      /\ DOMAIN t = Limiters /\ DOMAIN seq = Limiters /\ ran[n] \in Seq(Nat)
      /\ DOMAIN caller = Callers
  BY <1>1 DEF TraceInv, RateInv, TypeOK, Limiters, Slots
<1>3. /\ t'[n] = [t[n] EXCEPT ![seq[n]] = time]
      /\ seq'[n] = IF seq[n] = L - 1 THEN 0 ELSE seq[n] + 1
      /\ ran'[n] = ran[n]
  BY <1>1, <1>2 DEF Grant, Following
<1>4. \A i \in 0..(L - 1) : t[n][i] <= time
  BY <1>2, GrantIsNewest DEF TraceInv
<1>5. PICK len \in Nat : \E g \in [1..len -> Nat], q \in [Callers -> Nat] :
          /\ Granted(t[n], L, seq[n], len, g)
          /\ Served(ran[n], Waits(caller, n), now, late, len, g, q)
  BY <1>1 DEF TraceInv, Traced
<1>6. PICK g \in [1..len -> Nat], q \in [Callers -> Nat] :
          /\ Granted(t[n], L, seq[n], len, g)
          /\ Served(ran[n], Waits(caller, n), now, late, len, g, q)
  BY <1>5
<1>7. PICK g2 \in [1..(len + 1) -> Nat] : g2[len + 1] = time /\ \A i \in 1..len : g2[i] = g[i]
  <2> DEFINE h == [i \in 1..(len + 1) |-> IF i = len + 1 THEN time ELSE g[i]]
  <2>1. h \in [1..(len + 1) -> Nat] /\ h[len + 1] = time /\ \A i \in 1..len : h[i] = g[i]
    OBVIOUS
  <2> HIDE DEF h
  <2>2. QED
    BY <2>1
<1>8. PICK q2 \in [Callers -> Nat] : q2[c] = len + 1 /\ \A d \in Callers \ {c} : q2[d] = q[d]
  <2> DEFINE p == [q EXCEPT ![c] = len + 1]
  <2>1. p \in [Callers -> Nat] /\ p[c] = len + 1 /\ \A d \in Callers \ {c} : p[d] = q[d]
    OBVIOUS
  <2> HIDE DEF p
  <2>2. QED
    BY <2>1
<1>9. Granted(t'[n], L, seq'[n], len + 1, g2)
  <2>1. PICK s \in 0..(L - 1) : s = seq[n]
    BY <1>2
  <2>2. PICK ring \in [0..(L - 1) -> Nat] : ring = t[n]
    BY <1>2
  <2>3. PICK next : next = IF s = L - 1 THEN 0 ELSE s + 1
    OBVIOUS
  <2>4. Granted(ring, L, s, len, g)
    BY <1>6, <2>1, <2>2
  <2>5. ring[s] + Bucket <= time /\ \A i \in 0..(L - 1) : ring[i] <= time
    BY <1>4, <2>1, <2>2
  <2>6. Granted([ring EXCEPT ![s] = time], L, next, len + 1, g2)
    BY <1>7, <2>3, <2>4, <2>5, GrantIsTraced
  <2>7. QED
    BY <1>3, <2>1, <2>2, <2>3, <2>6
<1>10. PICK w : w = Waits(caller, n)
  OBVIOUS
<1>11. PICK w2 : w2 = Waits(caller', n)
  OBVIOUS
<1>12. /\ DOMAIN w = {d \in Callers : caller[d].at = "run" /\ caller[d].name = n}
       /\ \A d \in DOMAIN w : w[d] = caller[d].wake
  BY <1>10 DEF Waits
<1>13. /\ DOMAIN w2 = {d \in Callers : caller'[d].at = "run" /\ caller'[d].name = n}
       /\ \A d \in DOMAIN w2 : w2[d] = caller'[d].wake
  BY <1>11 DEF Waits
<1>14. /\ caller'[c].at = "run" /\ caller'[c].name = n /\ caller'[c].wake = time
       /\ \A d \in Callers \ {c} : caller'[d] = caller[d]
  BY <1>2 DEF Sleep
<1>15. /\ c \in Callers \ DOMAIN w /\ DOMAIN w \subseteq Callers
       /\ DOMAIN w2 = DOMAIN w \cup {c} /\ w2[c] = g2[len + 1]
       /\ \A d \in DOMAIN w : w2[d] = w[d]
  <2>1. c \in Callers \ DOMAIN w /\ DOMAIN w \subseteq Callers
    BY <1>12
  <2>2. \A d \in Callers : d \in DOMAIN w2 <=> d \in DOMAIN w \cup {c}
    BY <1>12, <1>13, <1>14
  <2>3. DOMAIN w2 = DOMAIN w \cup {c}
    <3>1. DOMAIN w2 \subseteq Callers
      BY <1>13
    <3>2. QED
      BY <2>1, <2>2, <3>1
  <2>4. w2[c] = g2[len + 1]
    <3>1. w2[c] = time
      BY <1>13, <1>14, <2>3
    <3>2. QED
      BY <1>7, <3>1
  <2>5. \A d \in DOMAIN w : w2[d] = w[d]
    <3> SUFFICES ASSUME NEW d \in DOMAIN w PROVE w2[d] = w[d]
      OBVIOUS
    <3>1. d \in Callers \ {c} /\ d \in DOMAIN w2
      BY <2>1, <2>3
    <3>2. QED
      BY <1>12, <1>13, <1>14, <3>1
  <2>6. QED
    BY <2>1, <2>3, <2>4, <2>5
<1>16. Served(ran[n], w2, now, late, len + 1, g2, q2)
  <2>1. PICK past \in Seq(Nat) : past = ran[n]
    BY <1>2
  <2>2. Served(past, w, now, late, len, g, q)
    BY <1>6, <1>10, <2>1
  <2>3. Longer(g, g2, len, time) /\ Assigned(q, q2, c, len)
    BY <1>7, <1>8 DEF Longer, Assigned
  <2>4. Enters(w, w2, c, time)
    BY <1>7, <1>15 DEF Enters
  <2>5. Served(past, w2, now, late, len + 1, g2, q2)
    BY <2>2, <2>3, <2>4, GrantIsServed
  <2>6. QED
    BY <2>1, <2>5
<1>17. Traced(t'[n], L, seq'[n], ran[n], w2, now, late)
  <2>1. len + 1 \in Nat
    OBVIOUS
  <2>2. QED
    BY <1>9, <1>16, <2>1, TracedBy
<1>18. now' = now /\ late' = late
  OBVIOUS
<1>19. QED
  BY <1>1, <1>3, <1>11, <1>17, <1>18

(* The run of a call of a name.                                            *)
LEMMA NamedRun ==
    ASSUME TraceInv, NEW c \in Callers, NEW n \in Names, caller[c].name = n, Run(c)
    PROVE  Traced(t'[n], Limit[n], seq'[n], ran'[n], Waits(caller', n), now', late')
<1>1. PICK L \in Nat \ {0} : L = Limit[n]
  BY LimitAssumption DEF Limiters
<1>2. /\ ran \in [Names -> Seq(Nat)] /\ DOMAIN caller = Callers
      /\ now \in Nat /\ late \in Nat /\ ran[n] \in Seq(Nat)
  BY DEF TraceInv, RateInv, TypeOK
<1>3. caller[c].at = "run" /\ caller[c].wake <= now
  BY DEF Run, Awake
<1>4. PICK len \in Nat : \E g \in [1..len -> Nat], q \in [Callers -> Nat] :
          /\ Granted(t[n], L, seq[n], len, g)
          /\ Served(ran[n], Waits(caller, n), now, late, len, g, q)
  BY <1>1 DEF TraceInv, Traced
<1>5. PICK g \in [1..len -> Nat], q \in [Callers -> Nat] :
          /\ Granted(t[n], L, seq[n], len, g)
          /\ Served(ran[n], Waits(caller, n), now, late, len, g, q)
  BY <1>4
<1>6. PICK w : w = Waits(caller, n)
  OBVIOUS
<1>7. PICK w2 : w2 = Waits(caller', n)
  OBVIOUS
<1>8. /\ DOMAIN w = {d \in Callers : caller[d].at = "run" /\ caller[d].name = n}
      /\ \A d \in DOMAIN w : w[d] = caller[d].wake
  BY <1>6 DEF Waits
<1>9. /\ DOMAIN w2 = {d \in Callers : caller'[d].at = "run" /\ caller'[d].name = n}
      /\ \A d \in DOMAIN w2 : w2[d] = caller'[d].wake
  BY <1>7 DEF Waits
<1>10. caller'[c].at = "idle" /\ \A d \in Callers \ {c} : caller'[d] = caller[d]
  BY <1>2 DEF Run, Idle
<1>11. /\ c \in DOMAIN w /\ w[c] <= now /\ DOMAIN w \subseteq Callers
       /\ DOMAIN w2 = DOMAIN w \ {c} /\ \A d \in DOMAIN w2 : w2[d] = w[d]
  BY <1>3, <1>8, <1>9, <1>10
<1>12. \A d \in DOMAIN w : w[d] \in Nat /\ now <= w[d] + late
  BY <1>8 DEF TraceInv, Punctual
<1>13. Served(ran[n], w, now, late, len, g, q) /\ \A i, j \in 1..len : i <= j => g[i] <= g[j]
  BY <1>5, <1>6 DEF Granted
<1>14. \E q2 \in [Callers -> Nat] : Served(Append(ran[n], now), w2, now, late, len, g, q2)
  <2>1. PICK past \in Seq(Nat) : past = ran[n]
    BY <1>2
  <2>2. PICK time \in Nat, delay \in Nat : time = now /\ delay = late
    BY <1>2
  <2>3. /\ Served(past, w, time, delay, len, g, q) /\ w[c] <= time
        /\ \A d \in DOMAIN w : w[d] \in Nat /\ time <= w[d] + delay
    BY <1>11, <1>12, <1>13, <2>1, <2>2
  <2>4. \E q2 \in [Callers -> Nat] : Served(Append(past, time), w2, time, delay, len, g, q2)
    BY <1>11, <1>13, <2>3, RunIsServed
  <2>5. QED
    BY <2>1, <2>2, <2>4
<1>15. /\ t'[n] = t[n] /\ seq'[n] = seq[n] /\ ran'[n] = Append(ran[n], now)
       /\ now' = now /\ late' = late
  BY <1>2 DEF Run
<1>16. QED
  BY <1>1, <1>5, <1>7, <1>14, <1>15 DEF Traced

(* A try of a limiter: of the shared one, or of one of a name, after which *)
(* the call may run.                                                       *)
LEMMA TryTraces ==
    ASSUME TraceInv, NEW c \in Callers, NEW name \in Names, NEW l \in Limiters,
           caller[c].at # "run",
           NEW again \in {"global", "named"}, NEW passed \in {"named", "run"},
           (l = Global /\ passed = "named") \/ (l = name /\ passed = "run"),
           TryBeforeRun(c, name, l, again, passed), UNCHANGED <<now, ran, late>>
    PROVE  /\ Punctual(caller', now', late')
           /\ \A n \in Names :
                  Traced(t'[n], Limit[n], seq'[n], ran'[n], Waits(caller', n), now', late')
<1> DEFINE slot == t[l][seq[l]]
<1>1. /\ slot \in Nat /\ now \in Nat /\ late \in Nat /\ Bucket \in Nat \ {0}
      /\ DOMAIN caller = Callers /\ DOMAIN t = Limiters /\ DOMAIN seq = Limiters
  <2>1. t[l] \in [Slots(l) -> Nat] /\ seq[l] \in Slots(l)
    BY DEF TraceInv, RateInv, TypeOK
  <2>2. QED
    BY <2>1, BucketAssumption DEF TraceInv, RateInv, TypeOK
<1>2. Names \subseteq Limiters /\ (\A n \in Names : n # Global)
  BY NameAssumption DEF Limiters
<1>3. PICK where \in {"global", "named", "run"}, until \in Nat :
          /\ Sleep(c, name, where, until)
          /\ where = "run" => /\ now <= until /\ slot + Bucket <= until
                           /\ l = name /\ Grant(name, until)
          /\ \/ UNCHANGED <<t, seq>>
             \/ (where = "run" \/ l = Global) /\ \E time \in Nat : Grant(l, time)
  <2>1. slot + Bucket \in Nat
    BY <1>1
  <2>2. CASE now - slot < 0
    BY <1>1, <1>2, <2>1, <2>2 DEF TryBeforeRun
  <2>3. CASE now - slot >= 0 /\ now - slot < Bucket
    <3>1. now <= slot + Bucket /\ slot + Bucket <= slot + Bucket
      BY <1>1, <2>3
    <3>2. Grant(l, slot + Bucket) /\ Sleep(c, name, passed, slot + Bucket)
      BY <1>1, <2>3 DEF TryBeforeRun, GrantLater
    <3>3. QED
      BY <2>1, <3>1, <3>2
  <2>4. CASE now - slot >= Bucket
    <3>1. slot + Bucket <= now /\ now <= now
      BY <1>1, <2>4
    <3>2. Grant(l, now) /\ Sleep(c, name, passed, now)
      BY <1>1, <2>4 DEF TryBeforeRun
    <3>3. QED
      BY <1>1, <3>1, <3>2
  <2>5. QED
    BY <1>1, <2>2, <2>3, <2>4
<1>4. /\ caller'[c] = [at |-> where, name |-> name, wake |-> until]
      /\ \A d \in Callers \ {c} : caller'[d] = caller[d]
  BY <1>1, <1>3 DEF Sleep
<1>5. Punctual(caller', now', late')
  <2> SUFFICES ASSUME NEW d \in Callers, caller'[d].at = "run"
               PROVE  caller'[d].wake \in Nat /\ now <= caller'[d].wake + late
    BY DEF Punctual
  <2>1. CASE d = c
    BY <1>1, <1>3, <1>4, <2>1
  <2>2. CASE d # c
    BY <1>4, <2>2 DEF TraceInv, Punctual
  <2>3. QED
    BY <2>1, <2>2
<1>6. ASSUME NEW n \in Names
      PROVE  Traced(t'[n], Limit[n], seq'[n], ran'[n], Waits(caller', n), now', late')
  <2>1. CASE where = "run" /\ n = name
    <3>1. /\ Grant(n, until) /\ Sleep(c, n, "run", until) /\ now <= until
          /\ t[n][seq[n]] + Bucket <= until
      BY <1>3, <2>1
    <3>2. QED
      BY <3>1, NamedGrant
  <2>2. CASE ~(where = "run" /\ n = name)
    <3>1. Waits(caller', n) = Waits(caller, n)
      <4>1. PICK after : after = caller'
        OBVIOUS
      <4>2. /\ ~(after[c].at = "run" /\ after[c].name = n)
            /\ \A d \in Callers \ {c} : after[d] = caller[d]
            /\ ~(caller[c].at = "run" /\ caller[c].name = n)
        BY <1>4, <2>2, <4>1
      <4>3. Waits(after, n) = Waits(caller, n)
        BY <4>2, WaitsAreKept
      <4>4. QED
        BY <4>1, <4>3
    <3>2. t'[n] = t[n] /\ seq'[n] = seq[n]
      <4>1. UNCHANGED <<t, seq>> \/ (n # l /\ \E time \in Nat : Grant(l, time))
        BY <1>2, <1>3, <2>2
      <4>2. n \in Limiters
        BY <1>2
      <4>3. QED
        BY <1>1, <4>1, <4>2 DEF Grant
    <3>3. QED
      BY <3>1, <3>2 DEF TraceInv
  <2>3. QED
    BY <2>1, <2>2
<1>7. QED
  BY <1>5, <1>6

LEMMA TraceStep == TraceInv /\ [Next]_vars => TraceInv'
<1> SUFFICES ASSUME TraceInv, [Next]_vars
             PROVE  /\ Punctual(caller', now', late')
                    /\ \A n \in Names :
                           Traced(t'[n], Limit[n], seq'[n], ran'[n], Waits(caller', n), now', late')
  BY RateStep DEF TraceInv
<1>1. RateInv /\ TypeOK
  BY DEF TraceInv, RateInv
<1> DEFINE TraceKept == /\ Punctual(caller', now', late')
                        /\ \A n \in Names :
                               Traced(t'[n], Limit[n], seq'[n], ran'[n], Waits(caller', n), now', late')
<1>2. ASSUME NEW c \in Callers, NEW name \in Names, Call(c, name) PROVE TraceKept
  <2>1. caller[c].at # "run"
    BY <1>2 DEF Call, Idle
  <2>2. QED
    BY <1>2, <2>1, TryTraces DEF Call, Limiters
<1>3. ASSUME NEW c \in Callers, CallAgain(c) PROVE TraceKept
  <2>1. caller[c].name \in Names /\ caller[c].at # "run"
    BY <1>1, <1>3, AwakeCall DEF CallAgain, Awake
  <2>2. QED
    BY <1>3, <2>1, TryTraces DEF CallAgain, Limiters
<1>4. ASSUME NEW c \in Callers, TryName(c) PROVE TraceKept
  <2>1. caller[c].name \in Names /\ caller[c].at # "run"
    BY <1>1, <1>4, AwakeCall DEF TryName, Awake
  <2>2. QED
    BY <1>4, <2>1, TryTraces DEF TryName, Limiters
<1>5. ASSUME NEW c \in Callers, Run(c) PROVE TraceKept
  <2>1. caller[c].name \in Names /\ DOMAIN caller = Callers /\ DOMAIN ran = Names
    BY <1>1, <1>5, AwakeCall DEF Run, TypeOK
  <2>2. caller'[c].at = "idle" /\ \A d \in Callers \ {c} : caller'[d] = caller[d]
    BY <1>5, <2>1 DEF Run, Idle
  <2>3. Punctual(caller', now', late')
    <3>1. now' = now /\ late' = late
      BY <1>5 DEF Run
    <3>2. QED
      BY <2>2, <3>1 DEF TraceInv, Punctual
  <2>4. ASSUME NEW n \in Names
        PROVE  Traced(t'[n], Limit[n], seq'[n], ran'[n], Waits(caller', n), now', late')
    <3>1. CASE n = caller[c].name
      BY <1>5, <3>1, NamedRun
    <3>2. CASE n # caller[c].name
      <4>1. Waits(caller', n) = Waits(caller, n)
        BY <2>2, <3>2, WaitsAreKept
      <4>2. /\ t'[n] = t[n] /\ seq'[n] = seq[n] /\ ran'[n] = ran[n]
            /\ now' = now /\ late' = late
        BY <1>5, <2>1, <3>2 DEF Run
      <4>3. QED
        BY <4>1, <4>2 DEF TraceInv
    <3>3. QED
      BY <3>1, <3>2
  <2>5. QED
    BY <2>3, <2>4
<1>6. CASE Tick
  <2>1. /\ caller' = caller /\ t' = t /\ seq' = seq /\ ran' = ran
        /\ now' = now + 1 /\ now \in Nat /\ late \in Nat
        /\ late' = IF \E c \in Callers : Oversleeps(c) THEN late + 1 ELSE late
    BY <1>1, <1>6 DEF Tick, TypeOK
  <2>2. late' \in Nat /\ late <= late' /\ now <= now' /\ now' \in Nat
    BY <2>1
  <2>3. Punctual(caller', now', late')
    <3> SUFFICES ASSUME NEW c \in Callers, caller[c].at = "run"
                 PROVE  caller[c].wake \in Nat /\ now + 1 <= caller[c].wake + late'
      BY <2>1 DEF Punctual
    <3>1. caller[c].wake \in Nat /\ now <= caller[c].wake + late
      BY DEF TraceInv, Punctual
    <3>2. Oversleeps(c) => late' = late + 1
      BY <2>1
    <3>3. QED
      BY <2>1, <2>2, <3>1, <3>2 DEF Oversleeps
  <2>4. ASSUME NEW n \in Names
        PROVE  Traced(t'[n], Limit[n], seq'[n], ran'[n], Waits(caller', n), now', late')
    <3>1. Traced(t[n], Limit[n], seq[n], ran[n], Waits(caller, n), now, late)
      BY DEF TraceInv
    <3>2. ran[n] \in Seq(Nat)
      BY <1>1 DEF TypeOK
    <3>3. Traced(t[n], Limit[n], seq[n], ran[n], Waits(caller, n), now', late')
      BY <2>1, <2>2, <3>1, <3>2, TracedLater
    <3>4. QED
      BY <2>1, <3>3
  <2>5. QED
    BY <2>3, <2>4
<1>7. CASE UNCHANGED vars
  BY <1>7 DEF vars, TraceInv
<1>8. QED
  BY <1>2, <1>3, <1>4, <1>5, <1>6, <1>7 DEF Next

(* Of the calls of one name no more than its limit run in a bucket less    *)
(* the longest that a timer has been late: however many wait, and in       *)
(* whatever order they wake, the i-th to run does so at the time of the    *)
(* i-th grant or that much later.                                          *)
THEOREM NamedLimitIsKept == Spec => []NamedLimitHolds
<1>1. TraceInv => NamedLimitHolds
  <2> SUFFICES ASSUME TraceInv, NEW n \in Names PROVE Spaced(ran[n], Limit[n], late)
    BY DEF NamedLimitHolds
  <2>1. Limit[n] \in Nat \ {0} /\ ran[n] \in Seq(Nat) /\ late \in Nat
    BY LimitAssumption DEF TraceInv, RateInv, TypeOK, Limiters
  <2>2. QED
    BY <2>1, TracedSpaced DEF TraceInv
<1>2. QED
  BY TraceInit, TraceStep, <1>1, PTL DEF Spec

-----------------------------------------------------------------------------
(* AgentRuntime *)

NoCalls(a)     == \A i \in 1..Steps : calls[a][i] = "none"
AllDone(a)     == \A i \in 1..Steps : calls[a][i] = "completed"
NoneRunning(a) == \A i \in 1..Steps : calls[a][i] # "running"

Question == <<"user">>
Answered == <<"user", "answer">>

(* How far the rows of a have come when it stands where it stands.         *)
Begins(a) ==
    /\ ask[a].at \in {"idle", "user", "plan"} => runs[a] = "none" /\ NoCalls(a)
    /\ ask[a].at = "idle" => said[a] = <<>>
    /\ ask[a].at = "user" => said[a] = (IF ask[a].saved THEN Question ELSE <<>>)
    /\ ask[a].at = "plan" => said[a] = Question
    /\ ask[a].at \in {"user", "plan"} => ask[a].step = 1

Works(a) ==
    /\ ask[a].at \in {"plan", "step", "tool", "finish", "record", "fail"} =>
           ask[a].handled /\ ~ask[a].saved
    /\ ask[a].at \in {"step", "tool", "finish", "record"} =>
           /\ runs[a] = "running" /\ said[a] = Question
           /\ \A i \in 1..Steps :
                 /\ i < ask[a].step => calls[a][i] = "completed"
                 /\ i > ask[a].step => calls[a][i] = "none"
    /\ ask[a].at = "step" => \A i \in 1..Steps : i = ask[a].step => calls[a][i] = "none"

Answers(a) ==
    ask[a].at = "answer" =>
        /\ said[a] = (IF ask[a].saved THEN Answered ELSE Question)
        /\ IF ask[a].handled THEN runs[a] = "completed" /\ AllDone(a)
                             ELSE runs[a] = "none" /\ NoCalls(a)

Fails(a) ==
    /\ ask[a].at \in {"fail", "error"} => NoneRunning(a)
    /\ ask[a].at = "fail" => runs[a] # "none" /\ said[a] \in {Question, Answered}
    /\ ask[a].at = "error" => runs[a] = "failed"
    /\ ask[a].at = "error" /\ ask[a].saved => said[a][Len(said[a])] = "error"

Tells(a) ==
    /\ ask[a].at \in Ended => runs[a] # "running" /\ NoneRunning(a)
    /\ ask[a].at = "answered" =>
          said[a] = Answered /\ (ask[a].handled => runs[a] = "completed" /\ AllDone(a))
    /\ ask[a].at = "thrown" =>
          runs[a] = "none" \/ (runs[a] = "failed" /\ said[a][Len(said[a])] = "error")

AskInv(a) == Begins(a) /\ Works(a) /\ Answers(a) /\ Fails(a) /\ Tells(a)

(* A tool is run at a step of the plan.                                    *)
Typed ==
    /\ AgentTypeOK
    /\ \A a \in Asks : ask[a].at \in {"tool", "finish", "record"} => ask[a].step <= Steps

ToldInv == Typed /\ \A a \in Asks : a \notin untold => AskInv(a)

-----------------------------------------------------------------------------
(* Messages *)

LEMMA Sayings ==
    /\ Append(<<>>, "user") = Question
    /\ Append(Question, "answer") = Answered
    /\ Question \in Seq(Messages) /\ Answered \in Seq(Messages)
<1>1. Question \in Seq(Messages) /\ Answered \in Seq(Messages)
  BY DEF Question, Answered, Messages
<1>2. Append(<<>>, "user") = Question
  BY DEF Question
<1>3. Append(Question, "answer") = Answered
  <2>1. /\ Append(Question, "answer") \in Seq(Messages)
        /\ Len(Append(Question, "answer")) = Len(Question) + 1
        /\ Append(Question, "answer")[Len(Question) + 1] = "answer"
        /\ Append(Question, "answer")[1] = Question[1]
    BY <1>1, AppendProperties DEF Question, Messages
  <2>2. Len(Question) = 1 /\ Question[1] = "user"
    BY DEF Question
  <2>3. Len(Answered) = 2 /\ Answered[1] = "user" /\ Answered[2] = "answer"
    BY DEF Answered
  <2>4. QED
    BY <1>1, <2>1, <2>2, <2>3, SeqEqual
<1>4. QED
  BY <1>1, <1>2, <1>3

LEMMA LastSaid ==
    ASSUME NEW s \in Seq(Messages), NEW m \in Messages
    PROVE  Append(s, m)[Len(Append(s, m))] = m
  OBVIOUS

-----------------------------------------------------------------------------
(* The types *)

(* A request that is under way is a record.                                *)
LEMMA UnderWay ==
    ASSUME Typed, NEW a \in Asks, ask[a].at # "idle"
    PROVE  ask[a] \in Ask
  BY DEF Typed, AgentTypeOK, NoAsk

LEMMA InitTold == AgentInit => ToldInv
<1> SUFFICES ASSUME AgentInit PROVE ToldInv
  OBVIOUS
<1>1. Typed
  BY FaultAssumption DEF AgentInit, Typed, AgentTypeOK, Results, NoAsk
<1>2. \A a \in Asks : AskInv(a)
  BY DEF AgentInit, NoAsk, AskInv, Begins, Works, Answers, Fails, Tells, NoCalls, Ended
<1>3. QED
  BY <1>1, <1>2 DEF ToldInv

LEMMA TypesKept == Typed /\ [AgentNext]_agentVars => Typed'
<1> SUFFICES ASSUME Typed, [AgentNext]_agentVars PROVE Typed'
  OBVIOUS
<1> USE DEF Typed, AgentTypeOK
<1>1. ASSUME NEW a \in Asks, Begin(a) PROVE Typed'
  BY <1>1, StepAssumption DEF Begin, Ask, Doing
<1>2. ASSUME NEW a \in Asks, SaveMessage(a) PROVE Typed'
  <2>1. ask[a] \in Ask /\ ask[a].at \in Messages
    BY <1>2, UnderWay DEF SaveMessage, Messages
  <2>2. [ask[a] EXCEPT !.saved = TRUE] \in Ask
    BY <2>1 DEF Ask
  <2>3. Append(said[a], ask[a].at) \in Seq(Messages)
    BY <2>1
  <2>4. QED
    BY <1>2, <2>1, <2>2, <2>3 DEF SaveMessage, Ask
<1>3. ASSUME NEW a \in Asks, TouchSession(a) PROVE Typed'
  <2>1. ask[a] \in Ask
    BY <1>3, UnderWay DEF TouchSession, Messages
  <2>2. AfterMessage(a) \in {"plan", "answer"} \cup Ended
    BY <1>3 DEF TouchSession, AfterMessage, Messages, Ended
  <2>3. [ask[a] EXCEPT !.at = AfterMessage(a), !.saved = FALSE] \in Ask
    BY <2>1, <2>2 DEF Ask, Doing
  <2>4. QED
    BY <1>3, <2>1, <2>2, <2>3 DEF TouchSession, Ask, Ended
<1>4. ASSUME NEW a \in Asks, NEW place \in Doing, ask[a].at # "idle", Go(a, place),
             place \in {"tool", "finish", "record"} => ask[a].step <= Steps
      PROVE  /\ ask' \in [Asks -> Ask \cup {NoAsk}]
             /\ \A b \in Asks : ask'[b].at \in {"tool", "finish", "record"} =>
                                    ask'[b].step <= Steps
  <2>1. ask[a] \in Ask /\ [ask[a] EXCEPT !.at = place] \in Ask
    BY <1>4, UnderWay DEF Ask
  <2>2. QED
    BY <1>4, <2>1 DEF Go, Ask
<1>5. ASSUME NEW a \in Asks, NEW s \in Results, ask[a].at # "idle", SetCall(a, s)
      PROVE  calls' \in [Asks -> [1..Steps -> Results]]
  BY <1>5 DEF SetCall
<1>6. ASSUME NEW a \in Asks, StartRun(a) \/ CompleteRun(a) \/ FailRun(a) PROVE Typed'
  BY <1>4, <1>6 DEF StartRun, CompleteRun, FailRun, SetRun, Results, Doing
<1>7. ASSUME NEW a \in Asks, OnToolStart(a) \/ RecordError(a) PROVE Typed'
  BY <1>4, <1>5, <1>7 DEF OnToolStart, RecordError, Results, Doing
<1>8. ASSUME NEW a \in Asks, RunTool(a) PROVE Typed'
  BY <1>4, <1>8 DEF RunTool, Doing
<1>9. ASSUME NEW a \in Asks, OnToolFinish(a) PROVE Typed'
  <2>1. ask[a] \in Ask /\ ask[a].step <= Steps
    BY <1>9, UnderWay DEF OnToolFinish
  <2> DEFINE next == ask[a].step + 1
  <2>2. next \in 1..(Steps + 1)
    BY <2>1, StepAssumption DEF Ask
  <2>3. [ask[a] EXCEPT !.at = "step", !.step = next] \in Ask
    <3> HIDE DEF next
    <3> QED
      BY <2>1, <2>2 DEF Ask, Doing
  <2>4. calls' \in [Asks -> [1..Steps -> Results]]
    BY <1>5, <1>9 DEF OnToolFinish, Results
  <2>5. QED
    BY <1>9, <2>1, <2>3, <2>4 DEF OnToolFinish, Ask
<1>10. ASSUME NEW a \in Asks, Throws(a) PROVE Typed'
  <2>1. ask[a] \in Ask
    BY <1>10, UnderWay DEF Throws, Doing
  <2>2. Catches(a) \in {"record", "fail", "thrown"}
    BY DEF Catches
  <2>3. [ask[a] EXCEPT !.at = Catches(a), !.saved = FALSE] \in Ask
    BY <2>1, <2>2 DEF Ask, Doing, Ended
  <2>4. Catches(a) = "record" => ask[a].step <= Steps
    BY DEF Catches
  <2>5. ask' \in [Asks -> Ask \cup {NoAsk}]
    BY <1>10, <2>3 DEF Throws
  <2>6. \A b \in Asks : ask'[b].at \in {"tool", "finish", "record"} => ask'[b].step <= Steps
    BY <1>10, <2>1, <2>2, <2>4 DEF Throws, Ask
  <2>7. QED
    BY <1>10, <2>5, <2>6, FaultAssumption DEF Throws, Fault
<1>11. ASSUME Dies PROVE Typed'
  <2>1. \A a \in Asks : ask[a].at \in Doing =>
            ask[a] \in Ask /\ [ask[a] EXCEPT !.at = "thrown"] \in Ask
    BY UnderWay DEF Doing, Ask, Ended
  <2>2. ask' \in [Asks -> Ask \cup {NoAsk}]
    BY <1>11, <2>1 DEF Dies
  <2>3. \A b \in Asks : ask'[b].at \in {"tool", "finish", "record"} => ask'[b].step <= Steps
    BY <1>11, <2>1 DEF Dies, Ask
  <2>4. QED
    BY <1>11, <2>2, <2>3, FaultAssumption DEF Dies, Fault
<1>12. CASE UNCHANGED agentVars
  BY <1>12 DEF agentVars
<1>13. QED
  BY <1>1, <1>2, <1>3, <1>6, <1>7, <1>8, <1>9, <1>10, <1>11, <1>12 DEF AgentNext

-----------------------------------------------------------------------------
(* What a request leaves behind *)

(* The steps of others do not touch the rows of a.                         *)
LEMMA Untouched ==
    ASSUME NEW a \in Asks, AskInv(a), said'[a] = said[a], runs'[a] = runs[a],
           calls'[a] = calls[a], ask'[a] = ask[a]
    PROVE  AskInv(a)'
  BY DEF AskInv, Begins, Works, Answers, Fails, Tells, NoCalls, AllDone, NoneRunning

(* A statement of a moves a on, and nobody else.                           *)
LEMMA Moved ==
    ASSUME Typed, NEW a \in Asks, NEW place, ask[a].at # "idle", Go(a, place)
    PROVE  /\ ask'[a].at = place /\ ask'[a].handled = ask[a].handled
           /\ ask'[a].step = ask[a].step /\ ask'[a].saved = ask[a].saved
           /\ \A b \in Asks \ {a} : ask'[b] = ask[b]
  BY UnderWay DEF Go, Typed, AgentTypeOK, Ask

LEMMA CallSet ==
    ASSUME Typed, NEW a \in Asks, NEW s, SetCall(a, s)
    PROVE  /\ \A i \in 1..Steps : calls'[a][i] = IF i = ask[a].step THEN s ELSE calls[a][i]
           /\ \A b \in Asks \ {a} : calls'[b] = calls[b]
  BY DEF SetCall, Typed, AgentTypeOK

LEMMA MessagesKeep ==
    ASSUME Typed, NEW a \in Asks, AskInv(a), SaveMessage(a) \/ TouchSession(a)
    PROVE  AskInv(a)' /\ \A b \in Asks \ {a} : ask'[b] = ask[b] /\ said'[b] = said[b]
<1>1. ask[a] \in Ask /\ ask[a].at \in Messages
  BY UnderWay DEF SaveMessage, TouchSession, Messages
<1>2. CASE SaveMessage(a)
  <2>1. /\ ask'[a].at = ask[a].at /\ ask'[a].handled = ask[a].handled
        /\ ask'[a].saved
        /\ said'[a] = Append(said[a], ask[a].at)
        /\ calls' = calls /\ runs' = runs
        /\ \A b \in Asks \ {a} : ask'[b] = ask[b] /\ said'[b] = said[b]
    BY <1>1, <1>2 DEF SaveMessage, Ask, Typed, AgentTypeOK
  <2>2. said'[a][Len(said'[a])] = ask[a].at
    BY <1>1, <2>1, LastSaid DEF Typed, AgentTypeOK
  <2>3. CASE ask[a].at = "user"
    BY <1>2, <2>1, <2>3, Sayings
       DEF AskInv, Begins, Works, Answers, Fails, Tells, NoCalls, SaveMessage, Ended
  <2>4. CASE ask[a].at = "answer"
    BY <1>2, <2>1, <2>4, Sayings
       DEF AskInv, Begins, Works, Answers, Fails, Tells, NoCalls, AllDone, SaveMessage, Ended
  <2>5. CASE ask[a].at = "error"
    BY <1>2, <2>1, <2>2, <2>5
       DEF AskInv, Begins, Works, Answers, Fails, Tells, NoneRunning, SaveMessage, Ended
  <2>6. QED
    BY <1>1, <2>1, <2>3, <2>4, <2>5 DEF Messages
<1>3. CASE TouchSession(a)
  <2>1. /\ ask'[a].at = AfterMessage(a) /\ ask'[a].handled = ask[a].handled
        /\ ask'[a].step = ask[a].step /\ ~ask'[a].saved /\ ask[a].saved
        /\ said' = said /\ calls' = calls /\ runs' = runs
        /\ \A b \in Asks \ {a} : ask'[b] = ask[b]
    BY <1>1, <1>3 DEF TouchSession, Ask, Typed, AgentTypeOK
  <2>2. CASE ask[a].at = "user"
    BY <2>1, <2>2
       DEF AskInv, Begins, Works, Answers, Fails, Tells, NoCalls, AfterMessage, Ended
  <2>3. CASE ask[a].at = "answer"
    BY <2>1, <2>3
       DEF AskInv, Begins, Works, Answers, Fails, Tells, NoCalls, AllDone, NoneRunning,
           AfterMessage, Ended
  <2>4. CASE ask[a].at = "error"
    BY <2>1, <2>4
       DEF AskInv, Begins, Works, Answers, Fails, Tells, NoneRunning, AfterMessage, Ended
  <2>5. QED
    BY <1>1, <2>1, <2>2, <2>3, <2>4 DEF Messages
<1>4. QED
  BY <1>2, <1>3

LEMMA RunKeeps ==
    ASSUME Typed, NEW a \in Asks, AskInv(a), StartRun(a) \/ CompleteRun(a) \/ FailRun(a)
    PROVE  AskInv(a)'
<1>2. CASE StartRun(a)
  <2>1. /\ ask'[a].at = "step" /\ ask'[a].handled = ask[a].handled
        /\ ask'[a].step = ask[a].step /\ ask'[a].saved = ask[a].saved
    BY <1>2, Moved DEF StartRun
  <2>2. runs'[a] = "running" /\ said' = said /\ calls' = calls
    BY <1>2 DEF StartRun, SetRun, Typed, AgentTypeOK
  <2>3. \A i \in 1..Steps : i >= ask'[a].step /\ calls[a][i] = "none"
    BY <1>2, <2>1 DEF StartRun, AskInv, Begins, NoCalls
  <2>4. QED
    BY <1>2, <2>1, <2>2, <2>3
       DEF StartRun, AskInv, Begins, Works, Answers, Fails, Tells, NoCalls, Ended
<1>3. CASE CompleteRun(a)
  <2>1. /\ ask'[a].at = "answer" /\ ask'[a].handled = ask[a].handled
        /\ ask'[a].saved = ask[a].saved
    BY <1>3, Moved DEF CompleteRun
  <2>2. runs'[a] = "completed" /\ said' = said /\ calls' = calls
    BY <1>3 DEF CompleteRun, SetRun, Typed, AgentTypeOK
  <2>3. ask[a] \in Ask /\ ask[a].step > Steps
    BY <1>3, UnderWay DEF CompleteRun
  <2>4. \A i \in 1..Steps : i < ask[a].step
    BY <2>3, StepAssumption DEF Ask
  <2>5. QED
    BY <1>3, <2>1, <2>2, <2>4
       DEF CompleteRun, AskInv, Begins, Works, Answers, Fails, Tells, AllDone, Ended
<1>4. CASE FailRun(a)
  <2>1. /\ ask'[a].at = "error" /\ ask'[a].handled = ask[a].handled
        /\ ask'[a].saved = ask[a].saved
    BY <1>4, Moved DEF FailRun
  <2>2. runs'[a] = "failed" /\ said' = said /\ calls' = calls
    BY <1>4 DEF FailRun, SetRun, Typed, AgentTypeOK
  <2>3. QED
    BY <1>4, <2>1, <2>2
       DEF FailRun, AskInv, Begins, Works, Answers, Fails, Tells, NoneRunning, Ended
<1>5. QED
  BY <1>2, <1>3, <1>4

LEMMA ToolKeeps ==
    ASSUME Typed, NEW a \in Asks, AskInv(a),
           OnToolStart(a) \/ RunTool(a) \/ OnToolFinish(a) \/ RecordError(a)
    PROVE  AskInv(a)'
<1>2. /\ ask[a] \in Ask /\ ask[a].step \in Nat
      /\ ask[a].at \in {"step", "tool", "finish", "record"}
      /\ said' = said /\ runs' = runs
  <2>1. ask[a].at \in {"step", "tool", "finish", "record"} /\ said' = said /\ runs' = runs
    BY DEF OnToolStart, RunTool, OnToolFinish, RecordError
  <2>2. QED
    BY <2>1, UnderWay DEF Ask
<1>3. CASE OnToolStart(a)
  <2>1. /\ ask'[a].at = "tool" /\ ask'[a].handled = ask[a].handled
        /\ ask'[a].step = ask[a].step /\ ask'[a].saved = ask[a].saved
    BY <1>3, Moved DEF OnToolStart
  <2>2. \A i \in 1..Steps : i # ask[a].step => calls'[a][i] = calls[a][i]
    BY <1>3, CallSet DEF OnToolStart
  <2>3. QED
    BY <1>2, <1>3, <2>1, <2>2
       DEF OnToolStart, AskInv, Begins, Works, Answers, Fails, Tells, Ended
<1>4. CASE RunTool(a)
  <2>1. /\ ask'[a].at \in {"finish", "record"} /\ ask'[a].handled = ask[a].handled
        /\ ask'[a].step = ask[a].step /\ ask'[a].saved = ask[a].saved
    BY <1>4, Moved DEF RunTool
  <2>2. QED
    BY <1>2, <1>4, <2>1
       DEF RunTool, AskInv, Begins, Works, Answers, Fails, Tells, Ended
<1>5. CASE OnToolFinish(a)
  <2>1. /\ ask'[a].at = "step" /\ ask'[a].handled = ask[a].handled
        /\ ask'[a].step = ask[a].step + 1 /\ ask'[a].saved = ask[a].saved
    BY <1>2, <1>5 DEF OnToolFinish, Ask, Typed, AgentTypeOK
  <2>2. \A i \in 1..Steps :
            calls'[a][i] = IF i = ask[a].step THEN "completed" ELSE calls[a][i]
    BY <1>5, CallSet DEF OnToolFinish
  <2>3. /\ ask[a].handled /\ ~ask[a].saved
        /\ runs[a] = "running" /\ said[a] = Question
        /\ \A i \in 1..Steps :
              /\ i < ask[a].step => calls[a][i] = "completed"
              /\ i > ask[a].step => calls[a][i] = "none"
    BY <1>5 DEF OnToolFinish, AskInv, Works
  <2>4. \A i \in 1..Steps :
            /\ i < ask'[a].step => calls'[a][i] = "completed"
            /\ i >= ask'[a].step => calls'[a][i] = "none"
    <3> SUFFICES ASSUME NEW i \in 1..Steps
                 PROVE  /\ i < ask[a].step + 1 => calls'[a][i] = "completed"
                        /\ i >= ask[a].step + 1 => calls'[a][i] = "none"
      BY <2>1
    <3>1. i \in Nat /\ ask[a].step \in Nat
      BY <1>2, StepAssumption
    <3>2. QED
      BY <2>2, <2>3, <3>1
  <2>5. QED
    BY <1>2, <2>1, <2>3, <2>4
       DEF AskInv, Begins, Works, Answers, Fails, Tells, Ended
<1>6. CASE RecordError(a)
  <2>1. /\ ask'[a].at = "fail" /\ ask'[a].handled = ask[a].handled
        /\ ask'[a].saved = ask[a].saved
    BY <1>6, Moved DEF RecordError
  <2>2. \A i \in 1..Steps :
            calls'[a][i] = IF i = ask[a].step THEN "failed" ELSE calls[a][i]
    BY <1>6, CallSet DEF RecordError
  <2>3. \A i \in 1..Steps : calls'[a][i] # "running"
    BY <1>2, <1>6, <2>2 DEF RecordError, AskInv, Works
  <2>4. QED
    BY <1>2, <1>6, <2>1, <2>3
       DEF RecordError, AskInv, Begins, Works, Answers, Fails, Tells, NoneRunning, Ended
<1>7. QED
  BY <1>3, <1>4, <1>5, <1>6

LEMMA ThrowKeeps ==
    ASSUME Typed, NEW a \in Asks, AskInv(a), Throws(a), a \notin untold'
    PROVE  AskInv(a)'
<1>1. /\ ask[a] \in Ask /\ ask[a].at \in Doing \ {"tool"}
      /\ said' = said /\ runs' = runs /\ calls' = calls
  BY UnderWay DEF Throws, Doing
<1>2. ask[a].at \notin {"record", "fail"} /\ (ask[a].at = "error" => ask[a].saved)
  BY DEF Throws
<1>3. /\ ask'[a].at = Catches(a) /\ ask'[a].handled = ask[a].handled
      /\ ask'[a].step = ask[a].step /\ ~ask'[a].saved
  BY <1>1 DEF Throws, Ask, Typed, AgentTypeOK
<1>4. CASE ask[a].at = "finish"
  BY <1>1, <1>3, <1>4 DEF Catches, AskInv, Begins, Works, Answers, Fails, Tells, Ended
<1>5. CASE ask[a].at = "step"
  <2>1. NoneRunning(a)
    BY <1>1, <1>5 DEF AskInv, Works, NoneRunning, Ask
  <2>2. QED
    BY <1>1, <1>3, <1>5, <2>1
       DEF Catches, AskInv, Begins, Works, Answers, Fails, Tells, NoneRunning, Ended
<1>6. CASE ask[a].at = "answer"
  BY <1>1, <1>3, <1>6
     DEF Catches, AskInv, Begins, Works, Answers, Fails, Tells, NoneRunning, NoCalls,
         AllDone, Ended
<1>7. CASE ask[a].at \in {"user", "plan"}
  BY <1>1, <1>3, <1>7
     DEF Catches, AskInv, Begins, Works, Answers, Fails, Tells, NoneRunning, NoCalls, Ended
<1>8. CASE ask[a].at = "error"
  BY <1>1, <1>2, <1>3, <1>8
     DEF Catches, AskInv, Begins, Works, Answers, Fails, Tells, NoneRunning, Ended
<1>9. QED
  BY <1>1, <1>2, <1>4, <1>5, <1>6, <1>7, <1>8 DEF Doing

LEMMA ToldKept == ToldInv /\ [AgentNext]_agentVars => ToldInv'
<1> SUFFICES ASSUME ToldInv, [AgentNext]_agentVars, NEW b \in Asks, b \notin untold'
             PROVE  AskInv(b)'
  BY TypesKept DEF ToldInv
<1>1. Typed /\ (b \notin untold => AskInv(b))
  BY DEF ToldInv
<1>2. ASSUME NEW a \in Asks, Begin(a) PROVE AskInv(b)'
  <2>1. said' = said /\ runs' = runs /\ calls' = calls /\ AskInv(b)
    BY <1>1, <1>2 DEF Begin
  <2>2. CASE b = a
    <3>1. /\ ask'[a].at = "user" /\ ~ask'[a].saved /\ ask'[a].step = 1
          /\ ask[a].at = "idle"
      BY <1>1, <1>2 DEF Begin, NoAsk, Typed, AgentTypeOK
    <3>2. QED
      BY <2>1, <2>2, <3>1
         DEF AskInv, Begins, Works, Answers, Fails, Tells, NoCalls, Ended
  <2>3. CASE b # a
    <3>1. ask'[b] = ask[b]
      BY <1>1, <1>2, <2>3 DEF Begin, Typed, AgentTypeOK
    <3>2. QED
      BY <2>1, <3>1, Untouched
  <2>4. QED
    BY <2>2, <2>3
<1>3. ASSUME NEW a \in Asks, SaveMessage(a) \/ TouchSession(a) PROVE AskInv(b)'
  <2>1. runs' = runs /\ calls' = calls /\ AskInv(b)
    BY <1>1, <1>3 DEF SaveMessage, TouchSession
  <2>2. CASE b = a
    BY <1>1, <1>3, <2>1, <2>2, MessagesKeep
  <2>3. CASE b # a
    <3>1. ask'[b] = ask[b] /\ said'[b] = said[b]
      BY <1>1, <1>3, <2>3 DEF SaveMessage, TouchSession, Typed, AgentTypeOK
    <3>2. QED
      BY <2>1, <3>1, Untouched
  <2>4. QED
    BY <2>2, <2>3
<1>4. ASSUME NEW a \in Asks, StartRun(a) \/ CompleteRun(a) \/ FailRun(a)
      PROVE  AskInv(b)'
  <2>1. said' = said /\ calls' = calls /\ AskInv(b)
    BY <1>1, <1>4 DEF StartRun, CompleteRun, FailRun
  <2>2. CASE b = a
    BY <1>1, <1>4, <2>1, <2>2, RunKeeps
  <2>3. CASE b # a
    <3>1. ask'[b] = ask[b] /\ runs'[b] = runs[b]
      BY <1>1, <1>4, <2>3 DEF StartRun, CompleteRun, FailRun, Go, SetRun, Typed, AgentTypeOK
    <3>2. QED
      BY <2>1, <3>1, Untouched
  <2>4. QED
    BY <2>2, <2>3
<1>5. ASSUME NEW a \in Asks,
             OnToolStart(a) \/ RunTool(a) \/ OnToolFinish(a) \/ RecordError(a)
      PROVE  AskInv(b)'
  <2>1. said' = said /\ runs' = runs /\ AskInv(b)
    BY <1>1, <1>5 DEF OnToolStart, RunTool, OnToolFinish, RecordError
  <2>2. CASE b = a
    BY <1>1, <1>5, <2>1, <2>2, ToolKeeps
  <2>3. CASE b # a
    <3>1. ask'[b] = ask[b] /\ calls'[b] = calls[b]
      BY <1>1, <1>5, <2>3
         DEF OnToolStart, RunTool, OnToolFinish, RecordError, Go, SetCall, Typed, AgentTypeOK
    <3>2. QED
      BY <2>1, <3>1, Untouched
  <2>4. QED
    BY <2>2, <2>3
<1>6. ASSUME NEW a \in Asks, Throws(a) PROVE AskInv(b)'
  <2>1. said' = said /\ runs' = runs /\ calls' = calls /\ AskInv(b)
    BY <1>1, <1>6 DEF Throws
  <2>2. CASE b = a
    BY <1>1, <1>6, <2>1, <2>2, ThrowKeeps
  <2>3. CASE b # a
    <3>1. ask'[b] = ask[b]
      BY <1>1, <1>6, <2>3 DEF Throws, Typed, AgentTypeOK
    <3>2. QED
      BY <2>1, <3>1, Untouched
  <2>4. QED
    BY <2>2, <2>3
<1>7. ASSUME Dies PROVE AskInv(b)'
  <2>1. /\ said' = said /\ runs' = runs /\ calls' = calls
        /\ b \notin untold /\ ask[b].at \notin Doing
    BY <1>7 DEF Dies
  <2>2. ask'[b] = ask[b]
    BY <1>7, <2>1 DEF Dies
  <2>3. QED
    BY <1>1, <2>1, <2>2, Untouched
<1>8. CASE UNCHANGED agentVars
  BY <1>1, <1>8, Untouched DEF agentVars
<1>9. QED
  BY <1>2, <1>3, <1>4, <1>5, <1>6, <1>7, <1>8 DEF AgentNext

-----------------------------------------------------------------------------
(* Every request, run and call is in one of the states the code names.     *)
THEOREM RowsAreTyped == AgentSpec => []AgentTypeOK
<1>1. ToldInv => AgentTypeOK
  BY DEF ToldInv, Typed
<1>2. QED
  BY InitTold, ToldKept, <1>1, PTL DEF AgentSpec

(* What a request leaves behind tells how it ended, whichever of its       *)
(* statements threw, for plans of any length: run, executeProductConfigPlan*)
(* and createMessage.                                                      *)
THEOREM EveryEndIsTold == AgentSpec => []EndIsTold
<1>1. ToldInv => EndIsTold
  BY DEF ToldInv, AskInv, Tells, EndIsTold, StillRunning, NoneRunning, AllDone,
         Answered, Ended
<1>2. QED
  BY InitTold, ToldKept, <1>1, PTL DEF AgentSpec

-----------------------------------------------------------------------------
(* ConceptResolver *)

(* What was read for the version v has all that v was raised for.          *)
Covers(v, c) == v \in 1..dictVersion /\ published[v] <= c

Versioned == Stages \ {"idle", "asked"}
WithGot   == {"loaded", "save", "show", "keys", "insert"}
Saved     == {"show", "keys", "insert"}

(* What a version was raised for is part of the content.                   *)
Raised == \A v \in 1..dictVersion : published[v] <= content

(* A run has its candidate and its version, and what it goes by covers it. *)
RunsCover ==
    \A r \in Runs :
        /\ stage[r] # "idle" => subject[r] \in Candidates
        /\ stage[r] \in Versioned => target[r] \in 1..dictVersion
        /\ stage[r] \in WithGot => Covers(target[r], got[r])

SnapshotsCover ==
    \A s \in Services :
        snapshot[s].version # None => Covers(snapshot[s].version, snapshot[s].got)

DecisionsCover == \A d \in decisions : Covers(d.version, d.got)

(* A run that has saved its decision finds one under its candidate and     *)
(* version.                                                                *)
Recorded(c, v) == \E d \in decisions : d.candidate = c /\ d.version = v
RunsRecorded   == \A r \in Runs : stage[r] \in Saved => Recorded(subject[r], target[r])

(* What a service knows is in the table; what people save is a verdict.    *)
KnownListed == \A s \in Services : \A p \in known[s] : reviews[p] # "none"
RunsPattern == \A r \in Runs : stage[r] \in Saved => pattern[r] \in Patterns
Verdicts ==
    \A h \in Reviewers : looking[h] # NotLooking =>
        looking[h].status \in Decided /\ looking[h].pattern \in Patterns

Resolving ==
    /\ ResolverTypeOK
    /\ Raised /\ RunsCover /\ SnapshotsCover /\ DecisionsCover
    /\ RunsRecorded /\ ShownIsRecorded
    /\ KnownListed /\ RunsPattern /\ Verdicts

-----------------------------------------------------------------------------
(* Types *)

(* The initial state has its types.                                        *)
LEMMA TypesInit == ResolverInit => ResolverTypeOK
<1> SUFFICES ASSUME ResolverInit PROVE ResolverTypeOK
  OBVIOUS
<1>1. published \in [1..dictVersion -> Nat]
  BY DEF ResolverInit
<1>2. looking \in [Reviewers -> [pattern : Patterns \cup {None}, found : Statuses,
                                status : Statuses]]
  BY DEF ResolverInit, NotLooking, Statuses
<1>3. snapshot \in [Services -> [version : Nat, got : Nat]]
  BY DEF ResolverInit, NoSnapshot, None
<1>4. /\ stage \in [Runs -> Stages] /\ subject \in [Runs -> Candidates \cup {None}]
      /\ target \in [Runs -> Nat] /\ got \in [Runs -> Nat]
      /\ pattern \in [Runs -> Patterns \cup {None}] /\ waits \in [Runs -> Runs \cup {NoRun}]
  BY DEF ResolverInit, Stages, None, NoRun
<1>5. /\ flight \in [Services -> Runs \cup {NoRun}] /\ known \in [Services -> SUBSET Patterns]
      /\ keysRead \in [Services -> {"unread", "read", "failed"}]
      /\ shown \in [Candidates -> Nat] /\ reviews \in [Patterns -> Statuses]
  BY DEF ResolverInit, NoFlight, Unread, NoKeys, Statuses, None
<1>6. errors \in 0..MaxErrors
  BY BoundsAssumption DEF ResolverInit
<1>7. owed \in BOOLEAN
  BY Zenon DEF ResolverInit
<1>8. content \in Nat \ {0} /\ dictVersion \in Nat \ {0} /\ decisions = {}
  BY DEF ResolverInit
<1>9. QED
  BY <1>7, <1>8, <1>1, <1>2, <1>3, <1>4, <1>5, <1>6 DEF ResolverTypeOK

(* A change of the dictionary and a restart keep them.                     *)
LEMMA DictionaryKeepsTypes ==
    ASSUME ResolverTypeOK,
           MutateDictionary \/ ChangeContent \/ RaiseVersion \/ RestartServices
    PROVE  ResolverTypeOK'
<1>1. CASE MutateDictionary
  <2>1. dictVersion \in Nat \ {0} /\ content' \in Nat /\ dictVersion' = dictVersion + 1
        /\ published' = Published /\ published \in [1..dictVersion -> Nat]
    BY <1>1 DEF MutateDictionary, ResolverTypeOK
  <2>2. published' \in [1..dictVersion' -> Nat]
    BY <2>1 DEF Published
  <2>3. dictVersion' \in Nat \ {0} /\ content' \in Nat \ {0}
    BY <1>1, <2>1 DEF MutateDictionary, ResolverTypeOK
  <2>4. owed' \in BOOLEAN
    BY <1>1, Zenon DEF MutateDictionary
  <2>5. UNCHANGED <<runVars, shared, decisions, shown, patternVars, errors>>
    BY <1>1 DEF MutateDictionary
  <2>6. QED
    BY <2>2, <2>3, <2>4, <2>5 DEF ResolverTypeOK, shared, keyVars, patternVars, runData,
       runVars
<1>2. CASE ChangeContent
  BY <1>2, BoundsAssumption DEF ChangeContent, ResolverTypeOK, Stages,
     Statuses, Decided, None, NoRun, dictionary, shared, keyVars, patternVars,
     runData, runVars
<1>3. CASE RaiseVersion
  <2>1. dictVersion \in Nat \ {0} /\ content' \in Nat /\ dictVersion' = dictVersion + 1
        /\ published' = Published /\ published \in [1..dictVersion -> Nat]
    BY <1>3 DEF RaiseVersion, ResolverTypeOK
  <2>2. published' \in [1..dictVersion' -> Nat]
    BY <2>1 DEF Published
  <2>3. dictVersion' \in Nat \ {0} /\ content' \in Nat \ {0}
    BY <1>3, <2>1 DEF RaiseVersion, ResolverTypeOK
  <2>4. owed' \in BOOLEAN
    BY <1>3, Zenon DEF RaiseVersion
  <2>5. UNCHANGED <<runVars, shared, decisions, shown, patternVars, errors>>
    BY <1>3 DEF RaiseVersion
  <2>6. QED
    BY <2>2, <2>3, <2>4, <2>5 DEF ResolverTypeOK, shared, keyVars, patternVars, runData,
       runVars
<1>4. CASE RestartServices
  BY <1>4, BoundsAssumption DEF RestartServices, Ends, NoSnapshot, NoFlight,
     Unread, NoKeys, NotLooking, ResolverTypeOK, Stages, Statuses, Decided,
     None, NoRun, dictionary, shared, keyVars, patternVars, runData, runVars
<1>5. QED
  BY <1>1, <1>2, <1>3, <1>4

(* So does a step of a run, which has a candidate and a pattern where it   *)
(* uses them.                                                              *)
LEMMA RunKeepsTypes ==
    ASSUME ResolverTypeOK, RunsCover, RunsPattern, NEW r \in Runs, RunStep(r)
    PROVE  ResolverTypeOK'
<1> USE RunsAssumption
<1>1. ASSUME NEW c \in Candidates, Resolve(r, c)
      PROVE  ResolverTypeOK'
  BY <1>1 DEF Resolve, Goes, ResolverTypeOK, Stages, Statuses, Decided, None,
     NoRun, RunsCover, RunsPattern, Saved, dictionary, shared, keyVars,
     patternVars, runData, runVars
<1>2. ASSUME NEW p \in Patterns, SaveDecision(r, p)
      PROVE  ResolverTypeOK'
  <2>1. stage[r] = "save" /\ stage' = [stage EXCEPT ![r] = "show"]
    BY <1>2 DEF SaveDecision, Goes
  <2>2. stage' \in [Runs -> Stages]
    BY <2>1 DEF ResolverTypeOK, Stages
  <2>3. subject[r] \in Candidates
    BY <2>1 DEF RunsCover
  <2>4. target[r] \in Nat /\ got[r] \in Nat
    BY DEF ResolverTypeOK
  <2>5. Decision(r, p) \in [candidate : Candidates, version : Nat, got : Nat,
                            pattern : Patterns]
    BY <2>3, <2>4 DEF Decision
  <2>6. decisions' \subseteq decisions \cup {Decision(r, p)}
    BY <1>2 DEF SaveDecision
  <2>7. decisions' \subseteq [candidate : Candidates, version : Nat, got : Nat,
                             pattern : Patterns]
    BY <2>5, <2>6 DEF ResolverTypeOK
  <2>8. pattern' \in [Runs -> Patterns \cup {None}]
    BY <1>2 DEF SaveDecision, ResolverTypeOK
  <2>9. UNCHANGED <<dictionary, subject, target, got, waits, shared, shown, patternVars,
                    errors>>
    BY <1>2 DEF SaveDecision
  <2>10. QED
    BY <2>2, <2>7, <2>8, <2>9 DEF ResolverTypeOK, dictionary, shared, keyVars, patternVars
<1>3. CASE ReadVersion(r)
  BY <1>3 DEF ReadVersion, Goes, ResolverTypeOK, Stages, Statuses, Decided,
     None, NoRun, RunsCover, RunsPattern, Saved, dictionary, shared, keyVars,
     patternVars, runData, runVars
<1>4. CASE UseSnapshot(r)
  BY <1>4 DEF UseSnapshot, Goes, ResolverTypeOK, Stages, Statuses, Decided,
     None, NoRun, RunsCover, RunsPattern, Saved, dictionary, shared, keyVars,
     patternVars, runData, runVars
<1>5. CASE JoinLoad(r)
  BY <1>5 DEF JoinLoad, Goes, ResolverTypeOK, Stages, Statuses, Decided, None,
     NoRun, RunsCover, RunsPattern, Saved, dictionary, shared, keyVars,
     patternVars, runData, runVars
<1>6. CASE BeginLoad(r)
  BY <1>6 DEF BeginLoad, Goes, ResolverTypeOK, Stages, Statuses, Decided,
     None, NoRun, RunsCover, RunsPattern, Saved, dictionary, shared, keyVars,
     patternVars, runData, runVars
<1>7. CASE ReadTables(r)
  BY <1>7 DEF ReadTables, Goes, ResolverTypeOK, Stages, Statuses, Decided,
     None, NoRun, RunsCover, RunsPattern, Saved, dictionary, shared, keyVars,
     patternVars, runData, runVars
<1>8. CASE TakeOver(r)
  <2> DEFINE served   == {j \in Joined(r) : target[j] = target[r]}
             unserved == Joined(r) \ served
  <2>1. LoadEnds(r, served, unserved)
    BY <1>8 DEF TakeOver
  <2>2. stage' \in [Runs -> Stages]
    BY <2>1 DEF LoadEnds, ResolverTypeOK, Stages
  <2>3. got' \in [Runs -> Nat] /\ waits' \in [Runs -> Runs \cup {NoRun}]
    BY <2>1 DEF LoadEnds, ResolverTypeOK
  <2>4. snapshot' \in [Services -> [version : Nat, got : Nat]]
    BY <2>1 DEF LoadEnds, ResolverTypeOK
  <2>5. PICK f \in IF unserved = {} THEN {NoRun} ELSE unserved :
            flight' = [flight EXCEPT ![ServiceOf[r]] = f]
    BY <2>1 DEF LoadEnds
  <2>6. f \in Runs \cup {NoRun}
    BY <2>5 DEF Joined
  <2>7. flight' \in [Services -> Runs \cup {NoRun}]
    BY <2>5, <2>6 DEF ResolverTypeOK
  <2>8. QED
    BY <2>1, <2>2, <2>3, <2>4, <2>7 DEF LoadEnds, ResolverTypeOK, dictionary, keyVars,
       patternVars
<1>9. CASE UpdateCandidateSnapshot(r)
  BY <1>9 DEF UpdateCandidateSnapshot, Goes, ResolverTypeOK, Stages, Statuses,
     Decided, None, NoRun, RunsCover, RunsPattern, Saved, dictionary, shared,
     keyVars, patternVars, runData, runVars
<1>10. CASE LoadKeys(r)
  BY <1>10 DEF LoadKeys, ResolverTypeOK, Stages, Statuses, Decided, None,
     NoRun, RunsCover, RunsPattern, Saved, dictionary, shared, keyVars,
     patternVars, runData, runVars
<1>11. CASE NothingToInsert(r)
  BY <1>11 DEF NothingToInsert, Ends, ResolverTypeOK, Stages, Statuses,
     Decided, None, NoRun, RunsCover, RunsPattern, Saved, dictionary, shared,
     keyVars, patternVars, runData, runVars
<1>12. CASE IsUnknown(r)
  BY <1>12 DEF IsUnknown, Goes, ResolverTypeOK, Stages, Statuses, Decided,
     None, NoRun, RunsCover, RunsPattern, Saved, dictionary, shared, keyVars,
     patternVars, runData, runVars
<1>13. CASE Insert(r)
  BY <1>13 DEF Insert, Ends, Noted, ResolverTypeOK, Stages, Statuses, Decided,
     None, NoRun, RunsCover, RunsPattern, Saved, dictionary, shared, keyVars,
     patternVars, runData, runVars
<1>14. CASE RunFails(r)
  BY <1>14, BoundsAssumption DEF RunFails, Ends, Loading, Joined,
     ResolverTypeOK, Stages, Statuses, Decided, None, NoRun, RunsCover,
     RunsPattern, Saved, dictionary, shared, keyVars, patternVars, runData,
     runVars
<1>15. QED
  BY <1>1, <1>2, <1>3, <1>4, <1>5, <1>6, <1>7, <1>8, <1>9, <1>10, <1>11,
     <1>12, <1>13, <1>14 DEF RunStep, Snapshot, Review

(* So does a review.                                                       *)
LEMMA ReviewKeepsTypes ==
    ASSUME ResolverTypeOK, Verdicts, NEW h \in Reviewers, ReviewerStep(h)
    PROVE  ResolverTypeOK'
<1>1. ASSUME NEW p \in Patterns, NEW verdict \in Decided, FindReview(h, p, verdict)
      PROVE  ResolverTypeOK'
  BY <1>1 DEF FindReview, ResolverTypeOK, Stages, Statuses, Decided, None,
     NoRun, Verdicts, NotLooking, dictionary, shared, keyVars, patternVars,
     runData, runVars
<1>2. CASE SaveReview(h)
  BY <1>2 DEF SaveReview, ResolverTypeOK, Stages, Statuses, Decided, None,
     NoRun, Verdicts, NotLooking, dictionary, shared, keyVars, patternVars,
     runData, runVars
<1>3. QED
  BY <1>1, <1>2 DEF ReviewerStep

-----------------------------------------------------------------------------
(* What is gone by covers its version *)

(* A new version is raised for the content there is; what was read for an  *)
(* older one still covers it.                                              *)
LEMMA DictionaryKeepsCover ==
    ASSUME Resolving, ResolverTypeOK',
           MutateDictionary \/ ChangeContent \/ RaiseVersion \/ RestartServices
    PROVE  (Raised /\ RunsCover /\ SnapshotsCover /\ DecisionsCover)'
<1>1. CASE MutateDictionary
  BY <1>1 DEF MutateDictionary, Published, Resolving, Raised, RunsCover,
     SnapshotsCover, DecisionsCover, Covers, Versioned, WithGot,
     ResolverTypeOK, Stages, Statuses, Decided, None, NoRun, dictionary,
     shared, keyVars, patternVars, runData, runVars
<1>2. CASE ChangeContent
  BY <1>2 DEF ChangeContent, Resolving, Raised, RunsCover, SnapshotsCover,
     DecisionsCover, Covers, Versioned, WithGot, ResolverTypeOK, Stages,
     Statuses, Decided, None, NoRun, dictionary, shared, keyVars, patternVars,
     runData, runVars
<1>3. CASE RaiseVersion
  BY <1>3 DEF RaiseVersion, Published, Resolving, Raised, RunsCover,
     SnapshotsCover, DecisionsCover, Covers, Versioned, WithGot,
     ResolverTypeOK, Stages, Statuses, Decided, None, NoRun, dictionary,
     shared, keyVars, patternVars, runData, runVars
<1>4. CASE RestartServices
  BY <1>4 DEF RestartServices, Ends, NoSnapshot, NoFlight, Unread, NoKeys,
     NotLooking, Resolving, Raised, RunsCover, SnapshotsCover, DecisionsCover,
     Covers, Versioned, WithGot, ResolverTypeOK, Stages, Statuses, Decided,
     None, NoRun, dictionary, shared, keyVars, patternVars, runData, runVars
<1>5. QED
  BY <1>1, <1>2, <1>3, <1>4

(* A run goes by what was read after the version it has, because it takes  *)
(* a snapshot or a load of this version only.                              *)
LEMMA RunKeepsCover ==
    ASSUME Resolving, ResolverTypeOK', NEW r \in Runs, RunStep(r)
    PROVE  (Raised /\ RunsCover /\ SnapshotsCover /\ DecisionsCover)'
<1> USE RunsAssumption
<1>1. ASSUME NEW c \in Candidates, Resolve(r, c)
      PROVE  (Raised /\ RunsCover /\ SnapshotsCover /\ DecisionsCover)'
  BY <1>1 DEF Resolve, Goes, Resolving, Raised, RunsCover, SnapshotsCover,
     DecisionsCover, Covers, Versioned, WithGot, ResolverTypeOK, Stages,
     Statuses, Decided, None, NoRun, dictionary, shared, keyVars, patternVars,
     runData, runVars
<1>2. ASSUME NEW p \in Patterns, SaveDecision(r, p)
      PROVE  (Raised /\ RunsCover /\ SnapshotsCover /\ DecisionsCover)'
  BY <1>2 DEF SaveDecision, Decision, Goes, Resolving, Raised, RunsCover,
     SnapshotsCover, DecisionsCover, Covers, Versioned, WithGot,
     ResolverTypeOK, Stages, Statuses, Decided, None, NoRun, dictionary,
     shared, keyVars, patternVars, runData, runVars
<1>3. CASE ReadVersion(r)
  BY <1>3 DEF ReadVersion, Goes, Resolving, Raised, RunsCover, SnapshotsCover,
     DecisionsCover, Covers, Versioned, WithGot, ResolverTypeOK, Stages,
     Statuses, Decided, None, NoRun, dictionary, shared, keyVars, patternVars,
     runData, runVars
<1>4. CASE UseSnapshot(r)
  <2>1. /\ target[r] \in 1..dictVersion /\ dictVersion \in Nat
        /\ snapshot[ServiceOf[r]].version = target[r] /\ ServiceOf[r] \in Services
    BY <1>4 DEF UseSnapshot, Goes, Resolving, RunsCover, Versioned, Stages, ResolverTypeOK
  <2>2. snapshot[ServiceOf[r]].version # None
    BY <2>1 DEF None
  <2>3. Covers(target[r], snapshot[ServiceOf[r]].got)
    BY <2>1, <2>2 DEF Resolving, SnapshotsCover
  <2>4. RunsCover'
    BY <1>4, <2>1, <2>3 DEF UseSnapshot, Goes, Resolving, RunsCover, Covers, Versioned,
       WithGot, Stages, ResolverTypeOK, dictionary
  <2>5. QED
    BY <1>4, <2>4 DEF UseSnapshot, Resolving, Raised, SnapshotsCover, DecisionsCover, Covers,
       dictionary, shared
<1>5. CASE JoinLoad(r)
  BY <1>5 DEF JoinLoad, Goes, Resolving, Raised, RunsCover, SnapshotsCover,
     DecisionsCover, Covers, Versioned, WithGot, ResolverTypeOK, Stages,
     Statuses, Decided, None, NoRun, dictionary, shared, keyVars, patternVars,
     runData, runVars
<1>6. CASE BeginLoad(r)
  BY <1>6 DEF BeginLoad, Goes, Resolving, Raised, RunsCover, SnapshotsCover,
     DecisionsCover, Covers, Versioned, WithGot, ResolverTypeOK, Stages,
     Statuses, Decided, None, NoRun, dictionary, shared, keyVars, patternVars,
     runData, runVars
<1>7. CASE ReadTables(r)
  BY <1>7 DEF ReadTables, Goes, Resolving, Raised, RunsCover, SnapshotsCover,
     DecisionsCover, Covers, Versioned, WithGot, ResolverTypeOK, Stages,
     Statuses, Decided, None, NoRun, dictionary, shared, keyVars, patternVars,
     runData, runVars
<1>8. CASE TakeOver(r)
  <2> DEFINE served   == {j \in Joined(r) : target[j] = target[r]}
             unserved == Joined(r) \ served
  <2>1. LoadEnds(r, served, unserved) /\ UNCHANGED <<dictionary, subject, target, decisions>>
    BY <1>8 DEF TakeOver, LoadEnds
  <2>2. Covers(target[r], got[r])
    BY <2>1 DEF LoadEnds, Resolving, RunsCover, WithGot
  <2>3. ASSUME NEW x \in Runs
        PROVE  /\ stage'[x] # "idle" => subject'[x] \in Candidates
               /\ stage'[x] \in Versioned => target'[x] \in 1..dictVersion
               /\ stage'[x] \in WithGot => Covers(target'[x], got'[x])
    <3>1. CASE x = r
      BY <2>1, <2>2, <3>1 DEF LoadEnds, Resolving, ResolverTypeOK, RunsCover, Covers, Joined
    <3>2. CASE x \in served
      BY <2>1, <2>2, <3>2 DEF LoadEnds, Resolving, ResolverTypeOK, RunsCover, Covers, Joined
    <3>3. CASE x # r /\ x \notin served
      BY <2>1, <3>3 DEF LoadEnds, Resolving, RunsCover, Joined, Versioned, WithGot, Stages
    <3>4. QED
      BY <3>1, <3>2, <3>3
  <2>4. RunsCover'
    BY <2>1, <2>3 DEF RunsCover, Covers, dictionary
  <2>5. SnapshotsCover'
    BY <2>1, <2>2 DEF LoadEnds, Resolving, ResolverTypeOK, SnapshotsCover, Covers, dictionary
  <2>6. QED
    BY <2>1, <2>4, <2>5 DEF Resolving, Raised, DecisionsCover, Covers, dictionary
<1>9. CASE UpdateCandidateSnapshot(r)
  BY <1>9 DEF UpdateCandidateSnapshot, Goes, Resolving, Raised, RunsCover,
     SnapshotsCover, DecisionsCover, Covers, Versioned, WithGot,
     ResolverTypeOK, Stages, Statuses, Decided, None, NoRun, dictionary,
     shared, keyVars, patternVars, runData, runVars
<1>10. CASE LoadKeys(r)
  BY <1>10 DEF LoadKeys, Resolving, Raised, RunsCover, SnapshotsCover,
     DecisionsCover, Covers, Versioned, WithGot, ResolverTypeOK, Stages,
     Statuses, Decided, None, NoRun, dictionary, shared, keyVars, patternVars,
     runData, runVars
<1>11. CASE NothingToInsert(r)
  BY <1>11 DEF NothingToInsert, Ends, Resolving, Raised, RunsCover,
     SnapshotsCover, DecisionsCover, Covers, Versioned, WithGot,
     ResolverTypeOK, Stages, Statuses, Decided, None, NoRun, dictionary,
     shared, keyVars, patternVars, runData, runVars
<1>12. CASE IsUnknown(r)
  BY <1>12 DEF IsUnknown, Goes, Resolving, Raised, RunsCover, SnapshotsCover,
     DecisionsCover, Covers, Versioned, WithGot, ResolverTypeOK, Stages,
     Statuses, Decided, None, NoRun, dictionary, shared, keyVars, patternVars,
     runData, runVars
<1>13. CASE Insert(r)
  BY <1>13 DEF Insert, Ends, Noted, Resolving, Raised, RunsCover,
     SnapshotsCover, DecisionsCover, Covers, Versioned, WithGot,
     ResolverTypeOK, Stages, Statuses, Decided, None, NoRun, dictionary,
     shared, keyVars, patternVars, runData, runVars
<1>14. CASE RunFails(r)
  BY <1>14 DEF RunFails, Ends, Loading, Joined, Resolving, Raised, RunsCover,
     SnapshotsCover, DecisionsCover, Covers, Versioned, WithGot,
     ResolverTypeOK, Stages, Statuses, Decided, None, NoRun, dictionary,
     shared, keyVars, patternVars, runData, runVars
<1>15. QED
  BY <1>1, <1>2, <1>3, <1>4, <1>5, <1>6, <1>7, <1>8, <1>9, <1>10, <1>11,
     <1>12, <1>13, <1>14 DEF RunStep, Snapshot, Review

-----------------------------------------------------------------------------
(* What is shown is recorded *)

(* A restart takes away the runs, not what they recorded.                  *)
LEMMA DictionaryKeepsRecord ==
    ASSUME Resolving,
           MutateDictionary \/ ChangeContent \/ RaiseVersion \/ RestartServices
    PROVE  (RunsRecorded /\ ShownIsRecorded)'
<1>1. CASE MutateDictionary
  BY <1>1 DEF MutateDictionary, Published, Resolving, RunsCover, RunsRecorded,
     ShownIsRecorded, Recorded, Saved, ResolverTypeOK, Stages, Statuses,
     Decided, None, NoRun, dictionary, shared, keyVars, patternVars, runData,
     runVars
<1>2. CASE ChangeContent
  BY <1>2 DEF ChangeContent, Resolving, RunsCover, RunsRecorded,
     ShownIsRecorded, Recorded, Saved, ResolverTypeOK, Stages, Statuses,
     Decided, None, NoRun, dictionary, shared, keyVars, patternVars, runData,
     runVars
<1>3. CASE RaiseVersion
  BY <1>3 DEF RaiseVersion, Published, Resolving, RunsCover, RunsRecorded,
     ShownIsRecorded, Recorded, Saved, ResolverTypeOK, Stages, Statuses,
     Decided, None, NoRun, dictionary, shared, keyVars, patternVars, runData,
     runVars
<1>4. CASE RestartServices
  BY <1>4 DEF RestartServices, Ends, NoSnapshot, NoFlight, Unread, NoKeys,
     NotLooking, Resolving, RunsCover, RunsRecorded, ShownIsRecorded,
     Recorded, Saved, ResolverTypeOK, Stages, Statuses, Decided, None, NoRun,
     dictionary, shared, keyVars, patternVars, runData, runVars
<1>5. QED
  BY <1>1, <1>2, <1>3, <1>4

(* A decision is replaced by one of the same candidate and version.        *)
LEMMA RunKeepsRecord ==
    ASSUME Resolving, NEW r \in Runs, RunStep(r)
    PROVE  (RunsRecorded /\ ShownIsRecorded)'
<1> USE RunsAssumption
<1>1. ASSUME NEW c \in Candidates, Resolve(r, c)
      PROVE  (RunsRecorded /\ ShownIsRecorded)'
  BY <1>1 DEF Resolve, Goes, Resolving, RunsCover, RunsRecorded,
     ShownIsRecorded, Recorded, Saved, ResolverTypeOK, Stages, Statuses,
     Decided, None, NoRun, dictionary, shared, keyVars, patternVars, runData,
     runVars
<1>2. ASSUME NEW p \in Patterns, SaveDecision(r, p)
      PROVE  (RunsRecorded /\ ShownIsRecorded)'
  <2>1. Decision(r, p) \in decisions' /\ UNCHANGED <<subject, target, shown>>
    BY <1>2 DEF SaveDecision, Decision
  <2>2. \A e \in decisions : Recorded(e.candidate, e.version)'
    BY <1>2, <2>1 DEF SaveDecision, Decision, Recorded
  <2>3. Recorded(subject[r], target[r])'
    BY <2>1 DEF Recorded, Decision
  <2>4. \A c, v : Recorded(c, v) => Recorded(c, v)'
    BY <2>2 DEF Recorded
  <2>5. \A x \in Runs : x # r => stage'[x] = stage[x]
    BY <1>2 DEF SaveDecision, Decision, Goes, Resolving, ResolverTypeOK
  <2>6. RunsRecorded'
    BY <2>1, <2>3, <2>4, <2>5 DEF Resolving, RunsRecorded, Recorded
  <2>7. ShownIsRecorded'
    BY <2>1, <2>4 DEF Resolving, ShownIsRecorded, Recorded
  <2>8. QED
    BY <2>6, <2>7
<1>3. CASE ReadVersion(r)
  BY <1>3 DEF ReadVersion, Goes, Resolving, RunsCover, RunsRecorded,
     ShownIsRecorded, Recorded, Saved, ResolverTypeOK, Stages, Statuses,
     Decided, None, NoRun, dictionary, shared, keyVars, patternVars, runData,
     runVars
<1>4. CASE UseSnapshot(r)
  BY <1>4 DEF UseSnapshot, Goes, Resolving, RunsCover, RunsRecorded,
     ShownIsRecorded, Recorded, Saved, ResolverTypeOK, Stages, Statuses,
     Decided, None, NoRun, dictionary, shared, keyVars, patternVars, runData,
     runVars
<1>5. CASE JoinLoad(r)
  BY <1>5 DEF JoinLoad, Goes, Resolving, RunsCover, RunsRecorded,
     ShownIsRecorded, Recorded, Saved, ResolverTypeOK, Stages, Statuses,
     Decided, None, NoRun, dictionary, shared, keyVars, patternVars, runData,
     runVars
<1>6. CASE BeginLoad(r)
  BY <1>6 DEF BeginLoad, Goes, Resolving, RunsCover, RunsRecorded,
     ShownIsRecorded, Recorded, Saved, ResolverTypeOK, Stages, Statuses,
     Decided, None, NoRun, dictionary, shared, keyVars, patternVars, runData,
     runVars
<1>7. CASE ReadTables(r)
  BY <1>7 DEF ReadTables, Goes, Resolving, RunsCover, RunsRecorded,
     ShownIsRecorded, Recorded, Saved, ResolverTypeOK, Stages, Statuses,
     Decided, None, NoRun, dictionary, shared, keyVars, patternVars, runData,
     runVars
<1>8. CASE TakeOver(r)
  BY <1>8 DEF TakeOver, LoadEnds, Joined, Resolving, RunsCover, RunsRecorded,
     ShownIsRecorded, Recorded, Saved, ResolverTypeOK, Stages, Statuses,
     Decided, None, NoRun, dictionary, shared, keyVars, patternVars, runData,
     runVars
<1>9. CASE UpdateCandidateSnapshot(r)
  BY <1>9 DEF UpdateCandidateSnapshot, Goes, Resolving, RunsCover,
     RunsRecorded, ShownIsRecorded, Recorded, Saved, ResolverTypeOK, Stages,
     Statuses, Decided, None, NoRun, dictionary, shared, keyVars, patternVars,
     runData, runVars
<1>10. CASE LoadKeys(r)
  BY <1>10 DEF LoadKeys, Resolving, RunsCover, RunsRecorded, ShownIsRecorded,
     Recorded, Saved, ResolverTypeOK, Stages, Statuses, Decided, None, NoRun,
     dictionary, shared, keyVars, patternVars, runData, runVars
<1>11. CASE NothingToInsert(r)
  <2>1. UNCHANGED <<decisions, shown>>
    BY <1>11 DEF NothingToInsert
  <2>2. \A x \in Runs : x # r => stage'[x] = stage[x] /\ subject'[x] = subject[x]
                               /\ target'[x] = target[x]
    BY <1>11 DEF NothingToInsert, Ends
  <2>3. stage'[r] = "idle"
    BY <1>11 DEF NothingToInsert, Ends
  <2>4. QED
    BY <2>1, <2>2, <2>3 DEF Resolving, RunsRecorded, ShownIsRecorded, Recorded, Saved
<1>12. CASE IsUnknown(r)
  BY <1>12 DEF IsUnknown, Goes, Resolving, RunsCover, RunsRecorded,
     ShownIsRecorded, Recorded, Saved, ResolverTypeOK, Stages, Statuses,
     Decided, None, NoRun, dictionary, shared, keyVars, patternVars, runData,
     runVars
<1>13. CASE Insert(r)
  BY <1>13 DEF Insert, Ends, Noted, Resolving, RunsCover, RunsRecorded,
     ShownIsRecorded, Recorded, Saved, ResolverTypeOK, Stages, Statuses,
     Decided, None, NoRun, dictionary, shared, keyVars, patternVars, runData,
     runVars
<1>14. CASE RunFails(r)
  BY <1>14 DEF RunFails, Ends, Loading, Joined, Resolving, RunsCover,
     RunsRecorded, ShownIsRecorded, Recorded, Saved, ResolverTypeOK, Stages,
     Statuses, Decided, None, NoRun, dictionary, shared, keyVars, patternVars,
     runData, runVars
<1>15. QED
  BY <1>1, <1>2, <1>3, <1>4, <1>5, <1>6, <1>7, <1>8, <1>9, <1>10, <1>11,
     <1>12, <1>13, <1>14 DEF RunStep, Snapshot, Review

-----------------------------------------------------------------------------
(* What is known is in the table *)

(* A restart forgets the keys.                                             *)
LEMMA DictionaryKeepsKnown ==
    ASSUME Resolving,
           MutateDictionary \/ ChangeContent \/ RaiseVersion \/ RestartServices
    PROVE  (KnownListed /\ RunsPattern /\ Verdicts)'
<1>1. CASE MutateDictionary
  BY <1>1 DEF MutateDictionary, Published, Resolving, KnownListed,
     RunsPattern, Verdicts, Saved, NotLooking, ResolverTypeOK, Stages,
     Statuses, Decided, None, NoRun, dictionary, shared, keyVars, patternVars,
     runData, runVars
<1>2. CASE ChangeContent
  BY <1>2 DEF ChangeContent, Resolving, KnownListed, RunsPattern, Verdicts,
     Saved, NotLooking, ResolverTypeOK, Stages, Statuses, Decided, None,
     NoRun, dictionary, shared, keyVars, patternVars, runData, runVars
<1>3. CASE RaiseVersion
  BY <1>3 DEF RaiseVersion, Published, Resolving, KnownListed, RunsPattern,
     Verdicts, Saved, NotLooking, ResolverTypeOK, Stages, Statuses, Decided,
     None, NoRun, dictionary, shared, keyVars, patternVars, runData, runVars
<1>4. CASE RestartServices
  BY <1>4 DEF RestartServices, Ends, NoSnapshot, NoFlight, Unread, NoKeys,
     NotLooking, Resolving, KnownListed, RunsPattern, Verdicts, Saved,
     NotLooking, ResolverTypeOK, Stages, Statuses, Decided, None, NoRun,
     dictionary, shared, keyVars, patternVars, runData, runVars
<1>5. QED
  BY <1>1, <1>2, <1>3, <1>4

(* A key is noted together with its review, and no review is removed.      *)
LEMMA RunKeepsKnown ==
    ASSUME Resolving, NEW r \in Runs, RunStep(r)
    PROVE  (KnownListed /\ RunsPattern /\ Verdicts)'
<1> USE RunsAssumption
<1>1. ASSUME NEW c \in Candidates, Resolve(r, c)
      PROVE  (KnownListed /\ RunsPattern /\ Verdicts)'
  BY <1>1 DEF Resolve, Goes, Resolving, KnownListed, RunsPattern, Verdicts,
     Saved, NotLooking, ResolverTypeOK, Stages, Statuses, Decided, None,
     NoRun, dictionary, shared, keyVars, patternVars, runData, runVars
<1>2. ASSUME NEW p \in Patterns, SaveDecision(r, p)
      PROVE  (KnownListed /\ RunsPattern /\ Verdicts)'
  BY <1>2 DEF SaveDecision, Decision, Goes, Resolving, KnownListed, RunsPattern,
     Verdicts, Saved, NotLooking, ResolverTypeOK, Stages, Statuses, Decided,
     None, NoRun, dictionary, shared, keyVars, patternVars, runData, runVars
<1>3. CASE ReadVersion(r)
  BY <1>3 DEF ReadVersion, Goes, Resolving, KnownListed, RunsPattern,
     Verdicts, Saved, NotLooking, ResolverTypeOK, Stages, Statuses, Decided,
     None, NoRun, dictionary, shared, keyVars, patternVars, runData, runVars
<1>4. CASE UseSnapshot(r)
  BY <1>4 DEF UseSnapshot, Goes, Resolving, KnownListed, RunsPattern,
     Verdicts, Saved, NotLooking, ResolverTypeOK, Stages, Statuses, Decided,
     None, NoRun, dictionary, shared, keyVars, patternVars, runData, runVars
<1>5. CASE JoinLoad(r)
  BY <1>5 DEF JoinLoad, Goes, Resolving, KnownListed, RunsPattern, Verdicts,
     Saved, NotLooking, ResolverTypeOK, Stages, Statuses, Decided, None,
     NoRun, dictionary, shared, keyVars, patternVars, runData, runVars
<1>6. CASE BeginLoad(r)
  BY <1>6 DEF BeginLoad, Goes, Resolving, KnownListed, RunsPattern, Verdicts,
     Saved, NotLooking, ResolverTypeOK, Stages, Statuses, Decided, None,
     NoRun, dictionary, shared, keyVars, patternVars, runData, runVars
<1>7. CASE ReadTables(r)
  BY <1>7 DEF ReadTables, Goes, Resolving, KnownListed, RunsPattern, Verdicts,
     Saved, NotLooking, ResolverTypeOK, Stages, Statuses, Decided, None,
     NoRun, dictionary, shared, keyVars, patternVars, runData, runVars
<1>8. CASE TakeOver(r)
  BY <1>8 DEF TakeOver, LoadEnds, Joined, Resolving, KnownListed, RunsPattern,
     Verdicts, Saved, NotLooking, ResolverTypeOK, Stages, Statuses, Decided,
     None, NoRun, dictionary, shared, keyVars, patternVars, runData, runVars
<1>9. CASE UpdateCandidateSnapshot(r)
  BY <1>9 DEF UpdateCandidateSnapshot, Goes, Resolving, KnownListed,
     RunsPattern, Verdicts, Saved, NotLooking, ResolverTypeOK, Stages,
     Statuses, Decided, None, NoRun, dictionary, shared, keyVars, patternVars,
     runData, runVars
<1>10. CASE LoadKeys(r)
  BY <1>10 DEF LoadKeys, Resolving, KnownListed, RunsPattern, Verdicts, Saved,
     NotLooking, ResolverTypeOK, Stages, Statuses, Decided, None, NoRun,
     dictionary, shared, keyVars, patternVars, runData, runVars
<1>11. CASE NothingToInsert(r)
  BY <1>11 DEF NothingToInsert, Ends, Resolving, KnownListed, RunsPattern,
     Verdicts, Saved, NotLooking, ResolverTypeOK, Stages, Statuses, Decided,
     None, NoRun, dictionary, shared, keyVars, patternVars, runData, runVars
<1>12. CASE IsUnknown(r)
  BY <1>12 DEF IsUnknown, Goes, Resolving, KnownListed, RunsPattern, Verdicts,
     Saved, NotLooking, ResolverTypeOK, Stages, Statuses, Decided, None,
     NoRun, dictionary, shared, keyVars, patternVars, runData, runVars
<1>13. CASE Insert(r)
  BY <1>13 DEF Insert, Ends, Noted, Resolving, KnownListed, RunsPattern,
     Verdicts, Saved, NotLooking, ResolverTypeOK, Stages, Statuses, Decided,
     None, NoRun, dictionary, shared, keyVars, patternVars, runData, runVars
<1>14. CASE RunFails(r)
  BY <1>14 DEF RunFails, Ends, Loading, Joined, Resolving, KnownListed,
     RunsPattern, Verdicts, Saved, NotLooking, ResolverTypeOK, Stages,
     Statuses, Decided, None, NoRun, dictionary, shared, keyVars, patternVars,
     runData, runVars
<1>15. QED
  BY <1>1, <1>2, <1>3, <1>4, <1>5, <1>6, <1>7, <1>8, <1>9, <1>10, <1>11,
     <1>12, <1>13, <1>14 DEF RunStep, Snapshot, Review

(* A review that is saved is in the table.                                 *)
LEMMA ReviewKeepsKnown ==
    ASSUME Resolving, NEW h \in Reviewers, ReviewerStep(h)
    PROVE  (KnownListed /\ RunsPattern /\ Verdicts)'
<1>1. ASSUME NEW p \in Patterns, NEW verdict \in Decided, FindReview(h, p, verdict)
      PROVE  (KnownListed /\ RunsPattern /\ Verdicts)'
  BY <1>1 DEF FindReview, Resolving, KnownListed, RunsPattern, Verdicts,
     Saved, NotLooking, ResolverTypeOK, Stages, Statuses, Decided, None,
     NoRun, dictionary, shared, keyVars, patternVars, runData, runVars
<1>2. CASE SaveReview(h)
  BY <1>2 DEF SaveReview, Resolving, KnownListed, RunsPattern, Verdicts,
     Saved, NotLooking, ResolverTypeOK, Stages, Statuses, Decided, None,
     NoRun, dictionary, shared, keyVars, patternVars, runData, runVars
<1>3. QED
  BY <1>1, <1>2 DEF ReviewerStep


-----------------------------------------------------------------------------
(* The theorems *)

(* The first state satisfies the invariant: nothing is loaded or decided.  *)
LEMMA ResolvingInit == ResolverInit => Resolving
<1> SUFFICES ASSUME ResolverInit PROVE Resolving
  OBVIOUS
<1>1. ResolverTypeOK
  BY TypesInit
<1>2. Raised
  BY DEF ResolverInit, Raised
<1>3. RunsCover /\ RunsRecorded /\ RunsPattern
  BY DEF ResolverInit, RunsCover, RunsRecorded, RunsPattern, Versioned, WithGot, Saved
<1>4. SnapshotsCover /\ DecisionsCover /\ ShownIsRecorded
  BY DEF ResolverInit, NoSnapshot, SnapshotsCover, DecisionsCover, ShownIsRecorded
<1>5. KnownListed /\ Verdicts
  BY DEF ResolverInit, NoKeys, KnownListed, Verdicts
<1>6. QED
  BY <1>1, <1>2, <1>3, <1>4, <1>5 DEF Resolving

(* Every step keeps it.                                                    *)
LEMMA ResolvingStep == Resolving /\ [ResolverNext]_resolverVars => Resolving'
<1> SUFFICES ASSUME Resolving, [ResolverNext]_resolverVars PROVE Resolving'
  OBVIOUS
<1>1. CASE MutateDictionary \/ ChangeContent \/ RaiseVersion \/ RestartServices
  <2>1. ResolverTypeOK'
    BY <1>1, DictionaryKeepsTypes DEF Resolving
  <2>2. QED
    BY <1>1, <2>1, DictionaryKeepsCover, DictionaryKeepsRecord, DictionaryKeepsKnown
       DEF Resolving
<1>2. ASSUME NEW r \in Runs, RunStep(r) PROVE Resolving'
  <2>1. ResolverTypeOK'
    BY <1>2, RunKeepsTypes DEF Resolving
  <2>2. QED
    BY <1>2, <2>1, RunKeepsCover, RunKeepsRecord, RunKeepsKnown DEF Resolving
<1>3. ASSUME NEW h \in Reviewers, ReviewerStep(h) PROVE Resolving'
  <2>1. UNCHANGED <<dictionary, runVars, shared, decisions, shown>>
    BY <1>3 DEF ReviewerStep, FindReview, SaveReview
  <2>2. (Raised /\ RunsCover /\ SnapshotsCover /\ DecisionsCover)'
    BY <2>1 DEF Resolving, Raised, RunsCover, SnapshotsCover, DecisionsCover, Covers,
       dictionary, runVars, runData, shared
  <2>3. (RunsRecorded /\ ShownIsRecorded)'
    BY <2>1 DEF Resolving, RunsRecorded, ShownIsRecorded, Recorded, runVars, runData
  <2>4. QED
    BY <1>3, <2>2, <2>3, ReviewKeepsTypes, ReviewKeepsKnown DEF Resolving
<1>4. CASE UNCHANGED resolverVars
  <2> USE <1>4 DEF resolverVars, dictionary, runVars, runData, shared, patternVars, keyVars
  <2>1. ResolverTypeOK'
    BY DEF Resolving, ResolverTypeOK
  <2>2. (Raised /\ RunsCover /\ SnapshotsCover /\ DecisionsCover)'
    BY DEF Resolving, Raised, RunsCover, SnapshotsCover, DecisionsCover, Covers
  <2>3. (RunsRecorded /\ ShownIsRecorded)'
    BY DEF Resolving, RunsRecorded, ShownIsRecorded, Recorded
  <2>4. (KnownListed /\ RunsPattern /\ Verdicts)'
    BY DEF Resolving, KnownListed, RunsPattern, Verdicts
  <2>5. QED
    BY <2>1, <2>2, <2>3, <2>4 DEF Resolving
<1>5. QED
  BY <1>1, <1>2, <1>3, <1>4 DEF ResolverNext

(* In every state what the runs, services and decisions go by covers its   *)
(* version.                                                                *)
LEMMA ResolvingAlways == ResolverSpec => []Resolving
BY ResolvingInit, ResolvingStep, PTL DEF ResolverSpec

(* A decision recorded for a version was made with every change the        *)
(* version was raised for, and what a candidate shows is recorded.         *)
THEOREM EveryDecisionHolds == ResolverSpec => []DecisionsHold
<1>1. Resolving => DecisionsHold
  <2> SUFFICES ASSUME Resolving PROVE DecisionsHold
    OBVIOUS
  <2>1. ShownIsRecorded
    BY DEF Resolving
  <2>2. DecisionIsOfItsVersion
    BY DEF Resolving, DecisionsCover, Covers, ResolverTypeOK, DecisionIsOfItsVersion
  <2>3. QED
    BY <2>1, <2>2 DEF DecisionsHold
<1>2. QED
  BY <1>1, ResolvingAlways, PTL

(* A pattern a service takes for known has its review.                     *)
THEOREM EveryKnownIsListed == ResolverSpec => []KnownIsInTable
<1>1. Resolving => KnownIsInTable
  BY DEF Resolving, KnownListed, KnownIsInTable
<1>2. QED
  BY <1>1, ResolvingAlways, PTL

(* No step of a run puts a reviewed pattern back to pending.               *)
THEOREM ReviewsAreKept == ResolverSpec => ReviewIsKept
<1> DEFINE Keeps == \A p \in Patterns : reviews[p] \in Decided => reviews'[p] \in Decided
<1>1. ASSUME Resolving, [ResolverNext]_resolverVars PROVE Keeps
  <2>1. CASE UNCHANGED reviews
    BY <2>1
  <2>2. ASSUME NEW r \in Runs, Insert(r) PROVE Keeps
    BY <1>1, <2>2 DEF Insert, Resolving, ResolverTypeOK, Decided
  <2>3. ASSUME NEW h \in Reviewers, SaveReview(h) PROVE Keeps
    <3>1. looking[h].status \in Decided
      BY <1>1, <2>3 DEF SaveReview, Resolving, Verdicts
    <3>2. \/ reviews' = reviews
          \/ reviews' = [reviews EXCEPT ![looking[h].pattern] = looking[h].status]
      BY <2>3 DEF SaveReview
    <3>3. reviews \in [Patterns -> Statuses]
      BY <1>1 DEF Resolving, ResolverTypeOK
    <3>4. QED
      BY <3>1, <3>2, <3>3
  <2>4. \/ UNCHANGED reviews \/ \E r \in Runs : Insert(r)
        \/ \E h \in Reviewers : SaveReview(h)
    <3>1. CASE MutateDictionary \/ ChangeContent \/ RaiseVersion \/ RestartServices
      BY <3>1 DEF MutateDictionary, ChangeContent, RaiseVersion, RestartServices, patternVars
    <3>2. ASSUME NEW r \in Runs, RunStep(r) PROVE UNCHANGED reviews \/ Insert(r)
      BY <3>2 DEF RunStep, Snapshot, Review, Resolve, ReadVersion, UseSnapshot, JoinLoad,
         BeginLoad, ReadTables, TakeOver, LoadEnds, SaveDecision, UpdateCandidateSnapshot,
         LoadKeys, NothingToInsert, IsUnknown, RunFails, patternVars
    <3>3. ASSUME NEW h \in Reviewers, ReviewerStep(h) PROVE UNCHANGED reviews \/ SaveReview(h)
      BY <3>3 DEF ReviewerStep, FindReview
    <3>4. CASE UNCHANGED resolverVars
      BY <3>4 DEF resolverVars, patternVars
    <3>5. QED
      BY <1>1, <3>1, <3>2, <3>3, <3>4 DEF ResolverNext
  <2>5. QED
    BY <2>1, <2>2, <2>3, <2>4
<1>2. Resolving /\ [ResolverNext]_resolverVars => [Keeps]_resolverVars
  BY <1>1
<1>3. QED
  BY <1>2, ResolvingAlways, PTL DEF ResolverSpec, ReviewIsKept

-----------------------------------------------------------------------------
(* DictionaryCache *)

CacheShape ==
    /\ db \in [D!Tables -> Nat \ {0}]
    /\ version \in Nat \ {0}
    /\ map \in [D!Tables -> Nat]
    /\ loaded \in Nat /\ loaded <= version
    /\ load \in [D!Loads -> [at : D!Stages, got : Nat, alone : BOOLEAN] \cup {D!Idle}]

(* A load that has met nothing runs by itself, and has in the maps the     *)
(* tables it is past, as they are.                                         *)
Undisturbed(l) ==
    /\ \A m \in D!Loads : load[m] # D!Idle => m = l
    /\ load[l].at = "types"   => /\ load[l].got \in {0, db["types"]}
                                 /\ map["aliases"] = D!Empty
    /\ load[l].at = "aliases" => /\ load[l].got \in {0, db["aliases"]}
                                 /\ map["types"] = db["types"]
                                 /\ map["aliases"] = D!Empty
    /\ load[l].at = "version" => map = db

LoadsInv ==
    \A l \in D!Loads : load[l] # D!Idle =>
        /\ load[l].at = "version" => load[l].got <= version
        /\ load[l].alone => Undisturbed(l)

CacheInv == CacheShape /\ LoadsInv /\ D!CurrentOfItsVersion

(* A cache of the current version is current because a load that goes      *)
(* undisturbed has read what it has read so far as it still is.            *)
LEMMA CacheBegins == D!Init => CacheInv
  BY DEF D!Init, CacheInv, CacheShape, LoadsInv, D!CurrentOfItsVersion, D!Running, D!Tables, D!Empty,
     D!Null, D!Idle

USE DEF D!Stages, D!Tables, D!Idle, D!Empty, D!Null

(* A load that is disturbed goes on where it is.                           *)
LEMMA DisturbedGoesOn ==
    ASSUME CacheInv, NEW k \in D!Loads
    PROVE  \/ load[k] = D!Idle /\ D!Disturb[k] = D!Idle
           \/ \E s \in D!Stages, g \in Nat, b \in BOOLEAN :
                 /\ load[k] = [at |-> s, got |-> g, alone |-> b]
                 /\ D!Disturb[k] = [at |-> s, got |-> g, alone |-> FALSE]
<1>1. CASE load[k] = D!Idle
  BY <1>1 DEF D!Disturb, D!Running
<1>2. CASE load[k] # D!Idle
  <2>1. PICK s \in D!Stages, g \in Nat, b \in BOOLEAN :
            load[k] = [at |-> s, got |-> g, alone |-> b]
    BY <1>2 DEF CacheInv, CacheShape
  <2>2. PICK c : c = FALSE
    OBVIOUS
  <2>3. D!Disturb[k] = [at |-> s, got |-> g, alone |-> c]
    <3>1. D!Disturb[k] = [load[k] EXCEPT !.alone = c]
      BY <1>2, <2>2, Zenon DEF D!Disturb, D!Running
    <3>2. [[at |-> s, got |-> g, alone |-> b] EXCEPT !.alone = c]
              = [at |-> s, got |-> g, alone |-> c]
      OBVIOUS
    <3>3. QED
      BY <2>1, <3>1, <3>2, Zenon
  <2>4. QED
    BY <2>1, <2>2, <2>3, Zenon
<1>3. QED
  BY <1>1, <1>2

LEMMA DisturbedAreLoads ==
    ASSUME CacheInv
    PROVE  D!Disturb \in [D!Loads -> [at : D!Stages, got : Nat, alone : BOOLEAN] \cup {D!Idle}]
<1>1. \A k \in D!Loads :
          D!Disturb[k] \in [at : D!Stages, got : Nat, alone : BOOLEAN] \cup {D!Idle}
  <2>1. TAKE k \in D!Loads
  <2>2. PICK r : r = D!Disturb[k]
    OBVIOUS
  <2>3. \/ r = D!Idle
        \/ \E s \in D!Stages, g \in Nat : r = [at |-> s, got |-> g, alone |-> FALSE]
    BY <2>2, DisturbedGoesOn
  <2>4. r \in [at : D!Stages, got : Nat, alone : BOOLEAN] \cup {D!Idle}
    <3>1. ASSUME NEW s \in D!Stages, NEW g \in Nat, NEW a \in BOOLEAN,
                 r = [at |-> s, got |-> g, alone |-> a]
          PROVE  r \in [at : D!Stages, got : Nat, alone : BOOLEAN]
      BY <3>1
    <3>2. QED
      BY <2>3, <3>1
  <2>5. QED
    BY <2>2, <2>4
<1>2. D!Disturb = [k \in D!Loads |-> D!Disturb[k]]
  BY Zenon DEF D!Disturb
<1>3. PICK g : g = D!Disturb
  OBVIOUS
<1>4. QED
  BY <1>1, <1>2, <1>3

LEMMA BeginHolds ==
    ASSUME CacheInv, NEW l \in D!Loads, D!Begin(l),
           UNCHANGED <<db, version, loaded>>
    PROVE  CacheInv'
<1>. USE DEF CacheInv
<1>. PICK b \in BOOLEAN : b = (D!Running = {})
  OBVIOUS
<1>1. /\ map' = [n \in D!Tables |-> D!Empty]
      /\ load' = [D!Disturb EXCEPT ![l] = [at |-> "types", got |-> 0, alone |-> b]]
  BY DEF D!Begin
<1>2. D!Disturb \in [D!Loads -> [at : D!Stages, got : Nat, alone : BOOLEAN] \cup {D!Idle}]
  BY DisturbedAreLoads
<1>3. load'[l] # D!Idle
  BY <1>1, <1>2
<1>5. CacheShape'
  BY <1>1, <1>2 DEF CacheShape
<1>6. LoadsInv'
  <2>1. SUFFICES ASSUME NEW k \in D!Loads, load'[k] # D!Idle
                 PROVE  /\ load'[k].at = "version" => load'[k].got <= version'
                        /\ load'[k].alone => Undisturbed(k)'
    BY DEF LoadsInv
  <2>2. CASE k # l
    <3>1. PICK s \in D!Stages, g \in Nat, a \in BOOLEAN :
              /\ load[k] = [at |-> s, got |-> g, alone |-> a]
              /\ D!Disturb[k] = [at |-> s, got |-> g, alone |-> FALSE]
      BY <1>1, <1>2, <2>1, <2>2, DisturbedGoesOn
    <3>2. load'[k] = [at |-> s, got |-> g, alone |-> FALSE]
      BY <1>1, <1>2, <2>2, <3>1
    <3>3. QED
      BY <3>1, <3>2 DEF LoadsInv
  <2>3. CASE k = l
    <3>1. load'[k] = [at |-> "types", got |-> 0, alone |-> b]
      BY <1>1, <1>2, <2>3
    <3>2. ASSUME b PROVE Undisturbed(l)'
      <4>1. \A m \in D!Loads \ {l} : load'[m] = D!Disturb[m] /\ load[m] = D!Idle
        BY <1>1, <1>2, <3>2 DEF D!Running
      <4>2. \A m \in D!Loads \ {l} : load'[m] = D!Idle
        <5>1. TAKE m \in D!Loads \ {l}
        <5>2. load[m] = D!Idle
          BY <4>1
        <5>3. D!Disturb[m] = D!Idle
          BY <5>2 DEF D!Disturb, D!Running
        <5>4. QED
          BY <4>1, <5>3
      <4>3. QED
        BY <1>1, <3>1, <2>3, <4>2 DEF Undisturbed
    <3>3. QED
      BY <2>3, <3>1, <3>2
  <2>4. QED
    BY <2>2, <2>3
<1>7. D!CurrentOfItsVersion'
  BY <1>3 DEF D!CurrentOfItsVersion, D!Running
<1>8. QED
  BY <1>5, <1>6, <1>7

(* What is changed disturbs all loads under way, and its version is still  *)
(* to be raised or higher than that of the cache.                          *)
LEMMA ChangeHolds ==
    ASSUME CacheInv, NEW w, NEW n \in D!Tables, D!Mutate(w, n) \/ D!Write(w, n)
    PROVE  CacheInv'
<1>. USE DEF CacheInv, D!Change, D!Mutate, D!Write
<1>0. load' = D!Disturb
  OBVIOUS
<1>1. CacheShape'
  <2>1. /\ db' = [db EXCEPT ![n] = @ + 1]
        /\ version' \in {version, version + 1} /\ UNCHANGED <<map, loaded>>
    OBVIOUS
  <2>2. load' \in [D!Loads -> [at : D!Stages, got : Nat, alone : BOOLEAN] \cup {D!Idle}]
    BY <1>0, DisturbedAreLoads
  <2>3. QED
    BY <2>1, <2>2 DEF CacheShape
<1>2. LoadsInv'
  <2>1. SUFFICES ASSUME NEW k \in D!Loads, load'[k] # D!Idle
                 PROVE  /\ load'[k].at = "version" => load'[k].got <= version'
                        /\ load'[k].alone => Undisturbed(k)'
    BY DEF LoadsInv
  <2>2. PICK s \in D!Stages, g \in Nat, b \in BOOLEAN :
            /\ load[k] = [at |-> s, got |-> g, alone |-> b]
            /\ load'[k] = [at |-> s, got |-> g, alone |-> FALSE]
    BY <1>0, <2>1, DisturbedGoesOn
  <2>3. QED
    BY <2>2 DEF LoadsInv, CacheShape
<1>3. D!CurrentOfItsVersion'
  BY DEF D!CurrentOfItsVersion, CacheShape
<1>4. QED
  BY <1>1, <1>2, <1>3

LEMMA RaiseHolds ==
    ASSUME CacheInv, NEW w, D!Raise(w)
    PROVE  CacheInv'
<1>. USE DEF CacheInv, D!Raise, D!cache
<1>1. CacheShape'
  BY DEF CacheShape
<1>2. LoadsInv'
  BY DEF CacheShape, LoadsInv, Undisturbed
<1>3. D!CurrentOfItsVersion'
  BY DEF D!CurrentOfItsVersion, CacheShape
<1>4. QED
  BY <1>1, <1>2, <1>3

LEMMA QueryHolds ==
    ASSUME CacheInv, NEW l \in D!Loads, D!Query(l)
    PROVE  CacheInv'
<1>. USE DEF CacheInv, D!Query, D!base, D!Running
<1>1. PICK s \in D!Stages, b \in BOOLEAN : load[l] = [at |-> s, got |-> 0, alone |-> b]
  BY DEF CacheShape
<1>2. PICK g \in Nat : g = IF s = "version" THEN version ELSE db[s]
  BY DEF CacheShape
<1>3. load' = [load EXCEPT ![l] = [at |-> s, got |-> g, alone |-> b]]
  <2>1. load' = [load EXCEPT ![l] = [load[l] EXCEPT !.got = g]]
    <3>1. load[l].at = s
      BY <1>1
    <3>2. load' = [load EXCEPT ![l].got = IF load[l].at = "version" THEN version ELSE db[load[l].at]]
      BY Zenon
    <3>3. QED
      BY <1>2, <3>1, <3>2, Zenon
  <2>2. [[at |-> s, got |-> 0, alone |-> b] EXCEPT !.got = g] = [at |-> s, got |-> g, alone |-> b]
    OBVIOUS
  <2>3. QED
    BY <1>1, <2>1, <2>2, Zenon
<1>4. CacheShape'
  BY <1>3 DEF CacheShape
<1>5. LoadsInv'
  BY <1>1, <1>2, <1>3 DEF CacheShape, LoadsInv, Undisturbed
<1>6. D!CurrentOfItsVersion'
  BY <1>3, load'[l] # D!Idle DEF D!CurrentOfItsVersion, CacheShape
<1>7. QED
  BY <1>4, <1>5, <1>6

LEMMA FillHolds ==
    ASSUME CacheInv, NEW l \in D!Loads, D!Fill(l)
    PROVE  CacheInv'
<1>. USE DEF CacheInv, D!Fill, D!Answered, D!base, D!Running
<1>1. PICK s \in D!Tables, g \in Nat \ {0}, b \in BOOLEAN :
          load[l] = [at |-> s, got |-> g, alone |-> b]
  BY DEF CacheShape
<1>2. PICK n \in {"aliases", "version"} : n = IF s = "types" THEN "aliases" ELSE "version"
  OBVIOUS
<1>3. load' = [load EXCEPT ![l] = [at |-> n, got |-> 0, alone |-> b]]
  BY <1>1, <1>2 DEF CacheShape
<1>4. PICK m \in Nat : m = IF s = "aliases" /\ map[s] # 0 THEN map[s] ELSE g
  BY <1>1 DEF CacheShape
<1>5. map' = [map EXCEPT ![s] = m]
  BY <1>1, <1>4 DEF CacheShape
<1>6. CacheShape'
  BY <1>3, <1>5 DEF CacheShape
<1>7. LoadsInv'
  <2>1. SUFFICES ASSUME NEW k \in D!Loads, load'[k] # D!Idle
                 PROVE  /\ load'[k].at = "version" => load'[k].got <= version'
                        /\ load'[k].alone => Undisturbed(k)'
    BY DEF LoadsInv
  <2>2. CASE k # l
    BY <1>1, <1>3, <2>1, <2>2 DEF CacheShape, LoadsInv, Undisturbed
  <2>3. CASE k = l
    <3>1. load'[k] = [at |-> n, got |-> 0, alone |-> b]
      BY <1>3, <2>3 DEF CacheShape
    <3>2. ASSUME b PROVE Undisturbed(l)'
      <4>1. Undisturbed(l)
        BY <1>1, <3>2 DEF LoadsInv
      <4>2. CASE s = "types"
        BY <1>1, <1>2, <1>3, <1>4, <1>5, <4>1, <4>2 DEF Undisturbed, CacheShape
      <4>3. CASE s = "aliases"
        <5>1. map' = db
          BY <1>1, <1>4, <1>5, <4>1, <4>3 DEF Undisturbed, CacheShape
        <5>2. QED
          BY <1>1, <1>2, <1>3, <4>1, <4>3, <5>1 DEF Undisturbed, CacheShape
      <4>4. QED
        BY <4>2, <4>3
    <3>3. QED
      BY <2>3, <3>1, <3>2 DEF CacheShape
  <2>4. QED
    BY <2>2, <2>3
<1>8. D!CurrentOfItsVersion'
  BY <1>3, load'[l] # D!Idle DEF D!CurrentOfItsVersion, CacheShape
<1>9. QED
  BY <1>6, <1>7, <1>8

LEMMA FinishHolds ==
    ASSUME CacheInv, NEW l \in D!Loads, D!Finish(l)
    PROVE  CacheInv'
<1>. USE DEF CacheInv, D!Finish, D!Answered, D!base, D!Running
<1>1. PICK g \in Nat \ {0}, b \in BOOLEAN :
          load[l] = [at |-> "version", got |-> g, alone |-> b]
  BY DEF CacheShape
<1>2. g <= version /\ (b => Undisturbed(l))
  BY <1>1 DEF LoadsInv
<1>3. CacheShape'
  BY <1>1, <1>2 DEF CacheShape
<1>4. LoadsInv'
  BY DEF CacheShape, LoadsInv, Undisturbed
<1>5. D!CurrentOfItsVersion'
  <2>1. CASE b
    <3>1. map = db
      BY <1>1, <1>2, <2>1 DEF Undisturbed
    <3>2. QED
      BY <3>1 DEF D!CurrentOfItsVersion
  <2>2. CASE ~b
    <3>1. load[l].alone = b
      BY <1>1
    <3>2. disturbed' = ~b
      BY <3>1, Zenon
    <3>3. QED
      BY <2>2, <3>2, Zenon DEF D!CurrentOfItsVersion
  <2>3. QED
    BY <2>1, <2>2
<1>6. QED
  BY <1>3, <1>4, <1>5

LEMMA LoadFailsHolds ==
    ASSUME CacheInv, NEW l \in D!Loads, D!Fails(l)
    PROVE  CacheInv'
<1>. USE DEF CacheInv, D!Fails, D!base, D!Running
<1>1. CacheShape'
  BY DEF CacheShape
<1>2. LoadsInv'
  BY DEF CacheShape, LoadsInv, Undisturbed
<1>3. D!CurrentOfItsVersion'
  BY DEF D!CurrentOfItsVersion
<1>4. QED
  BY <1>1, <1>2, <1>3

(* Whatever leaves the dictionary, the maps and the loads alone.           *)
LEMMA RestHolds ==
    ASSUME CacheInv, UNCHANGED <<db, version, unraised, map, loaded, load, disturbed>>
    PROVE  CacheInv'
  BY DEF CacheInv, CacheShape, LoadsInv, Undisturbed, D!CurrentOfItsVersion, D!Running

LEMMA CacheStepHolds ==
    ASSUME CacheInv, [D!Next]_D!vars
    PROVE  CacheInv'
<1>. USE DEF D!base, D!cache
<1>1. CASE UNCHANGED D!vars
  BY <1>1, RestHolds DEF D!vars
<1>2. CASE D!EnsureFresh
  <2>1. Flight \in D!Loads
    BY DEF D!Loads
  <2>2. CASE loaded # version
    BY <1>2, <2>1, <2>2, BeginHolds DEF D!EnsureFresh
  <2>3. CASE loaded = version
    BY <1>2, <2>3, RestHolds DEF D!EnsureFresh
  <2>4. QED
    BY <2>2, <2>3
<1>3. CASE D!Expire
  BY <1>3, RestHolds DEF D!Expire
<1>4. ASSUME NEW l \in D!Loads, D!Loading(l) \/ D!Fails(l)
      PROVE  CacheInv'
  BY <1>4, QueryHolds, FillHolds, FinishHolds, LoadFailsHolds DEF D!Loading
<1>5. ASSUME NEW w \in Writers, D!Recheck(w)
      PROVE  CacheInv'
  BY <1>5, BeginHolds DEF D!Recheck, D!Loads
<1>6. ASSUME NEW w, D!ReloadCache(w)
      PROVE  CacheInv'
  <2>1. CASE w \in Writers
    BY <1>6, <2>1, BeginHolds DEF D!ReloadCache, D!Loads
  <2>2. CASE w \notin Writers
    BY <1>6, <2>2, RestHolds DEF D!ReloadCache
  <2>3. QED
    BY <2>1, <2>2
<1>7. ASSUME NEW w, D!WriterFails(w)
      PROVE  CacheInv'
  BY <1>7, RestHolds DEF D!WriterFails
<1>8. QED
  BY <1>1, <1>2, <1>3, <1>4, <1>5, <1>6, <1>7, ChangeHolds, RaiseHolds DEF D!Next

(* DictionaryCache: for any writers, changes and faults, a cache of the    *)
(* current version holds the current dictionary if the load that filled it *)
(* last met no change, no error and no other load.                         *)
THEOREM CacheIsCurrent == D!Spec => []CurrentOfItsVersion
<1>1. D!Init => CacheInv
  BY CacheBegins
<1>2. CacheInv /\ [D!Next]_D!vars => CacheInv'
  BY CacheStepHolds
<1>3. CacheInv => CurrentOfItsVersion
  BY DEF CacheInv, CurrentOfItsVersion
<1>4. QED
  BY <1>1, <1>2, <1>3, PTL DEF D!Spec
HIDE DEF D!Stages, D!Tables, D!Idle, D!Empty, D!Null

-----------------------------------------------------------------------------
(* TripCheckin *)

Row == [count : Nat, linked : SUBSET Nat]

TripShape ==
    /\ rows \in [Users -> Row]
    /\ forms \in [Users -> Nat] /\ asked \in [Users -> Nat]
    /\ \A e \in events : e.of \in Users /\ e.number \in Nat
    /\ DOMAIN run = Schedules
    /\ \A s \in Schedules :
          /\ run[s].at \in {"make", "call", "link"} => run[s].user \in Users
          /\ run[s].at = "link" => run[s].form \in Nat

(* A schedule that has found a traveller without a check-in and has not    *)
(* asked him yet.                                                          *)
Asking(s, u) == run[s].at \in {"make", "call"} /\ run[s].user = u

(* The check-in is stored before the traveller is asked, ...               *)
Stored ==
    /\ \A s \in Schedules : run[s].at = "call" => T!Found(run[s].user)
    /\ \A u \in Users : asked[u] > 0 => T!Found(u)

(* ... so one schedule only is about to ask, and nobody has asked before.  *)
OneAsks ==
    \A u \in Users \ raced, s \in Schedules : Asking(s, u) =>
        asked[u] = 0 /\ \A r \in Schedules : Asking(r, u) => r = s

TripInv == TripShape /\ Stored /\ OneAsks /\ T!AskedOnce

LEMMA TripBegins == T!Init => TripInv
  BY DEF T!Init, TripInv, TripShape, Row, Stored, OneAsks, Asking, T!AskedOnce, T!Idle, T!Found

(* Only schedule s moves.                                                  *)
OnlyMoves(s) ==
    /\ DOMAIN run' = Schedules
    /\ \A r \in Schedules \ {s} : run'[r] = run[r]

LEMMA GoMoves ==
    ASSUME TripInv, NEW s \in Schedules, NEW value, T!Go(s, value)
    PROVE  OnlyMoves(s) /\ run'[s] = value
  BY DEF TripInv, TripShape, T!Go, OnlyMoves

(* A schedule that goes where it is not about to ask.                      *)
LEMMA GoesElsewhere ==
    ASSUME TripInv, NEW s \in Schedules, OnlyMoves(s), run'[s].at \in {"idle", "next"},
           UNCHANGED <<rows, forms, asked, events, raced>>
    PROVE  TripInv'
<1>. USE DEF TripInv, OnlyMoves
<1>1. TripShape'
  BY DEF TripShape
<1>2. Stored'
  BY DEF Stored, T!Found
<1>3. OneAsks'
  BY DEF OneAsks, Asking
<1>4. QED
  BY <1>1, <1>2, <1>3 DEF T!AskedOnce

(* Where it looks, the traveller has no check-in and nobody has asked him; *)
(* one of two that look at the same moment marks him as raced for.         *)
LEMMA LookHolds ==
    ASSUME TripInv, NEW s \in Schedules, NEW u \in Users, T!Look(s, u)
    PROVE  TripInv'
<1>. USE DEF TripInv
<1>1. PICK skipped \in BOOLEAN : skipped = (run[s].midnight /\ u \notin Early)
  OBVIOUS
<1>2. CASE skipped \/ T!Found(u)
  <2>1. run' = [run EXCEPT ![s] = T!Loop(run[s].left \ {u}, TRUE)]
    BY <1>1, <1>2 DEF T!Look, T!Go
  <2>2. \A r \in Schedules : run'[r] = IF r = s THEN T!Loop(run[s].left \ {u}, TRUE) ELSE run[r]
    BY <2>1 DEF TripShape
  <2>3. /\ \A v \in Users \ raced' : v \in Users \ raced
        /\ UNCHANGED <<rows, forms, asked, events>>
    BY DEF T!Look
  <2>4. T!Loop(run[s].left \ {u}, TRUE).at = "next"
    BY DEF T!Loop
  <2>5. TripShape'
    BY <2>1, <2>2, <2>3, <2>4 DEF TripShape
  <2>6. Stored'
    BY <2>2, <2>3, <2>4 DEF Stored, T!Found
  <2>7. OneAsks'
    <3>1. \A v \in Users, r \in Schedules : Asking(r, v)' => Asking(r, v)
      BY <2>2, <2>4 DEF Asking
    <3>2. QED
      BY <2>3, <3>1 DEF OneAsks
  <2>8. T!AskedOnce'
    BY <2>3 DEF T!AskedOnce
  <2>9. QED
    BY <2>5, <2>6, <2>7, <2>8
<1>3. CASE ~skipped /\ ~T!Found(u)
  <2>1. PICK value : value = T!At(s, "make", u)
    OBVIOUS
  <2>2. run' = [run EXCEPT ![s] = value]
    BY <1>1, <1>3, <2>1 DEF T!Look, T!Go
  <2>3. value.at = "make" /\ value.user = u
    BY <2>1 DEF T!At
  <2>4. /\ raced' = IF \E r \in Schedules \ {s} : run[r].at = "make" /\ run[r].user = u
                    THEN raced \cup {u} ELSE raced
        /\ UNCHANGED <<rows, forms, asked, events>>
    BY <1>1, <1>3 DEF T!Look
  <2>5. \A r \in Schedules : run'[r] = IF r = s THEN value ELSE run[r]
    BY <2>2 DEF TripShape
  <2>6. TripShape'
    BY <2>2, <2>3, <2>4, <2>5 DEF TripShape
  <2>7. Stored'
    BY <2>3, <2>4, <2>5 DEF Stored, T!Found
  <2>8. asked[u] = 0
    BY <1>3 DEF Stored, TripShape
  <2>9. u \notin raced' => \A r \in Schedules \ {s} : ~Asking(r, u)
    BY <1>3, <2>4 DEF Asking, Stored
  <2>10. OneAsks'
    BY <2>3, <2>4, <2>5, <2>8, <2>9 DEF OneAsks, Asking
  <2>11. T!AskedOnce'
    BY <2>4 DEF T!AskedOnce
  <2>12. QED
    BY <2>6, <2>7, <2>10, <2>11
<1>4. QED
  BY <1>2, <1>3

(* One more check-in, and forms that are linked, change no answer to       *)
(* whether there is one, but from no to yes.                               *)
LEMMA AddKeeps ==
    ASSUME TripInv, NEW u \in Users, NEW linked \in SUBSET Nat, T!Add(u, linked)
    PROVE  /\ rows' \in [Users -> Row]
           /\ \A v \in Users : T!Found(v) \/ v = u => T!Found(v)'
<1>1. PICK c \in Nat, l \in SUBSET Nat : rows[u] = [count |-> c, linked |-> l]
  BY DEF TripInv, TripShape, Row
<1>2. rows' = [rows EXCEPT ![u] = [count |-> c + 1, linked |-> l \cup linked]]
  <2>1. rows' = [rows EXCEPT ![u] = [count |-> rows[u].count + 1,
                                      linked |-> rows[u].linked \cup linked]]
    BY DEF T!Add
  <2>2. rows[u].count = c /\ rows[u].linked = l
    BY <1>1
  <2>3. QED
    BY <2>1, <2>2
<1>3. QED
  BY <1>1, <1>2 DEF TripInv, TripShape, Row, T!Found

LEMMA MakeHolds ==
    ASSUME TripInv, NEW s \in Schedules, T!Make(s)
    PROVE  TripInv'
<1>. USE DEF TripInv
<1>1. PICK u \in Users : u = run[s].user
  BY DEF TripShape, T!Make
<1>2. PICK value : value = T!At(s, "call", u)
  OBVIOUS
<1>3. value.at = "call" /\ value.user = u /\ run[s].at = "make"
  BY <1>2 DEF T!At, T!Make
<1>4. run' = [run EXCEPT ![s] = value]
  BY <1>1, <1>2 DEF T!Make, T!Go
<1>5. \A r \in Schedules : run'[r] = IF r = s THEN value ELSE run[r]
  BY <1>4 DEF TripShape
<1>6. /\ rows' \in [Users -> Row]
      /\ \A v \in Users : T!Found(v) \/ v = u => T!Found(v)'
  BY <1>1, AddKeeps DEF T!Make
<1>7. UNCHANGED <<forms, asked, events, raced>>
  BY DEF T!Make
<1>8. TripShape'
  BY <1>3, <1>4, <1>5, <1>6, <1>7 DEF TripShape
<1>9. Stored'
  BY <1>3, <1>5, <1>6, <1>7 DEF Stored, TripShape
<1>10. \A v \in Users, r \in Schedules : Asking(r, v)' <=> Asking(r, v)
  BY <1>1, <1>3, <1>5 DEF Asking
<1>11. OneAsks' /\ T!AskedOnce'
  BY <1>7, <1>10 DEF OneAsks, T!AskedOnce
<1>12. QED
  BY <1>8, <1>9, <1>11

(* The one schedule that is about to ask a traveller asks and goes on.     *)
LEMMA AskHolds ==
    ASSUME TripInv, NEW s \in Schedules, run[s].at = "call",
           T!NewForm(run[s].user),
           asked' = [asked EXCEPT ![run[s].user] = @ + 1],
           OnlyMoves(s), run'[s].at \in {"idle", "link"},
           run'[s].at = "link" => run'[s].user = run[s].user /\ run'[s].form \in Nat,
           UNCHANGED <<rows, raced>>
    PROVE  TripInv'
<1>. USE DEF TripInv, OnlyMoves
<1>1. PICK u \in Users : u = run[s].user
  BY DEF TripShape
<1>3. /\ forms' \in [Users -> Nat]
      /\ \A e \in events' : e.of \in Users /\ e.number \in Nat
  BY <1>1 DEF T!NewForm, TripShape
<1>4. asked' = [asked EXCEPT ![u] = asked[u] + 1] /\ asked \in [Users -> Nat]
  BY <1>1 DEF TripShape
<1>5. TripShape'
  BY <1>1, <1>3, <1>4 DEF TripShape
<1>6. Stored'
  BY <1>1, <1>4 DEF Stored, TripShape, T!Found
<1>7. u \notin raced => asked[u] = 0 /\ \A r \in Schedules \ {s} : ~Asking(r, u)
  BY <1>1 DEF OneAsks, Asking
<1>8. OneAsks'
  BY <1>1, <1>4, <1>7 DEF OneAsks, Asking
<1>9. T!AskedOnce'
  BY <1>4, <1>7 DEF T!AskedOnce
<1>10. QED
  BY <1>5, <1>6, <1>8, <1>9

LEMMA LinkHolds ==
    ASSUME TripInv, NEW s \in Schedules, T!Link(s)
    PROVE  TripInv'
<1>. USE DEF TripInv
<1>1. PICK u \in Users, f \in Nat : u = run[s].user /\ f = run[s].form
  BY DEF TripShape, T!Link
<1>2. PICK c \in Nat, l \in SUBSET Nat : rows[u] = [count |-> c, linked |-> l]
  BY DEF TripShape, Row
<1>3. rows' = [rows EXCEPT ![u] = [count |-> c, linked |-> l \cup {f}]]
  <2>1. PICK m : m = l \cup {f}
    OBVIOUS
  <2>2. rows[u].linked \cup {f} = m
    BY <1>2, <2>1
  <2>3. rows' = [rows EXCEPT ![u] = [rows[u] EXCEPT !.linked = m]]
    BY <1>1, <2>2, Zenon DEF T!Link
  <2>4. [[count |-> c, linked |-> l] EXCEPT !.linked = m] = [count |-> c, linked |-> m]
    OBVIOUS
  <2>5. QED
    BY <1>2, <2>1, <2>3, <2>4, Zenon
<1>4. /\ rows' \in [Users -> Row]
      /\ \A v \in Users : T!Found(v) <=> T!Found(v)'
  BY <1>2, <1>3 DEF TripShape, Row, T!Found
<1>5. PICK value : value = T!Loop(run[s].left, TRUE)
  OBVIOUS
<1>6. run' = [run EXCEPT ![s] = value] /\ value.at = "next"
  BY <1>5 DEF T!Link, T!Go, T!Loop
<1>7. \A r \in Schedules : run'[r] = IF r = s THEN value ELSE run[r]
  BY <1>6 DEF TripShape
<1>8. UNCHANGED <<forms, asked, events, raced>>
  BY DEF T!Link
<1>9. TripShape'
  BY <1>4, <1>6, <1>7, <1>8 DEF TripShape
<1>10. Stored'
  BY <1>4, <1>6, <1>7, <1>8 DEF Stored, TripShape
<1>11. OneAsks' /\ T!AskedOnce'
  BY <1>6, <1>7, <1>8 DEF OneAsks, Asking, T!AskedOnce
<1>12. QED
  BY <1>9, <1>10, <1>11

(* What travellers and the remote service do asks nobody.                  *)
LEMMA OthersHold ==
    ASSUME TripInv, UNCHANGED <<run, asked, raced>>,
           rows' \in [Users -> Row], forms' \in [Users -> Nat],
           \A e \in events' : e.of \in Users /\ e.number \in Nat,
           \A v \in Users : T!Found(v) => T!Found(v)'
    PROVE  TripInv'
<1>. USE DEF TripInv
<1>1. TripShape'
  BY DEF TripShape
<1>2. Stored'
  BY DEF Stored, TripShape
<1>3. OneAsks' /\ T!AskedOnce'
  BY DEF OneAsks, Asking, T!AskedOnce
<1>4. QED
  BY <1>1, <1>2, <1>3

LEMMA TripStepHolds ==
    ASSUME TripInv, [T!Next]_T!vars
    PROVE  TripInv'
<1>1. CASE UNCHANGED T!vars
  BY <1>1, OthersHold DEF T!vars, TripInv, TripShape, T!Found
<1>2. ASSUME NEW s \in Schedules, T!Start(s) \/ T!End(s) \/ T!Throws(s)
      PROVE  TripInv'
  <2>1. T!Go(s, T!Loop(Users, FALSE)) \/ T!Go(s, T!Idle)
    BY <1>2 DEF T!Start, T!End, T!Throws
  <2>2. OnlyMoves(s) /\ run'[s].at \in {"idle", "next"}
    BY <2>1, GoMoves DEF T!Loop, T!Idle
  <2>3. UNCHANGED <<rows, forms, asked, events, raced>>
    BY <1>2 DEF T!Start, T!End, T!Throws
  <2>4. QED
    BY <2>2, <2>3, GoesElsewhere
<1>3. ASSUME NEW s \in Schedules, T!CallRemote(s)
      PROVE  TripInv'
  <2>1. PICK u : u = run[s].user
    OBVIOUS
  <2>2. CASE u \in Visitors
    <3>1. T!Go(s, T!Loop(run[s].left, TRUE))
      BY <1>3, <2>1, <2>2 DEF T!CallRemote
    <3>2. OnlyMoves(s) /\ run'[s].at = "next"
      BY <3>1, GoMoves DEF T!Loop
    <3>3. UNCHANGED <<rows, forms, asked, events, raced>>
      BY <1>3, <2>1, <2>2 DEF T!CallRemote
    <3>4. QED
      BY <3>2, <3>3, GoesElsewhere
  <2>3. CASE u \notin Visitors
    <3>1. PICK n : n = forms[u] + 1
      OBVIOUS
    <3>2. n \in Nat
      BY <1>3, <2>1, <3>1 DEF TripInv, TripShape, T!CallRemote
    <3>3. PICK v : v = [at |-> "link", left |-> run[s].left, midnight |-> TRUE,
                        user |-> u, form |-> n]
      OBVIOUS
    <3>4. T!Go(s, v)
      BY <1>3, <2>1, <2>3, <3>1, <3>3, Zenon DEF T!CallRemote
    <3>5. /\ run[s].at = "call" /\ T!NewForm(u)
          /\ asked' = [asked EXCEPT ![u] = @ + 1] /\ UNCHANGED <<rows, raced>>
      BY <1>3, <2>1, <2>3 DEF T!CallRemote
    <3>6. /\ OnlyMoves(s) /\ run'[s].at = "link"
          /\ run'[s].user = u /\ run'[s].form \in Nat
      BY <3>2, <3>3, <3>4, GoMoves
    <3>7. QED
      BY <2>1, <3>5, <3>6, AskHolds
  <2>4. QED
    BY <2>2, <2>3
<1>4. ASSUME NEW s \in Schedules, T!RunFails(s)
      PROVE  TripInv'
  <2>1. OnlyMoves(s) /\ run'[s].at = "idle"
    BY <1>4, GoMoves DEF T!RunFails, T!Idle
  <2>2. UNCHANGED <<rows, raced>>
    BY <1>4 DEF T!RunFails
  <2>3. CASE UNCHANGED <<forms, asked, events>>
    BY <2>1, <2>2, <2>3, GoesElsewhere
  <2>4. CASE /\ run[s].at = "call" /\ T!NewForm(run[s].user)
             /\ asked' = [asked EXCEPT ![run[s].user] = @ + 1]
    BY <2>1, <2>2, <2>4, AskHolds
  <2>5. QED
    BY <1>4, <2>3, <2>4 DEF T!RunFails
<1>5. ASSUME NEW u \in Users, T!UserMakesForm(u)
      PROVE  TripInv'
  <2>1. /\ forms' \in [Users -> Nat]
        /\ \A e \in events' : e.of \in Users /\ e.number \in Nat
    BY <1>5 DEF T!UserMakesForm, T!NewForm, TripInv, TripShape
  <2>2. QED
    BY <1>5, <2>1, OthersHold DEF T!UserMakesForm, TripInv, TripShape, T!Found
<1>6. ASSUME NEW e \in events, T!DataProcess(e)
      PROVE  TripInv'
  <2>1. e.of \in Users /\ {e.number} \in SUBSET Nat
    BY DEF TripInv, TripShape
  <2>2. /\ rows' \in [Users -> Row]
        /\ \A v \in Users : T!Found(v) => T!Found(v)'
    <3>1. CASE UNCHANGED rows
      BY <3>1 DEF TripInv, TripShape, T!Found
    <3>2. CASE T!Add(e.of, {e.number})
      BY <2>1, <3>2, AddKeeps
    <3>3. QED
      BY <1>6, <3>1, <3>2 DEF T!DataProcess
  <2>3. /\ UNCHANGED <<run, asked, raced, forms>>
        /\ \A f \in events' : f \in events
    BY <1>6 DEF T!DataProcess
  <2>4. QED
    BY <2>2, <2>3, OthersHold DEF TripInv, TripShape
<1>7. QED
  BY <1>1, <1>2, <1>3, <1>4, <1>5, <1>6, LookHolds, MakeHolds, LinkHolds
     DEF T!Next, T!Proceeds

(* TripCheckin: for any schedules, travellers and faults, a traveller is   *)
(* asked once unless both schedules looked for the check-in at the same    *)
(* moment, since the check-in is stored before he is asked.                *)
THEOREM TravellersAreAskedOnce == T!Spec => []AskedOnce
<1>1. T!Init => TripInv
  BY TripBegins
<1>2. TripInv /\ [T!Next]_T!vars => TripInv'
  BY TripStepHolds
<1>3. TripInv => AskedOnce
  BY DEF TripInv, AskedOnce
<1>4. QED
  BY <1>1, <1>2, <1>3, PTL DEF T!Spec
-----------------------------------------------------------------------------
(* AuthExchange *)

LoginShape ==
    /\ MaxCache \in Nat
    /\ cache \in Seq(Codes) /\ old \in 0..Len(cache)
    /\ DOMAIN pending = Codes

(* WeCom is asked for a code whose result is not kept, and of a code it    *)
(* has accepted the result is kept, or comes, or was lost.                 *)
CodeInv(k) ==
    /\ pending[k] = "ask" => ~A!Fresh(k)
    /\ k \in spent => k \in lost \/ A!Fresh(k) \/ pending[k] \in {"store", "keep"}
    /\ pending[k] = "invalid" => k \in lost

LoginInv == LoginShape /\ \A k \in Codes : CodeInv(k)

(* The deletion of an expired result moves those behind it up.             *)
LEMMA DeleteKeepsFresh ==
    ASSUME LoginShape, NEW k, A!Delete(k)
    PROVE  /\ cache' \in Seq(Codes) /\ old' \in 0..Len(cache')
           /\ \A c : A!Fresh(c)' <=> A!Fresh(c)
<1>1. CASE UNCHANGED <<cache, old>>
  BY <1>1 DEF LoginShape, A!Fresh
<1>2. CASE \E i \in 1..old : cache' = A!RemoveAt(cache, i) /\ old' = old - 1
  <2>1. PICK i \in 1..old : cache' = A!RemoveAt(cache, i) /\ old' = old - 1
    BY <1>2
  <2>2. /\ cache \in Seq(Codes) /\ old \in Nat /\ old <= Len(cache)
        /\ Len(cache) \in Nat /\ i \in Nat /\ 1 <= i /\ i <= old
    BY DEF LoginShape
  <2>3. PICK a : a = SubSeq(cache, 1, i - 1)
    OBVIOUS
  <2>4. PICK b : b = SubSeq(cache, i + 1, Len(cache))
    OBVIOUS
  <2>5. /\ a \in Seq(Codes) /\ Len(a) = i - 1
        /\ \A j \in 1..(i - 1) : a[j] = cache[j]
    BY <2>2, <2>3
  <2>6. /\ b \in Seq(Codes) /\ Len(b) = Len(cache) - i
        /\ \A j \in 1..(Len(cache) - i) : b[j] = cache[i + j]
    BY <2>2, <2>4
  <2>7. cache' = a \o b
    BY <2>1, <2>3, <2>4, Zenon DEF A!RemoveAt
  <2>8. /\ cache' \in Seq(Codes) /\ Len(cache') = Len(cache) - 1
        /\ \A j \in i..(Len(cache) - 1) : cache'[j] = cache[j + 1]
    <3>1. cache' \in Seq(Codes) /\ Len(cache') = Len(a) + Len(b)
      BY <2>5, <2>6, <2>7, ConcatProperties
    <3>2. Len(cache') = Len(cache) - 1
      BY <2>2, <2>5, <2>6, <3>1
    <3>3. ASSUME NEW j \in i..(Len(cache) - 1)
          PROVE  cache'[j] = cache[j + 1]
      <4>1. PICK h : h = j - (i - 1)
        OBVIOUS
      <4>2. h \in 1..Len(b) /\ j = Len(a) + h /\ b[h] = cache[i + h] /\ i + h = j + 1
        BY <2>2, <2>5, <2>6, <4>1
      <4>3. cache'[Len(a) + h] = b[h]
        BY <2>2, <2>5, <2>6, <2>7, <4>2
      <4>4. QED
        BY <4>2, <4>3
    <3>4. QED
      BY <3>1, <3>2, <3>3
  <2>9. ASSUME NEW c
        PROVE  A!Fresh(c)' <=> A!Fresh(c)
    <3>1. ASSUME A!Fresh(c)' PROVE A!Fresh(c)
      <4>1. PICK j \in (old' + 1)..Len(cache') : cache'[j] = c
        BY <3>1 DEF A!Fresh
      <4>2. j + 1 \in (old + 1)..Len(cache) /\ cache[j + 1] = c
        BY <2>1, <2>2, <2>8, <4>1
      <4>3. QED
        BY <4>2 DEF A!Fresh
    <3>2. ASSUME A!Fresh(c) PROVE A!Fresh(c)'
      <4>1. PICK j \in (old + 1)..Len(cache) : cache[j] = c
        BY <3>2 DEF A!Fresh
      <4>2. PICK h : h = j - 1
        OBVIOUS
      <4>3. h \in (old' + 1)..Len(cache') /\ cache'[h] = c
        BY <2>1, <2>2, <2>8, <4>1, <4>2
      <4>4. QED
        BY <4>3 DEF A!Fresh
    <3>3. QED
      BY <3>1, <3>2
  <2>10. old' \in 0..Len(cache')
    BY <2>1, <2>2, <2>8
  <2>11. QED
    BY <2>8, <2>9, <2>10
<1>3. QED
  BY <1>1, <1>2 DEF A!Delete

(* What is pruned has expired or is lost by it; the rest stays.            *)
LEMMA PrunedIsKept ==
    ASSUME LoginShape
    PROVE  /\ A!Pruned \in Seq(Codes)
           /\ \A i \in 1..Len(A!Pruned) : A!Fresh(A!Pruned[i])
           /\ \A c : A!Fresh(c) =>
                 c \in A!Dropped \/ \E i \in 1..Len(A!Pruned) : A!Pruned[i] = c
<1>1. PICK n : n = A!Gone
  OBVIOUS
<1>2. /\ cache \in Seq(Codes) /\ Len(cache) \in Nat /\ old \in Nat /\ old <= Len(cache)
      /\ MaxCache \in Nat
  BY DEF LoginShape
<1>3. n \in Nat /\ old <= n /\ n <= Len(cache)
  BY <1>1, <1>2 DEF A!Gone
<1>4. PICK p : p = A!Pruned
  OBVIOUS
<1>5. p = SubSeq(cache, n + 1, Len(cache)) /\ A!Dropped = {cache[i] : i \in 1..n}
  BY <1>1, <1>4 DEF A!Pruned, A!Dropped
<1>6. /\ p \in Seq(Codes) /\ Len(p) = Len(cache) - n
      /\ \A i \in 1..(Len(cache) - n) : p[i] = cache[n + i]
  BY <1>2, <1>3, <1>5
<1>7. ASSUME NEW i \in 1..Len(p)
      PROVE  A!Fresh(p[i])
  <2>1. n + i \in (old + 1)..Len(cache) /\ p[i] = cache[n + i]
    BY <1>2, <1>3, <1>6
  <2>2. QED
    BY <2>1 DEF A!Fresh
<1>8. ASSUME NEW c, A!Fresh(c)
      PROVE  c \in A!Dropped \/ \E i \in 1..Len(p) : p[i] = c
  <2>1. PICK j \in (old + 1)..Len(cache) : cache[j] = c
    BY <1>8 DEF A!Fresh
  <2>2. CASE j <= n
    <3>1. j \in 1..n
      BY <1>2, <1>3, <2>1, <2>2
    <3>2. QED
      BY <1>5, <2>1, <3>1
  <2>3. CASE n < j
    <3>1. PICK i : i = j - n
      OBVIOUS
    <3>2. i \in 1..Len(p) /\ p[i] = c
      BY <1>2, <1>3, <1>6, <2>1, <2>3, <3>1
    <3>3. QED
      BY <3>2
  <2>4. QED
    BY <1>2, <1>3, <2>1, <2>2, <2>3
<1>9. QED
  BY <1>4, <1>6, <1>7, <1>8

LEMMA LoginHolds ==
    ASSUME LoginInv, NEW r, NEW k \in Codes, A!Login(r, k)
    PROVE  LoginInv'
<1>1. /\ A!Delete(k) /\ ~A!Fresh(k) /\ UNCHANGED <<spent, lost>>
      /\ \/ UNCHANGED pending
         \/ pending[k] = "none" /\ pending' = [pending EXCEPT ![k] = "ask"]
  BY DEF A!Login, A!Exchanged, A!None
<1>2. /\ cache' \in Seq(Codes) /\ old' \in 0..Len(cache')
      /\ \A c : A!Fresh(c)' <=> A!Fresh(c)
  BY <1>1, DeleteKeepsFresh DEF LoginInv
<1>3. LoginShape'
  BY <1>1, <1>2 DEF LoginInv, LoginShape
<1>4. ASSUME NEW c \in Codes
      PROVE  CodeInv(c)'
  <2>1. CodeInv(c)
    BY DEF LoginInv
  <2>2. CASE pending'[c] = pending[c]
    BY <1>1, <1>2, <2>1, <2>2 DEF CodeInv
  <2>3. CASE c = k /\ pending'[c] = "ask" /\ pending[c] = "none"
    BY <1>1, <1>2, <2>1, <2>3 DEF CodeInv
  <2>4. QED
    BY <1>1, <2>2, <2>3 DEF LoginInv, LoginShape
<1>5. QED
  BY <1>3, <1>4 DEF LoginInv

(* The steps of an exchange that leave the results alone.                  *)
LEMMA StageHolds ==
    ASSUME LoginInv, NEW k \in Codes,
           A!Ask(k) \/ A!Store(k) \/ A!Fails(k) \/ A!Finally(k)
    PROVE  LoginInv'
<1>1. UNCHANGED <<cache, old>> /\ \E stage1 : A!To(k, stage1)
  BY DEF A!Ask, A!Store, A!Fails, A!Finally
<1>2. /\ DOMAIN pending' = Codes
      /\ \A c \in Codes \ {k} : pending'[c] = pending[c]
  BY <1>1 DEF A!To, LoginInv, LoginShape
<1>3. /\ spent \subseteq spent' /\ spent' \subseteq spent \cup {k}
      /\ lost \subseteq lost'
  BY DEF A!Ask, A!Store, A!Fails, A!Finally
<1>4. LoginShape'
  BY <1>1, <1>2 DEF LoginInv, LoginShape
<1>5. ASSUME NEW c \in Codes
      PROVE  CodeInv(c)'
  <2>1. CodeInv(c) /\ (A!Fresh(c)' <=> A!Fresh(c))
    BY <1>1 DEF LoginInv, A!Fresh
  <2>2. CASE c # k
    BY <1>2, <1>3, <2>1, <2>2 DEF CodeInv
  <2>3. CASE c = k /\ A!Ask(k)
    <3>1. /\ pending[k] = "ask"
          /\ pending'[k] = IF k \in spent THEN "invalid" ELSE "store"
          /\ lost' = lost
      BY <2>3 DEF A!Ask, A!To, LoginInv, LoginShape
    <3>2. QED
      BY <2>1, <2>3, <3>1 DEF CodeInv
  <2>4. CASE c = k /\ A!Store(k)
    <3>1. /\ pending[k] = "store" /\ pending'[k] = "keep"
          /\ lost' = lost /\ spent' = spent
      BY <2>4 DEF A!Store, A!To, LoginInv, LoginShape
    <3>2. QED
      BY <2>1, <2>4, <3>1 DEF CodeInv
  <2>5. CASE c = k /\ A!Fails(k)
    <3>1. /\ pending'[k] = "unavailable"
          /\ k \in spent' => k \in lost'
      BY <2>5 DEF A!Fails, A!To, LoginInv, LoginShape
    <3>2. QED
      BY <2>1, <2>5, <3>1 DEF CodeInv
  <2>6. CASE c = k /\ A!Finally(k)
    <3>1. /\ pending[k] \in {"token", "invalid", "unavailable"} /\ pending'[k] = "none"
          /\ lost' = lost /\ spent' = spent
      BY <2>6 DEF A!Finally, A!To, A!None, A!Answers, LoginInv, LoginShape
    <3>2. QED
      BY <2>1, <2>6, <3>1 DEF CodeInv
  <2>7. QED
    BY <2>2, <2>3, <2>4, <2>5, <2>6
<1>6. QED
  BY <1>4, <1>5 DEF LoginInv

LEMMA KeepHolds ==
    ASSUME LoginInv, NEW k \in Codes, A!Keep(k)
    PROVE  LoginInv'
<1>1. PICK p : p = A!Pruned
  OBVIOUS
<1>2. /\ p \in Seq(Codes)
      /\ \A i \in 1..Len(p) : A!Fresh(p[i])
      /\ \A c : A!Fresh(c) => c \in A!Dropped \/ \E i \in 1..Len(p) : p[i] = c
  BY <1>1, PrunedIsKept DEF LoginInv
<1>3. cache' = Append(p, k) /\ old' = 0
  BY <1>1 DEF A!Keep
<1>4. /\ cache' \in Seq(Codes) /\ Len(cache') = Len(p) + 1 /\ Len(p) \in Nat
      /\ cache'[Len(p) + 1] = k /\ \A i \in 1..Len(p) : cache'[i] = p[i]
  BY <1>2, <1>3
<1>5. /\ spent' = spent /\ lost' = lost \cup A!Dropped
      /\ pending[k] = "keep" /\ pending' = [pending EXCEPT ![k] = "token"]
  BY DEF A!Keep, A!To
<1>6. LoginShape'
  BY <1>3, <1>4, <1>5 DEF LoginInv, LoginShape
<1>7. A!Fresh(k)'
  <2>1. Len(p) + 1 \in (old' + 1)..Len(cache')
    BY <1>3, <1>4
  <2>2. QED
    BY <1>4, <2>1 DEF A!Fresh
<1>8. ASSUME NEW c \in Codes \ {k}
      PROVE  /\ A!Fresh(c)' => A!Fresh(c)
             /\ A!Fresh(c) => A!Fresh(c)' \/ c \in lost'
  <2>1. ASSUME A!Fresh(c)' PROVE A!Fresh(c)
    <3>1. PICK i \in 1..Len(cache') : cache'[i] = c
      BY <1>3, <2>1 DEF A!Fresh
    <3>2. i \in 1..Len(p) /\ p[i] = c
      BY <1>4, <3>1
    <3>3. QED
      BY <1>2, <3>2
  <2>2. ASSUME NEW i \in 1..Len(p), p[i] = c PROVE A!Fresh(c)'
    <3>1. i \in (old' + 1)..Len(cache') /\ cache'[i] = c
      BY <1>3, <1>4, <2>2
    <3>2. QED
      BY <3>1 DEF A!Fresh
  <2>3. QED
    BY <1>2, <1>5, <2>1, <2>2
<1>9. ASSUME NEW c \in Codes
      PROVE  CodeInv(c)'
  <2>1. CodeInv(c)
    BY DEF LoginInv
  <2>2. CASE c = k
    BY <1>5, <1>7, <2>1, <2>2 DEF CodeInv, LoginInv, LoginShape
  <2>3. CASE c # k
    <3>1. pending'[c] = pending[c] /\ lost \subseteq lost'
      BY <1>5, <2>3 DEF LoginInv, LoginShape
    <3>2. QED
      BY <1>5, <1>8, <2>1, <2>3, <3>1 DEF CodeInv
  <2>4. QED
    BY <2>2, <2>3
<1>10. QED
  BY <1>6, <1>9 DEF LoginInv

(* What is no longer kept is lost.                                         *)
LEMMA LossHolds ==
    ASSUME LoginInv, UNCHANGED <<pending, spent>>,
           cache' \in Seq(Codes), old' \in 0..Len(cache'), lost \subseteq lost',
           \A c : A!Fresh(c)' => A!Fresh(c),
           \A c : A!Fresh(c) => A!Fresh(c)' \/ c \in lost'
    PROVE  LoginInv'
<1>1. LoginShape'
  BY DEF LoginInv, LoginShape
<1>2. ASSUME NEW c \in Codes
      PROVE  CodeInv(c)'
  <2>1. CodeInv(c)
    BY DEF LoginInv
  <2>2. QED
    BY <2>1 DEF CodeInv
<1>3. QED
  BY <1>1, <1>2 DEF LoginInv

LEMMA ExpireHolds ==
    ASSUME LoginInv, A!Expire
    PROVE  LoginInv'
<1>1. /\ UNCHANGED <<cache, pending, spent>> /\ old' = old + 1 /\ old < Len(cache)
      /\ lost' = lost \cup {cache[old + 1]}
  BY DEF A!Expire
<1>2. cache \in Seq(Codes) /\ Len(cache) \in Nat /\ old \in Nat
  BY DEF LoginInv, LoginShape
<1>3. ASSUME NEW c, A!Fresh(c)'
      PROVE  A!Fresh(c)
  <2>1. PICK i \in (old' + 1)..Len(cache') : cache'[i] = c
    BY <1>3 DEF A!Fresh
  <2>2. i \in (old + 1)..Len(cache) /\ cache[i] = c
    BY <1>1, <1>2, <2>1
  <2>3. QED
    BY <2>2 DEF A!Fresh
<1>4. ASSUME NEW c, A!Fresh(c)
      PROVE  A!Fresh(c)' \/ c \in lost'
  <2>1. PICK i \in (old + 1)..Len(cache) : cache[i] = c
    BY <1>4 DEF A!Fresh
  <2>2. CASE i = old + 1
    BY <1>1, <2>1, <2>2
  <2>3. CASE i # old + 1
    <3>1. i \in (old' + 1)..Len(cache') /\ cache'[i] = c
      BY <1>1, <1>2, <2>1, <2>3
    <3>2. QED
      BY <3>1 DEF A!Fresh
  <2>4. QED
    BY <2>2, <2>3
<1>5. cache' \in Seq(Codes) /\ old' \in 0..Len(cache')
  BY <1>1, <1>2
<1>6. QED
  BY <1>1, <1>3, <1>4, <1>5, LossHolds

LEMMA CleanUpHolds ==
    ASSUME LoginInv, A!CleanUp
    PROVE  LoginInv'
<1>1. PICK p : p = A!Pruned
  OBVIOUS
<1>2. /\ p \in Seq(Codes) /\ Len(p) \in Nat
      /\ \A i \in 1..Len(p) : A!Fresh(p[i])
      /\ \A c : A!Fresh(c) => c \in A!Dropped \/ \E i \in 1..Len(p) : p[i] = c
  BY <1>1, PrunedIsKept DEF LoginInv
<1>3. /\ cache' = p /\ old' = 0 /\ UNCHANGED <<pending, spent>>
      /\ lost' = lost \cup A!Dropped
  BY <1>1 DEF A!CleanUp
<1>4. \A c : A!Fresh(c)' <=> \E i \in 1..Len(p) : p[i] = c
  BY <1>3 DEF A!Fresh
<1>5. QED
  BY <1>2, <1>3, <1>4, LossHolds

LEMMA LoginBegins == A!Init => LoginInv
<1>1. SUFFICES ASSUME A!Init PROVE LoginInv
  OBVIOUS
<1>2. /\ cache = <<>> /\ old = 0 /\ spent = {}
      /\ pending = [k \in Codes |-> "none"]
  BY <1>1 DEF A!Init, A!None
<1>3. QED
  BY <1>1, <1>2, PartsAssumption DEF LoginInv, LoginShape, CodeInv

LEMMA LoginStepHolds == LoginInv /\ [A!Next]_(A!vars) => LoginInv'
<1>1. SUFFICES ASSUME LoginInv, [A!Next]_A!vars PROVE LoginInv'
  OBVIOUS
<1>2. CASE UNCHANGED A!vars
  BY <1>1, <1>2 DEF A!vars, LoginInv, LoginShape, CodeInv, A!Fresh
<1>3. QED
  BY <1>1, <1>2, LoginHolds, StageHolds, KeepHolds, ExpireHolds, CleanUpHolds
     DEF A!Next, A!Exchange

(* AuthExchange: for any requests, codes, limits and faults, a code that   *)
(* WeCom accepted is refused to nobody while its result is kept, since it  *)
(* is asked only for codes whose result is not kept, and every code it     *)
(* accepted has a result that is kept or comes, or was lost.               *)
THEOREM RepeatsAreNotRefused == A!Spec => []RepeatIsNotRefused
<1>1. A!Init => LoginInv
  BY LoginBegins
<1>2. LoginInv /\ [A!Next]_A!vars => LoginInv'
  BY LoginStepHolds
<1>3. LoginInv => RepeatIsNotRefused
  BY DEF LoginInv, CodeInv, RepeatIsNotRefused, A!RepeatIsNotRefused
<1>4. QED
  BY <1>1, <1>2, <1>3, PTL DEF A!Spec

-----------------------------------------------------------------------------
(* The types of the dictionary cache *)

USE DEF D!Stages, D!Tables, D!Idle, D!Empty, D!Null

(* A table has as many changes as were allowed, and so has what was read.  *)
CacheBounds ==
    /\ db \in [D!Tables -> 1..(MaxChanges + 1)]
    /\ map \in [D!Tables -> 0..(MaxChanges + 1)]
    /\ todo \in [Writers \cup Others -> {"nothing", "raise", "load"}]
    /\ unraised \in BOOLEAN /\ expired \in BOOLEAN /\ disturbed \in BOOLEAN
    /\ \A l \in D!Loads :
          load[l] # D!Idle /\ load[l].at # "version" => load[l].got <= MaxChanges + 1
    /\ cacheFaults \in 0..MaxFaults

CacheTypes == CacheInv /\ CacheBounds

LEMMA CacheTyped == CacheTypes => D!TypeOK
  BY DEF CacheTypes, CacheInv, CacheShape, CacheBounds, D!TypeOK

LEMMA CacheTypesBegin == D!Init => CacheTypes
<1>1. ASSUME D!Init PROVE CacheBounds
  <2>1. MaxChanges \in Nat /\ MaxFaults \in Nat
    BY PartsAssumption, FaultAssumption
  <2>2. /\ db = [n \in D!Tables |-> 1] /\ map = [n \in D!Tables |-> D!Empty]
        /\ todo = [w \in Writers \cup Others |-> "nothing"] /\ unraised = FALSE
        /\ expired = TRUE /\ disturbed = FALSE /\ cacheFaults = 0
        /\ \A l \in D!Loads : load[l] = D!Idle
    BY <1>1 DEF D!Init
  <2>3. /\ unraised \in BOOLEAN /\ expired \in BOOLEAN /\ disturbed \in BOOLEAN
    BY <2>2, Zenon
  <2>4. QED
    BY <2>1, <2>2, <2>3 DEF CacheBounds
<1>2. QED
  BY <1>1, CacheBegins DEF CacheTypes

(* A load that begins has read nothing, and the others go on as they are.  *)
LEMMA BeginBounds ==
    ASSUME CacheTypes, NEW l \in D!Loads, D!Begin(l)
    PROVE  /\ map' \in [D!Tables -> 0..(MaxChanges + 1)]
           /\ \A k \in D!Loads : load'[k] # D!Idle /\ load'[k].at # "version" =>
                 load'[k].got <= MaxChanges + 1
<1>. USE PartsAssumption DEF CacheTypes, CacheBounds
<1>. PICK b \in BOOLEAN : b = (D!Running = {})
  OBVIOUS
<1>1. /\ map' = [n \in D!Tables |-> D!Empty]
      /\ load' = [D!Disturb EXCEPT ![l] = [at |-> "types", got |-> 0, alone |-> b]]
  BY DEF D!Begin
<1>2. D!Disturb \in [D!Loads -> [at : D!Stages, got : Nat, alone : BOOLEAN] \cup {D!Idle}]
  BY DisturbedAreLoads
<1>3. ASSUME NEW k \in D!Loads, load'[k] # D!Idle, load'[k].at # "version"
      PROVE  load'[k].got <= MaxChanges + 1
  <2>1. CASE k = l
    BY <1>1, <1>2, <2>1
  <2>2. CASE k # l
    <3>1. load'[k] = D!Disturb[k]
      BY <1>1, <1>2, <2>2
    <3>2. PICK s \in D!Stages, g \in Nat, a \in BOOLEAN :
              /\ load[k] = [at |-> s, got |-> g, alone |-> a]
              /\ D!Disturb[k] = [at |-> s, got |-> g, alone |-> FALSE]
      BY <1>3, <3>1, DisturbedGoesOn
    <3>3. QED
      BY <1>3, <3>1, <3>2
  <2>3. QED
    BY <2>1, <2>2
<1>4. QED
  BY <1>1, <1>3

LEMMA ChangeBounds ==
    ASSUME CacheTypes, NEW w \in Writers \cup Others, NEW n \in D!Tables,
           D!Mutate(w, n) \/ D!Write(w, n)
    PROVE  CacheBounds'
<1>. USE PartsAssumption DEF CacheTypes, CacheBounds
<1>1. /\ db[n] <= MaxChanges /\ db' = [db EXCEPT ![n] = @ + 1]
      /\ load' = D!Disturb
      /\ unraised' \in BOOLEAN /\ UNCHANGED <<map, expired, disturbed, cacheFaults>>
      /\ \E s \in {"raise", "load"} : todo' = [todo EXCEPT ![w] = s]
  BY DEF D!Mutate, D!Write, D!Change, D!Then
<1>2. ASSUME NEW k \in D!Loads, load'[k] # D!Idle, load'[k].at # "version"
      PROVE  load'[k].got <= MaxChanges + 1
  <2>1. PICK s \in D!Stages, g \in Nat, a \in BOOLEAN :
            /\ load[k] = [at |-> s, got |-> g, alone |-> a]
            /\ D!Disturb[k] = [at |-> s, got |-> g, alone |-> FALSE]
    BY <1>1, <1>2, DisturbedGoesOn
  <2>2. QED
    BY <1>1, <1>2, <2>1
<1>3. db' \in [D!Tables -> 1..(MaxChanges + 1)]
  BY <1>1
<1>4. QED
  BY <1>1, <1>2, <1>3

(* What a query reads of a table is its last change.                       *)
LEMMA LoadBounds ==
    ASSUME CacheTypes, NEW l \in D!Loads, D!Loading(l) \/ D!Fails(l)
    PROVE  CacheBounds'
<1>. USE PartsAssumption DEF CacheTypes, CacheBounds
<1>1. PICK s \in D!Stages, g \in Nat, b \in BOOLEAN :
          load[l] = [at |-> s, got |-> g, alone |-> b]
  BY DEF CacheInv, CacheShape, D!Loading, D!Fails, D!Query, D!Fill, D!Finish, D!Answered, D!Running
<1>2. DOMAIN load = D!Loads
  BY DEF CacheInv, CacheShape
<1>3. CASE D!Query(l)
  <2>1. PICK h : h = IF s = "version" THEN version ELSE db[s]
    OBVIOUS
  <2>2. load' = [load EXCEPT ![l] = [load[l] EXCEPT !.got = h]]
    <3>1. load[l].at = s
      BY <1>1
    <3>2. load' = [load EXCEPT ![l].got = IF load[l].at = "version" THEN version ELSE db[load[l].at]]
      BY <1>3, Zenon DEF D!Query
    <3>3. QED
      BY <2>1, <3>1, <3>2, Zenon
  <2>3. [[at |-> s, got |-> g, alone |-> b] EXCEPT !.got = h] = [at |-> s, got |-> h, alone |-> b]
    OBVIOUS
  <2>4. load' = [load EXCEPT ![l] = [at |-> s, got |-> h, alone |-> b]]
    BY <1>1, <2>2, <2>3, Zenon
  <2>5. QED
    BY <1>2, <1>3, <2>1, <2>4 DEF D!Query, D!base
<1>4. CASE D!Fill(l)
  <2>1. s \in D!Tables /\ g <= MaxChanges + 1
    BY <1>1, <1>4 DEF D!Fill, D!Answered, D!Running
  <2>2. PICK n \in {"aliases", "version"} : n = IF s = "types" THEN "aliases" ELSE "version"
    OBVIOUS
  <2>3. /\ \A k \in D!Loads \ {l} : load'[k] = load[k]
        /\ load'[l].got = 0
    <3>1. load' = [load EXCEPT ![l].at = IF load[l].at = "types" THEN "aliases" ELSE "version",
                               ![l].got = 0]
      BY <1>4, Zenon DEF D!Fill
    <3>2. load' = [load EXCEPT ![l].at = n, ![l].got = 0]
      BY <1>1, <2>2, <3>1
    <3>3. HIDE DEF CacheBounds, CacheTypes
    <3>4. load'[l].got = 0
      BY <1>1, <1>2, <3>2
    <3>5. QED
      BY <1>2, <3>2, <3>4
  <2>4. map' \in [D!Tables -> 0..(MaxChanges + 1)]
    <3>1. PICK m \in 0..(MaxChanges + 1) : m = IF s = "aliases" /\ map[s] # 0 THEN map[s] ELSE g
      BY <1>1, <2>1
    <3>2. map' = [map EXCEPT ![s] = m]
      BY <1>1, <1>4, <3>1 DEF D!Fill
    <3>3. QED
      BY <3>2
  <2>5. QED
    BY <1>2, <1>4, <2>3, <2>4 DEF D!Fill, D!base
<1>5. CASE D!Finish(l)
  <2>1. load[l].alone = b
    BY <1>1
  <2>2. disturbed' = ~b
    BY <1>5, <2>1, Zenon DEF D!Finish
  <2>3. disturbed' \in BOOLEAN
    BY <2>2
  <2>4. QED
    BY <1>2, <1>5, <2>3 DEF D!Finish, D!base
<1>6. CASE D!Fails(l)
  BY <1>2, <1>6, FaultAssumption DEF D!Fails, D!base
<1>7. QED
  BY <1>3, <1>4, <1>5, <1>6 DEF D!Loading

LEMMA CacheTypesHold ==
    ASSUME CacheTypes, [D!Next]_D!vars
    PROVE  CacheTypes'
<1>1. CacheInv'
  BY CacheStepHolds DEF CacheTypes
<1>2. CacheBounds'
  <2>. USE DEF CacheTypes, CacheBounds, D!base, D!cache
  <2>1. CASE UNCHANGED D!vars
    BY <2>1 DEF D!vars
  <2>2. CASE D!EnsureFresh
    <3>1. Flight \in D!Loads
      BY DEF D!Loads
    <3>2. CASE loaded # version
      BY <2>2, <3>1, <3>2, BeginBounds DEF D!EnsureFresh
    <3>3. CASE loaded = version
      BY <2>2, <3>3 DEF D!EnsureFresh
    <3>4. QED
      BY <3>2, <3>3
  <2>3. CASE D!Expire
    BY <2>3 DEF D!Expire
  <2>4. ASSUME NEW w \in Writers \cup Others,
               D!Raise(w) \/ D!ReloadCache(w) \/ D!WriterFails(w)
        PROVE  CacheBounds'
    <3>1. CASE D!Raise(w)
      BY <2>4, <3>1 DEF D!Raise, D!Then
    <3>2. CASE D!ReloadCache(w) /\ w \in Writers
      BY <3>2, BeginBounds DEF D!ReloadCache, D!Then, D!Loads
    <3>3. CASE D!ReloadCache(w) /\ w \notin Writers
      BY <3>3 DEF D!ReloadCache, D!Then
    <3>4. CASE D!WriterFails(w)
      BY <3>4, FaultAssumption DEF D!WriterFails, D!Then
    <3>5. QED
      BY <2>4, <3>1, <3>2, <3>3, <3>4
  <2>5. ASSUME NEW w \in Writers, D!Recheck(w)
        PROVE  CacheBounds'
    BY <2>5, BeginBounds DEF D!Recheck, D!Loads
  <2>6. ASSUME NEW l \in D!Loads, D!Loading(l) \/ D!Fails(l)
        PROVE  CacheBounds'
    BY <2>6, LoadBounds
  <2>7. ASSUME NEW w \in Writers \cup Others, NEW n \in D!Tables, D!Mutate(w, n) \/ D!Write(w, n)
        PROVE  CacheBounds'
    BY <2>7, ChangeBounds
  <2>8. QED
    BY <2>1, <2>2, <2>3, <2>4, <2>5, <2>6, <2>7 DEF D!Next
<1>3. QED
  BY <1>1, <1>2 DEF CacheTypes

HIDE DEF D!Stages, D!Tables, D!Idle, D!Empty, D!Null

-----------------------------------------------------------------------------
(* The counts of the instances *)

(* The instances count as the library does.                                *)
LEMMA SameCount ==
    ASSUME NEW S
    PROVE  /\ A!Cardinality(S) = Cardinality(S)
           /\ T!Cardinality(S) = Cardinality(S)
           /\ P!Cardinality(S) = Cardinality(S)
<1>1. A!Cardinality(S) = Cardinality(S)
  BY DEF A!Cardinality, Cardinality
<1>2. T!Cardinality(S) = Cardinality(S)
  BY DEF T!Cardinality, Cardinality
<1>3. P!Cardinality(S) = Cardinality(S)
  BY DEF P!Cardinality, Cardinality
<1>4. QED
  BY <1>1, <1>2, <1>3

-----------------------------------------------------------------------------
(* The types of the planned extraction *)

(* Of the numbers up to n there are as many free as n and those in use     *)
(* leave; where the k-th comes, k are free.                                *)
LEMMA FreeNumber ==
    ASSUME NEW used, IsFiniteSet(used), NEW n \in Nat, NEW k \in Nat \ {0},
           Cardinality(used) + k <= n
    PROVE  \E x \in (1..n) \ used : Cardinality((1..x) \ used) = k
<1>1. ASSUME NEW x \in Nat
      PROVE  /\ IsFiniteSet((1..x) \ used) /\ Cardinality((1..x) \ used) \in Nat
             /\ Cardinality((1..x) \ used) + Cardinality(used) >= x
  <2>1. IsFiniteSet(1..x) /\ Cardinality(1..x) = x
    BY FS_Interval
  <2>2. PICK rest, both : rest = (1..x) \ used /\ both = (1..x) \cap used
    OBVIOUS
  <2>3. /\ IsFiniteSet(rest) /\ Cardinality(rest) = x - Cardinality(both)
        /\ Cardinality(both) <= Cardinality(used) /\ IsFiniteSet(both)
    BY <2>1, <2>2, FS_Difference, FS_Intersection
  <2>4. Cardinality(rest) \in Nat /\ Cardinality(both) \in Nat /\ Cardinality(used) \in Nat
    BY <2>3, FS_CardinalityType
  <2>5. QED
    BY <2>2, <2>3, <2>4
<1>2. PICK enough \in SUBSET Nat : enough = {x \in Nat : Cardinality((1..x) \ used) >= k}
  OBVIOUS
<1>3. n \in enough
  <2>1. Cardinality(used) \in Nat
    BY FS_CardinalityType
  <2>2. QED
    BY <1>1, <1>2, <2>1
<1>4. PICK x \in enough : \A y \in enough : x <= y
  BY <1>3, LeastNumber
<1>5. x \in Nat /\ x # 0 /\ x <= n /\ Cardinality((1..x) \ used) >= k
  <2>1. x \in Nat /\ x <= n /\ Cardinality((1..x) \ used) >= k
    BY <1>2, <1>3, <1>4
  <2>2. (1..0) \ used = {} /\ Cardinality({}) = 0
    BY FS_EmptySet
  <2>3. x # 0
    BY <2>1, <2>2
  <2>4. QED
    BY <2>1, <2>3
<1>6. PICK y \in Nat : x = y + 1
  BY <1>5
<1>7. /\ Cardinality((1..y) \ used) < k /\ Cardinality((1..y) \ used) \in Nat
      /\ IsFiniteSet((1..y) \ used)
  BY <1>1, <1>2, <1>4, <1>6
<1>8. x \notin used
  <2>1. ASSUME x \in used PROVE (1..x) \ used = (1..y) \ used
    BY <1>6, <2>1
  <2>2. QED
    BY <1>5, <1>7, <2>1
<1>9. Cardinality((1..x) \ used) = Cardinality((1..y) \ used) + 1
  <2>1. PICK rest : rest = (1..y) \ used
    OBVIOUS
  <2>2. (1..x) \ used = rest \cup {x} /\ x \notin rest
    BY <1>6, <1>8, <2>1
  <2>3. QED
    BY <1>7, <2>1, <2>2, FS_AddElement
<1>10. x \in (1..n) \ used /\ Cardinality((1..x) \ used) = k
  BY <1>5, <1>7, <1>8, <1>9
<1>11. QED
  BY <1>10

(* A list of the members of a set is no longer than the set.               *)
LEMMA ImageCount ==
    ASSUME NEW S, IsFiniteSet(S), NEW f, DOMAIN f = S, NEW X, \A x \in X : \E s \in S : f[s] = x
    PROVE  IsFiniteSet(X) /\ Cardinality(X) <= Cardinality(S) /\ Cardinality(X) \in Nat
<1>1. PICK W : W = {s \in S : f[s] \in X}
  OBVIOUS
<1>2. PICK g : g = [s \in W |-> f[s]]
  OBVIOUS
<1>3. g \in Surjection(W, X)
  BY <1>1, <1>2 DEF Surjection
<1>4. IsFiniteSet(W) /\ Cardinality(W) <= Cardinality(S)
  BY <1>1, FS_Subset
<1>5. IsFiniteSet(X) /\ Cardinality(X) <= Cardinality(W)
  BY <1>3, <1>4, FS_Surjection
<1>6. Cardinality(X) \in Nat /\ Cardinality(W) \in Nat /\ Cardinality(S) \in Nat
  BY <1>4, <1>5, FS_CardinalityType
<1>7. QED
  BY <1>4, <1>5, <1>6

(* Of a row: an item that is extracted has one place and a further one.    *)
PlanRow(j, marks) ==
    /\ DOMAIN j \subseteq P!Indices /\ \A n \in DOMAIN j : j[n] \in P!Returned
    /\ marks \subseteq Items
    /\ Cardinality(DOMAIN j) <= 2 * Cardinality(marks)

(* What a call has read and has asked for.                                 *)
PlanHeld(h) == PlanRow(h.json, h.extracted) /\ h.asked \subseteq Items \ h.extracted

PlanTypes ==
    /\ PlanRow(json, extracted)
    /\ status \in {"planned", "planned_partial", "planned_needs_reextract", "parsed", "normalized"}
    /\ docStatus \in {"planned", "planned_partial", "planned_needs_reextract", "normalized",
                      "dictionary_dirty"}
    /\ DOMAIN at = Extractors
    /\ \A p \in Extractors :
          \/ at[p] = P!Idle
          \/ at[p].stage \in {"single", "batch"} /\ PlanHeld(at[p])
          \/ at[p].stage = "blocked"
          \/ at[p].stage = "normalize" /\ at[p].whole \in BOOLEAN
    /\ accepted \subseteq P!Returned /\ answered \subseteq Items
    /\ planFaults \in 0..Faults

LEMMA PlanTyped == PlanTypes => P!TypeOK
  BY DEF PlanTypes, PlanRow, P!TypeOK

LEMMA ItemsAreFinite ==
    ASSUME NEW S \in SUBSET Items
    PROVE  IsFiniteSet(S) /\ Cardinality(S) \in Nat
<1>1. IsFiniteSet(Items)
  BY PartsAssumption
<1>2. IsFiniteSet(S)
  BY <1>1, FS_Subset
<1>3. QED
  BY <1>2, FS_CardinalityType

LEMMA IndicesAre ==
    /\ Cardinality(Items) \in Nat /\ Faults \in Nat
    /\ P!Indices = 1..(2 * Cardinality(Items) + Faults)
    /\ Items \subseteq P!Indices
<1>1. Cardinality(Items) \in Nat /\ Faults \in Nat /\ Items \subseteq P!Indices
  BY PartsAssumption, ItemsAreFinite
<1>2. P!Cardinality(Items) = Cardinality(Items)
  BY SameCount
<1>3. QED
  BY <1>1, <1>2 DEF P!Indices

LEMMA PlanTypesBegin == P!Init => PlanTypes
<1>. SUFFICES ASSUME P!Init PROVE PlanTypes
  OBVIOUS
<1>1. Faults \in Nat
  BY PartsAssumption
<1>2. DOMAIN json = {} /\ extracted = {}
  BY DEF P!Init
<1>3. PlanRow(json, extracted)
  BY <1>2, FS_EmptySet DEF PlanRow
<1>4. QED
  BY <1>1, <1>3 DEF P!Init, PlanTypes

(* What the model may return of a set of items.                            *)
Returnable(items) == {P!First(i) : i \in items} \cup {P!Further(i) : i \in items}

(* There is a free number for every further item.                          *)
LEMMA IndexIsThere ==
    ASSUME NEW h, PlanHeld(h), NEW result, result \subseteq Returnable(h.asked), NEW r \in result
    PROVE  /\ P!IndexOf(result, h, r) \in P!Indices
           /\ r.further \in BOOLEAN
           /\ ~r.further => P!IndexOf(result, h, r) = r.item
           /\ r.further => P!IndexOf(result, h, r) \notin DOMAIN h.json
<1>. DEFINE used     == DOMAIN h.json \cup {s.item : s \in result}
            furthers == {s \in result : s.further /\ s.item <= r.item}
<1>1. /\ h.asked \subseteq Items /\ h.extracted \subseteq Items
      /\ h.asked \cap h.extracted = {} /\ DOMAIN h.json \subseteq P!Indices
      /\ Cardinality(DOMAIN h.json) <= 2 * Cardinality(h.extracted)
  BY DEF PlanHeld, PlanRow
<1>2. \A s \in result : s.item \in h.asked /\ s.further \in BOOLEAN
  <2>1. TAKE s \in result
  <2>2. PICK i \in h.asked, b \in BOOLEAN : s = [item |-> i, further |-> b]
    BY Zenon DEF Returnable, P!First, P!Further
  <2>3. QED
    BY <2>2
<1>3. /\ IsFiniteSet(h.asked) /\ Cardinality(h.asked) \in Nat
      /\ IsFiniteSet(h.extracted) /\ Cardinality(h.extracted) \in Nat
      /\ Cardinality(Items) \in Nat
  BY <1>1, ItemsAreFinite
<1>4. Cardinality(h.asked) + Cardinality(h.extracted) <= Cardinality(Items)
  <2>1. PICK a, e : a = h.asked /\ e = h.extracted
    OBVIOUS
  <2>2. a \cap e = {} /\ Cardinality({}) = 0
    BY <1>1, <2>1, FS_EmptySet
  <2>3. Cardinality(a \cup e) = Cardinality(a) + Cardinality(e) - Cardinality(a \cap e)
    BY <1>3, <2>1, FS_Union
  <2>4. (a \cup e) \subseteq Items /\ IsFiniteSet(Items)
    BY <1>1, <2>1, PartsAssumption
  <2>5. Cardinality(a \cup e) <= Cardinality(Items)
    BY <2>4, FS_Subset
  <2>6. QED
    BY <1>3, <2>1, <2>2, <2>3, <2>5
<1>5. /\ IsFiniteSet(used) /\ Cardinality(used) \in Nat
      /\ Cardinality(used) <= 2 * Cardinality(h.extracted) + Cardinality(h.asked)
  <2>1. PICK a, b : a = DOMAIN h.json /\ b = {s.item : s \in result}
    OBVIOUS
  <2>2. IsFiniteSet(P!Indices)
    BY IndicesAre, FS_Interval
  <2>3. IsFiniteSet(a) /\ Cardinality(a) \in Nat
    BY <1>1, <2>1, <2>2, FS_Subset, FS_CardinalityType
  <2>4. b \subseteq h.asked
    BY <1>2, <2>1
  <2>5. IsFiniteSet(b) /\ Cardinality(b) \in Nat /\ Cardinality(b) <= Cardinality(h.asked)
    BY <1>3, <2>4, FS_Subset, FS_CardinalityType
  <2>6. /\ IsFiniteSet(a \cup b)
        /\ Cardinality(a \cup b) = Cardinality(a) + Cardinality(b) - Cardinality(a \cap b)
    BY <2>3, <2>5, FS_Union
  <2>7. Cardinality(a \cap b) \in Nat /\ Cardinality(a \cup b) \in Nat
    BY <2>3, <2>6, FS_Intersection, FS_CardinalityType
  <2>8. used = a \cup b
    BY <2>1
  <2>9. QED
    BY <1>1, <1>3, <2>1, <2>3, <2>5, <2>6, <2>7, <2>8
<1>6. IsFiniteSet(furthers) /\ Cardinality(furthers) \in Nat
      /\ Cardinality(furthers) <= Cardinality(h.asked)
  <2>1. PICK f : f = [i \in h.asked |-> P!Further(i)]
    OBVIOUS
  <2>2. \A s \in furthers : \E i \in h.asked : f[i] = s
    BY <1>2, <2>1 DEF Returnable, P!First, P!Further
  <2>3. QED
    BY <1>3, <2>1, <2>2, ImageCount
<1>7. CASE r.further
  <2>1. PICK k : k = Cardinality(furthers)
    OBVIOUS
  <2>2. r \in furthers
    <3>1. r.item \in P!Indices
      BY <1>1, <1>2, IndicesAre
    <3>2. r.item <= r.item
      BY <3>1 DEF P!Indices
    <3>3. QED
      BY <1>7, <3>2
  <2>3. k \in Nat \ {0}
    BY <1>6, <2>1, <2>2, FS_EmptySet
  <2>4. PICK n : n = 2 * Cardinality(Items) + Faults
    OBVIOUS
  <2>5. n \in Nat /\ Cardinality(used) + k <= n /\ P!Indices = 1..n
    BY <1>3, <1>4, <1>5, <1>6, <2>1, <2>4, IndicesAre
  <2>6. \E x \in (1..n) \ used : Cardinality((1..x) \ used) = k
    BY <1>5, <2>3, <2>5, FreeNumber
  <2>7. \E x \in P!Indices \ used : P!Cardinality((1..x) \ used) = k
    BY <2>5, <2>6, SameCount
  <2>8. P!NthFree(used, k) \in P!Indices \ used
    BY <2>7 DEF P!NthFree
  <2>9. P!Cardinality(furthers) = k
    BY <2>1, SameCount
  <2>10. P!IndexOf(result, h, r) = P!NthFree(used, k)
    BY <1>7, <2>9 DEF P!IndexOf
  <2>11. QED
    BY <1>2, <1>7, <2>8, <2>10
<1>8. CASE ~r.further
  <2>1. P!IndexOf(result, h, r) = r.item
    BY <1>8 DEF P!IndexOf
  <2>2. r.item \in P!Indices
    BY <1>1, <1>2, IndicesAre
  <2>3. QED
    BY <1>2, <1>8, <2>1, <2>2
<1>9. QED
  BY <1>7, <1>8

(* A result adds to the row the items found, which it marks, and one more  *)
(* of some of them, under a number the row did not have; what it marks was *)
(* asked for and answered, or is the number of such a further item.        *)
Grows(h, o, new, marks) ==
    /\ new \subseteq [index : P!Indices, is : P!Returned]
    /\ \A n \in new : /\ n.is.item \in h.asked
                      /\ n.index = n.is.item \/ n.index \notin DOMAIN h.json
    /\ \A i \in marks :
          \/ i \in h.asked \ P!With(o, {"fails", "blocked"})
          \/ i \notin h.asked /\ \E n \in new : n.index = i
    /\ marks \subseteq Items
    /\ \E found \in SUBSET (marks \cap h.asked) : \E more :
          /\ DOMAIN more \subseteq found
          /\ \A n \in new : n.index \in found \/ \E i \in DOMAIN more : more[i] = n.index

LEMMA SaveKeepsTypes ==
    ASSUME PlanTypes, NEW p \in Extractors, at[p].stage \in {"single", "batch"},
           NEW o, DOMAIN o = at[p].asked, NEW new, NEW marks, P!Save(p, o, new, marks),
           Grows(at[p], o, new, marks)
    PROVE  PlanTypes'
<1>1. PICK found \in SUBSET (marks \cap at[p].asked) : \E more :
          /\ DOMAIN more \subseteq found
          /\ \A n \in new : n.index \in found \/ \E i \in DOMAIN more : more[i] = n.index
  BY DEF Grows
<1>2. PICK more :
          /\ DOMAIN more \subseteq found
          /\ \A n \in new : n.index \in found \/ \E i \in DOMAIN more : more[i] = n.index
  BY <1>1
<1>3. new \subseteq [index : P!Indices, is : P!Returned] /\ marks \subseteq Items
  BY DEF Grows
<1>4. PICK h : h = at[p]
  OBVIOUS
<1>5. PlanHeld(h)
  BY <1>4 DEF PlanTypes, P!Idle
<1>6. /\ DOMAIN h.json \subseteq P!Indices /\ \A n \in DOMAIN h.json : h.json[n] \in P!Returned
      /\ h.extracted \subseteq Items /\ h.asked \subseteq Items
      /\ h.asked \cap h.extracted = {}
      /\ Cardinality(DOMAIN h.json) <= 2 * Cardinality(h.extracted)
  BY <1>5 DEF PlanHeld, PlanRow
<1>7. PICK X : X = {n.index : n \in new}
  OBVIOUS
<1>8. json' \in P!Merges(h, new) /\ extracted' = h.extracted \cup marks
  BY <1>4 DEF P!Save
<1>9. /\ DOMAIN json' = DOMAIN h.json \cup X
      /\ \A n \in DOMAIN json' : json'[n] \in P!Returned
  <2>1. json' \in [DOMAIN h.json \cup X -> P!Returned]
    BY <1>7, <1>8 DEF P!Merges
  <2>2. QED
    BY <2>1
<1>10. X \subseteq P!Indices
  BY <1>7, <1>3
<1>11. /\ IsFiniteSet(found) /\ Cardinality(found) \in Nat
      /\ IsFiniteSet(h.extracted) /\ Cardinality(h.extracted) \in Nat
      /\ IsFiniteSet(extracted') /\ Cardinality(extracted') \in Nat
  <2>1. found \subseteq Items /\ extracted' \subseteq Items
    BY <1>2, <1>3, <1>6, <1>8
  <2>2. QED
    BY <1>6, <2>1, ItemsAreFinite
<1>12. IsFiniteSet(X) /\ Cardinality(X) \in Nat /\ Cardinality(X) <= 2 * Cardinality(found)
  <2>1. PICK W, Y : W = DOMAIN more /\ Y = {more[i] : i \in W}
    OBVIOUS
  <2>2. IsFiniteSet(W) /\ Cardinality(W) <= Cardinality(found) /\ Cardinality(W) \in Nat
    BY <1>2, <1>11, <2>1, FS_Subset, FS_CardinalityType
  <2>3. IsFiniteSet(Y) /\ Cardinality(Y) <= Cardinality(W) /\ Cardinality(Y) \in Nat
    BY <2>1, <2>2, ImageCount
  <2>4. /\ IsFiniteSet(found \cup Y)
        /\ Cardinality(found \cup Y) = Cardinality(found) + Cardinality(Y) - Cardinality(found \cap Y)
        /\ Cardinality(found \cap Y) \in Nat /\ Cardinality(found \cup Y) \in Nat
    BY <1>11, <2>3, FS_Union, FS_Intersection, FS_CardinalityType
  <2>5. X \subseteq found \cup Y
    BY <1>2, <1>7, <2>1
  <2>6. IsFiniteSet(X) /\ Cardinality(X) <= Cardinality(found \cup Y) /\ Cardinality(X) \in Nat
    BY <2>4, <2>5, FS_Subset, FS_CardinalityType
  <2>7. QED
    BY <1>11, <2>2, <2>3, <2>4, <2>6
<1>13. Cardinality(h.extracted) + Cardinality(found) <= Cardinality(extracted')
  <2>1. PICK e, q : e = h.extracted /\ q = found
    OBVIOUS
  <2>2. Cardinality(e \cap q) = 0
    <3>1. e \cap q = {}
      BY <1>4, <1>6, <2>1
    <3>2. QED
      BY <3>1, FS_EmptySet, Zenon
  <2>3. Cardinality(e \cup q) = Cardinality(e) + Cardinality(q) - Cardinality(e \cap q)
    BY <1>11, <2>1, FS_Union
  <2>4. e \cup q \subseteq extracted'
    BY <1>8, <2>1
  <2>5. Cardinality(e \cup q) <= Cardinality(extracted')
    BY <1>11, <2>4, FS_Subset
  <2>6. QED
    BY <1>11, <2>1, <2>2, <2>3, <2>5
<1>14. Cardinality(DOMAIN json') <= 2 * Cardinality(extracted')
  <2>1. PICK a : a = DOMAIN h.json
    OBVIOUS
  <2>2. IsFiniteSet(P!Indices)
    BY IndicesAre, FS_Interval
  <2>3. IsFiniteSet(a) /\ Cardinality(a) \in Nat
    BY <1>6, <2>1, <2>2, FS_Subset, FS_CardinalityType
  <2>4. /\ Cardinality(a \cup X) = Cardinality(a) + Cardinality(X) - Cardinality(a \cap X)
        /\ Cardinality(a \cap X) \in Nat
    BY <1>12, <2>3, FS_Union, FS_Intersection, FS_CardinalityType
  <2>5. Cardinality(a) <= 2 * Cardinality(h.extracted)
    BY <1>6, <2>1
  <2>6. QED
    BY <1>9, <1>11, <1>12, <1>13, <2>1, <2>3, <2>4, <2>5
<1>15. PlanRow(json, extracted)'
  BY <1>3, <1>6, <1>8, <1>9, <1>10, <1>14 DEF PlanRow
<1>16. PICK blocked \in BOOLEAN : blocked = (P!Blocked(o) # {})
  OBVIOUS
<1>17. PICK whole \in BOOLEAN : whole = (~blocked /\ P!Whole(h, marks))
  OBVIOUS
<1>18. PICK r : r = IF blocked THEN [stage |-> "blocked"]
                    ELSE [stage |-> "normalize", whole |-> whole]
  OBVIOUS
<1>19. at' = [at EXCEPT ![p] = r]
  BY <1>4, <1>16, <1>17, <1>18, Zenon DEF P!Save, P!Go
<1>20. DOMAIN at' = Extractors /\ \A q \in Extractors : at'[q] = IF q = p THEN r ELSE at[q]
  BY <1>19 DEF PlanTypes
<1>21. \/ r.stage = "blocked"
       \/ r.stage = "normalize" /\ r.whole \in BOOLEAN
  BY <1>18
<1>22. status' \in {"planned_needs_reextract", "parsed", "planned_partial"}
  <2>1. CASE blocked
    BY <1>16, <2>1 DEF P!Save
  <2>2. CASE ~blocked /\ whole
    BY <1>4, <1>16, <1>17, <2>2 DEF P!Save
  <2>3. CASE ~blocked /\ ~whole
    BY <1>4, <1>16, <1>17, <2>3 DEF P!Save
  <2>4. QED
    BY <2>1, <2>2, <2>3
<1>23. planFaults' \in 0..Faults
  <2>1. PICK W : W = P!With(o, {"fails", "nothing", "blocked"})
    OBVIOUS
  <2>2. W \subseteq Items
    BY <1>4, <1>6, <2>1 DEF P!With
  <2>3. Cardinality(W) \in Nat /\ P!Cardinality(W) = Cardinality(W)
    BY <2>2, ItemsAreFinite, SameCount
  <2>4. planFaults + P!Cardinality(W) <= Faults /\ planFaults' = planFaults + P!Cardinality(W)
    BY <2>1 DEF P!Save
  <2>5. QED
    BY <2>3, <2>4, PartsAssumption DEF PlanTypes
<1>24. /\ accepted' \subseteq P!Returned /\ docStatus' = docStatus
       /\ answered' \subseteq Items
  <2>1. accepted' = accepted \cup {n.is : n \in new} /\ docStatus' = docStatus
    BY DEF P!Save
  <2>2. answered' \subseteq answered \cup h.asked
    BY <1>4 DEF P!Save
  <2>3. QED
    BY <1>3, <1>6, <2>1, <2>2 DEF PlanTypes
<1>25. ASSUME NEW q \in Extractors
       PROVE  \/ at'[q] = P!Idle
              \/ at'[q].stage \in {"single", "batch"} /\ PlanHeld(at'[q])
              \/ at'[q].stage = "blocked"
              \/ at'[q].stage = "normalize" /\ at'[q].whole \in BOOLEAN
  <2>1. CASE q = p
    BY <1>20, <1>21, <2>1
  <2>2. CASE q # p
    BY <1>20, <2>2 DEF PlanTypes
  <2>3. QED
    BY <2>1, <2>2
<1>26. QED
  BY <1>15, <1>20, <1>22, <1>23, <1>24, <1>25 DEF PlanTypes, PlanHeld, PlanRow

LEMMA ReturnableAre ==
    ASSUME NEW items \in SUBSET Items, NEW r \in Returnable(items)
    PROVE  r \in P!Returned /\ r.item \in items
<1>1. PICK i \in items, b \in BOOLEAN : r = [item |-> i, further |-> b]
  BY Zenon DEF Returnable, P!First, P!Further
<1>2. QED
  BY <1>1 DEF P!Returned

(* What the model returned: the items found and a further one of some.     *)
LEMMA ResultsAre ==
    ASSUME NEW o
    PROVE  /\ P!Result(o) \subseteq Returnable(DOMAIN o)
           /\ \A i \in P!With(o, {"one", "two"}) :
                 /\ i \in DOMAIN o \ P!Blocked(o)
                 /\ P!First(i) \in P!Result(o) /\ P!First(i).item = i /\ ~P!First(i).further
           /\ \A r \in P!Result(o) :
                 \/ /\ r = P!First(r.item) /\ ~r.further
                    /\ r.item \in P!With(o, {"one", "two"}) \cup P!Blocked(o)
                 \/ r = P!Further(r.item) /\ r.item \in P!With(o, {"two"})
<1>1. \A i : P!First(i).item = i /\ ~P!First(i).further /\ P!Further(i).item = i
  BY DEF P!First, P!Further
<1>2. P!Result(o) \subseteq Returnable(DOMAIN o)
  BY DEF P!Result, P!With, Returnable
<1>3. ASSUME NEW i \in P!With(o, {"one", "two"})
      PROVE  /\ i \in DOMAIN o \ P!Blocked(o)
             /\ P!First(i) \in P!Result(o)
  BY DEF P!With, P!Result, P!Blocked
<1>4. ASSUME NEW r \in P!Result(o)
      PROVE  \/ /\ r = P!First(r.item) /\ ~r.further
                /\ r.item \in P!With(o, {"one", "two"}) \cup P!Blocked(o)
             \/ r = P!Further(r.item) /\ r.item \in P!With(o, {"two"})
  <2>1. CASE \E i \in P!With(o, {"one", "two", "blocked"}) : r = P!First(i)
    BY <1>1, <2>1 DEF P!With, P!Blocked
  <2>2. CASE \E i \in P!With(o, {"two"}) : r = P!Further(i)
    BY <1>1, <2>2
  <2>3. QED
    BY <2>1, <2>2 DEF P!Result
<1>5. QED
  BY <1>1, <1>2, <1>3, <1>4

LEMMA SaveOneGrows ==
    ASSUME PlanTypes, NEW p \in Extractors, P!SaveOne(p)
    PROVE  \E o, new, marks : /\ at[p].stage \in {"single", "batch"} /\ DOMAIN o = at[p].asked
                              /\ P!Save(p, o, new, marks) /\ Grows(at[p], o, new, marks)
<1>1. PICK o \in [at[p].asked -> P!Outcomes \ {"fails"}] :
          LET all == {[index |-> P!IndexOf(P!Result(o), at[p], r), is |-> r] : r \in P!Result(o)}
              new == {n \in all : n.index \notin P!Blocked(o)}
          IN  P!Save(p, o, new, {n.index : n \in new} \cap Items)
  BY DEF P!SaveOne
<1>2. PICK h : h = at[p]
  OBVIOUS
<1>3. PICK R : R = P!Result(o)
  OBVIOUS
<1>4. PICK all : all = {[index |-> P!IndexOf(R, h, r), is |-> r] : r \in R}
  OBVIOUS
<1>5. PICK new : new = {n \in all : n.index \notin P!Blocked(o)}
  OBVIOUS
<1>6. PICK marks : marks = {n.index : n \in new} \cap Items
  OBVIOUS
<1>7. P!Save(p, o, new, marks)
  BY <1>1, <1>2, <1>3, <1>4, <1>5, <1>6, Zenon
<1>8. at[p].stage = "single" /\ PlanHeld(h) /\ DOMAIN o = h.asked /\ h.asked \subseteq Items
  BY <1>2 DEF PlanTypes, PlanHeld, P!SaveOne, P!Idle
<1>9. /\ R \subseteq Returnable(h.asked)
      /\ \A i \in P!With(o, {"one", "two"}) :
            /\ i \in h.asked \ P!Blocked(o)
            /\ P!First(i) \in R /\ P!First(i).item = i /\ ~P!First(i).further
      /\ \A r \in R :
            \/ /\ r = P!First(r.item) /\ ~r.further
               /\ r.item \in P!With(o, {"one", "two"}) \cup P!Blocked(o)
            \/ r = P!Further(r.item) /\ r.item \in P!With(o, {"two"})
  BY <1>3, <1>8, ResultsAre
<1>10. \A r \in R : /\ P!IndexOf(R, h, r) \in P!Indices
                    /\ ~r.further => P!IndexOf(R, h, r) = r.item
                    /\ r.further => P!IndexOf(R, h, r) \notin DOMAIN h.json
                    /\ r.further \in BOOLEAN
                    /\ r \in P!Returned /\ r.item \in h.asked
  <2>1. TAKE r \in R
  <2>3. r \in P!Returned /\ r.item \in h.asked
    BY <1>8, <1>9, ReturnableAre
  <2>4. QED
    BY <1>8, <1>9, <2>3, IndexIsThere
<1>11. new \subseteq [index : P!Indices, is : P!Returned]
  BY <1>4, <1>5, <1>10
<1>12. PICK found, twice : found = P!With(o, {"one", "two"}) /\ twice = P!With(o, {"two"})
  OBVIOUS
<1>13. twice \subseteq found
  BY <1>12 DEF P!With
<1>14. found \subseteq marks \cap at[p].asked
  <2>1. SUFFICES ASSUME NEW i \in found PROVE i \in marks /\ i \in h.asked
    BY <1>2
  <2>2. P!IndexOf(R, h, P!First(i)) = i /\ i \in h.asked \ P!Blocked(o) /\ P!First(i) \in R
    BY <1>9, <1>10, <1>12
  <2>3. [index |-> i, is |-> P!First(i)] \in all
    BY <1>4, <2>2
  <2>4. [index |-> i, is |-> P!First(i)] \in new
    BY <1>5, <2>2, <2>3
  <2>5. QED
    BY <1>6, <1>8, <2>2, <2>4
<1>15. PICK more : more = [i \in twice |-> P!IndexOf(R, h, P!Further(i))]
  OBVIOUS
<1>16. \A n \in new : n.index \in found \/ \E i \in DOMAIN more : more[i] = n.index
  <2>1. TAKE n \in new
  <2>2. PICK r \in R : n = [index |-> P!IndexOf(R, h, r), is |-> r]
    BY <1>4, <1>5
  <2>3. CASE r = P!First(r.item) /\ ~r.further /\ r.item \in found \cup P!Blocked(o)
    BY <1>5, <1>10, <2>2, <2>3
  <2>4. CASE r = P!Further(r.item) /\ r.item \in twice
    BY <1>15, <2>2, <2>4
  <2>5. QED
    BY <1>9, <1>12, <2>3, <2>4
<1>17. marks \subseteq Items /\ DOMAIN more \subseteq found
  BY <1>6, <1>13, <1>15
<1>18. \A n \in new : /\ n.is.item \in h.asked
                      /\ n.index = n.is.item \/ n.index \notin DOMAIN h.json
  <2>1. TAKE n \in new
  <2>2. PICK r \in R : n = [index |-> P!IndexOf(R, h, r), is |-> r]
    BY <1>4, <1>5
  <2>3. QED
    BY <1>10, <2>2
<1>19. \A i \in marks :
          \/ i \in h.asked \ P!With(o, {"fails", "blocked"})
          \/ i \notin h.asked /\ \E n \in new : n.index = i
  <2>1. TAKE i \in marks
  <2>2. (\E n \in new : n.index = i) /\ i \notin P!Blocked(o)
    BY <1>5, <1>6
  <2>3. P!With(o, {"fails", "blocked"}) = P!Blocked(o)
    BY DEF P!With, P!Blocked, P!Outcomes
  <2>4. QED
    BY <2>2, <2>3
<1>20. Grows(at[p], o, new, marks)
  <2>1. found \in SUBSET (marks \cap h.asked)
    BY <1>2, <1>14
  <2>2. \E few \in SUBSET (marks \cap h.asked) : \E m :
            /\ DOMAIN m \subseteq few
            /\ \A n \in new : n.index \in few \/ \E i \in DOMAIN m : m[i] = n.index
    BY <1>16, <1>17, <2>1
  <2>3. QED
    BY <1>2, <1>11, <1>17, <1>18, <1>19, <2>2 DEF Grows
<1>21. at[p].stage \in {"single", "batch"} /\ DOMAIN o = at[p].asked
  BY <1>2, <1>8
<1>22. QED
  BY <1>7, <1>20, <1>21

LEMMA SaveBatchGrows ==
    ASSUME PlanTypes, NEW p \in Extractors, P!SaveBatch(p)
    PROVE  \E o, new, marks : /\ at[p].stage \in {"single", "batch"} /\ DOMAIN o = at[p].asked
                              /\ P!Save(p, o, new, marks) /\ Grows(at[p], o, new, marks)
<1>1. PICK o \in [at[p].asked -> P!Outcomes] :
          LET Own(i) == {r \in P!Result(o) : r.item = i}
              valid  == {r \in P!Result(o) : r.item \notin P!Blocked(o)}
          IN  /\ P!With(o, {"fails"}) # at[p].asked
              /\ P!Save(p, o, {[index |-> P!IndexOf(Own(r.item), at[p], r), is |-> r] : r \in valid},
                        at[p].asked \ P!With(o, {"fails", "blocked"}))
  BY DEF P!SaveBatch
<1>2. PICK h : h = at[p]
  OBVIOUS
<1>3. PICK R : R = P!Result(o)
  OBVIOUS
<1>. DEFINE Own(i) == {r \in R : r.item = i}
<1>4. PICK valid : valid = {r \in R : r.item \notin P!Blocked(o)}
  OBVIOUS
<1>5. PICK new : new = {[index |-> P!IndexOf(Own(r.item), h, r), is |-> r] : r \in valid}
  OBVIOUS
<1>6. PICK marks : marks = h.asked \ P!With(o, {"fails", "blocked"})
  OBVIOUS
<1>7. P!Save(p, o, new, marks)
  BY <1>1, <1>2, <1>3, <1>4, <1>5, <1>6, Zenon
<1>8. at[p].stage = "batch" /\ PlanHeld(h) /\ DOMAIN o = h.asked /\ h.asked \subseteq Items
  BY <1>2 DEF PlanTypes, PlanHeld, P!SaveBatch, P!Idle
<1>9. /\ R \subseteq Returnable(h.asked)
      /\ \A i \in P!With(o, {"one", "two"}) : i \in h.asked \ P!Blocked(o)
      /\ \A r \in R :
            \/ ~r.further /\ r.item \in P!With(o, {"one", "two"}) \cup P!Blocked(o)
            \/ r = P!Further(r.item) /\ r.item \in P!With(o, {"two"})
  BY <1>3, <1>8, ResultsAre
<1>10. \A r \in R : /\ P!IndexOf(Own(r.item), h, r) \in P!Indices
                    /\ ~r.further => P!IndexOf(Own(r.item), h, r) = r.item
                    /\ r.further => P!IndexOf(Own(r.item), h, r) \notin DOMAIN h.json
                    /\ r.further \in BOOLEAN
                    /\ r \in P!Returned /\ r.item \in h.asked
  <2>1. TAKE r \in R
  <2>2. r \in P!Returned /\ r.item \in h.asked
    BY <1>8, <1>9, ReturnableAre
  <2>3. PICK own : own = Own(r.item)
    OBVIOUS
  <2>4. own \subseteq Returnable(h.asked) /\ r \in own
    BY <1>9, <2>3
  <2>5. /\ P!IndexOf(own, h, r) \in P!Indices /\ (~r.further => P!IndexOf(own, h, r) = r.item)
        /\ r.further => P!IndexOf(own, h, r) \notin DOMAIN h.json
        /\ r.further \in BOOLEAN
    BY <1>8, <2>4, IndexIsThere
  <2>6. QED
    BY <2>2, <2>3, <2>5
<1>11. PICK found, twice : found = P!With(o, {"one", "two"}) /\ twice = P!With(o, {"two"})
  OBVIOUS
<1>12. found \subseteq marks \cap h.asked /\ twice \subseteq found
  BY <1>6, <1>8, <1>11 DEF P!With
<1>13. PICK more : more = [i \in twice |-> P!IndexOf(Own(i), h, P!Further(i))]
  OBVIOUS
<1>14. \A n \in new : n.index \in found \/ \E i \in DOMAIN more : more[i] = n.index
  <2>1. TAKE n \in new
  <2>2. PICK r \in valid : n = [index |-> P!IndexOf(Own(r.item), h, r), is |-> r]
    BY <1>5
  <2>3. r \in R /\ r.item \notin P!Blocked(o)
    BY <1>4
  <2>4. CASE ~r.further /\ r.item \in found \cup P!Blocked(o)
    BY <1>10, <2>2, <2>3, <2>4
  <2>5. CASE r = P!Further(r.item) /\ r.item \in twice
    BY <1>13, <2>2, <2>5
  <2>6. QED
    BY <1>9, <1>11, <2>3, <2>4, <2>5
<1>15. new \subseteq [index : P!Indices, is : P!Returned]
  <2>1. SUFFICES ASSUME NEW n \in new PROVE n \in [index : P!Indices, is : P!Returned]
    OBVIOUS
  <2>2. PICK r \in valid : n = [index |-> P!IndexOf(Own(r.item), h, r), is |-> r]
    BY <1>5
  <2>3. r \in R
    BY <1>4
  <2>4. P!IndexOf(Own(r.item), h, r) \in P!Indices /\ r \in P!Returned
    BY <1>10, <2>3
  <2>5. QED
    BY <2>2, <2>4
<1>16. marks \subseteq Items /\ DOMAIN more \subseteq found
  BY <1>6, <1>8, <1>12, <1>13
<1>17. \A n \in new : /\ n.is.item \in h.asked
                      /\ n.index = n.is.item \/ n.index \notin DOMAIN h.json
  <2>1. TAKE n \in new
  <2>2. PICK r \in valid : n = [index |-> P!IndexOf(Own(r.item), h, r), is |-> r]
    BY <1>5
  <2>3. r \in R
    BY <1>4
  <2>4. PICK x : x = P!IndexOf(Own(r.item), h, r)
    OBVIOUS
  <2>5. r.item \in h.asked /\ (x = r.item \/ x \notin DOMAIN h.json)
    BY <1>10, <2>3, <2>4
  <2>6. QED
    BY <2>2, <2>4, <2>5
<1>18. \A i \in marks : i \in h.asked \ P!With(o, {"fails", "blocked"})
  BY <1>6
<1>19. Grows(at[p], o, new, marks)
  BY <1>2, <1>12, <1>14, <1>15, <1>16, <1>17, <1>18 DEF Grows
<1>20. at[p].stage \in {"single", "batch"} /\ DOMAIN o = at[p].asked
  BY <1>2, <1>8
<1>21. QED
  BY <1>7, <1>19, <1>20

LEMMA SavedGrows ==
    ASSUME PlanTypes, NEW p \in Extractors, P!Saved(p)
    PROVE  \E o, new, marks : /\ at[p].stage \in {"single", "batch"} /\ DOMAIN o = at[p].asked
                              /\ P!Save(p, o, new, marks) /\ Grows(at[p], o, new, marks)
  BY SaveOneGrows, SaveBatchGrows DEF P!Saved

LEMMA ChoicesAre == P!Choices \subseteq SUBSET Items
  BY DEF P!Choices, P!OfType

LEMMA ReadKeepsTypes ==
    ASSUME PlanTypes, NEW p \in Extractors, NEW way \in {"single", "batch"},
           NEW chosen \in SUBSET Items, P!Read(p, way, chosen)
    PROVE  PlanTypes'
<1>1. PICK h : h = [stage |-> way, asked |-> chosen \ extracted,
                    json |-> json, extracted |-> extracted]
  OBVIOUS
<1>2. at' = [at EXCEPT ![p] = h] /\ UNCHANGED <<json, extracted, status, docStatus, accepted, answered, planFaults>>
  BY <1>1, Zenon DEF P!Read, P!Go, P!row
<1>3. DOMAIN at' = Extractors /\ \A q \in Extractors : at'[q] = IF q = p THEN h ELSE at[q]
  BY <1>2 DEF PlanTypes
<1>4. h.stage \in {"single", "batch"} /\ PlanHeld(h)
  BY <1>1 DEF PlanTypes, PlanHeld, PlanRow
<1>5. ASSUME NEW q \in Extractors
      PROVE  \/ at'[q] = P!Idle
             \/ at'[q].stage \in {"single", "batch"} /\ PlanHeld(at'[q])
             \/ at'[q].stage = "blocked"
             \/ at'[q].stage = "normalize" /\ at'[q].whole \in BOOLEAN
  BY <1>3, <1>4 DEF PlanTypes
<1>6. PlanRow(json, extracted)'
  BY <1>2 DEF PlanTypes, PlanRow
<1>7. QED
  BY <1>2, <1>3, <1>5, <1>6 DEF PlanTypes, PlanHeld, PlanRow

(* A call that ends leaves its place; the row is as it was.                *)
LEMMA EndKeepsTypes ==
    ASSUME PlanTypes, NEW p \in Extractors, P!Go(p, P!Idle),
           UNCHANGED <<json, extracted, accepted, answered>>,
           status' \in {status, "normalized", "planned_partial"},
           docStatus' \in {docStatus, "planned_needs_reextract", "normalized", "planned_partial"},
           planFaults' \in 0..Faults
    PROVE  PlanTypes'
<1>1. PICK h : h = P!Idle
  OBVIOUS
<1>2. at' = [at EXCEPT ![p] = h]
  BY <1>1, Zenon DEF P!Go
<1>3. DOMAIN at' = Extractors /\ \A q \in Extractors : at'[q] = IF q = p THEN h ELSE at[q]
  BY <1>2 DEF PlanTypes
<1>4. ASSUME NEW q \in Extractors
      PROVE  \/ at'[q] = P!Idle
             \/ at'[q].stage \in {"single", "batch"} /\ PlanHeld(at'[q])
             \/ at'[q].stage = "blocked"
             \/ at'[q].stage = "normalize" /\ at'[q].whole \in BOOLEAN
  BY <1>1, <1>3 DEF PlanTypes
<1>5. PlanRow(json, extracted)'
  BY DEF PlanTypes, PlanRow
<1>6. QED
  BY <1>3, <1>4, <1>5 DEF PlanTypes, PlanHeld, PlanRow

LEMMA PlanTypesHold == PlanTypes /\ [P!Next]_(P!vars) => PlanTypes'
<1>. SUFFICES ASSUME PlanTypes, [P!Next]_(P!vars) PROVE PlanTypes'
  OBVIOUS
<1>1. CASE UNCHANGED P!vars
  BY <1>1 DEF P!vars, P!row, PlanTypes, PlanHeld, PlanRow
<1>2. ASSUME NEW p \in Extractors, P!ReadOne(p) PROVE PlanTypes'
  <2>1. PICK chosen \in P!Choices : P!Read(p, "single", chosen)
    BY <1>2 DEF P!ReadOne
  <2>2. QED
    BY <2>1, ChoicesAre, ReadKeepsTypes
<1>3. ASSUME NEW p \in Extractors, P!ReadBatch(p) PROVE PlanTypes'
  <2>1. PICK chosen \in P!Choices : P!Read(p, "batch", chosen)
    BY <1>3 DEF P!ReadBatch
  <2>2. QED
    BY <2>1, ChoicesAre, ReadKeepsTypes
<1>4. ASSUME NEW p \in Extractors, P!Saved(p) PROVE PlanTypes'
  BY <1>4, SavedGrows, SaveKeepsTypes
<1>5. ASSUME NEW p \in Extractors, P!MarkBlocked(p) PROVE PlanTypes'
  <2>1. P!Go(p, P!Idle) /\ UNCHANGED <<json, extracted, accepted, answered>>
    BY <1>5 DEF P!MarkBlocked, P!row
  <2>2. status' = status /\ docStatus' = "planned_needs_reextract" /\ planFaults' \in 0..Faults
    BY <1>5 DEF P!MarkBlocked, P!row, PlanTypes
  <2>3. QED
    BY <2>1, <2>2, EndKeepsTypes
<1>6. ASSUME NEW p \in Extractors, P!Normalize(p) PROVE PlanTypes'
  <2>1. P!Go(p, P!Idle) /\ UNCHANGED <<json, extracted, accepted, answered>>
    BY <1>6 DEF P!Normalize
  <2>2. PICK s : s = IF at[p].whole THEN "normalized" ELSE "planned_partial"
    OBVIOUS
  <2>3. status' = s /\ docStatus' = s /\ planFaults' = planFaults
    BY <1>6, <2>2 DEF P!Normalize
  <2>4. s \in {"normalized", "planned_partial"}
    BY <2>2
  <2>5. planFaults' \in 0..Faults
    BY <2>3 DEF PlanTypes
  <2>6. QED
    BY <2>1, <2>3, <2>4, <2>5, EndKeepsTypes
<1>7. ASSUME NEW p \in Extractors, P!Fails(p) PROVE PlanTypes'
  <2>1. P!Go(p, P!Idle) /\ UNCHANGED <<json, extracted, status, docStatus, accepted, answered>>
    BY <1>7 DEF P!Fails, P!row
  <2>2. planFaults' \in 0..Faults
    BY <1>7, PartsAssumption DEF P!Fails, PlanTypes
  <2>3. QED
    BY <2>1, <2>2, EndKeepsTypes
<1>8. QED
  BY <1>1, <1>2, <1>3, <1>4, <1>5, <1>6, <1>7 DEF P!Next

-----------------------------------------------------------------------------
(* What the marks of a planned extraction say *)

(* While a call waits for the model, what it has read is the row; what it  *)
(* knows of the row after it has written is so.                            *)
CallInv(p) ==
    /\ at[p].stage \in {"single", "batch"} => at[p].extracted = extracted /\ at[p].json = json
    /\ at[p].stage = "normalize" => (at[p].whole => extracted = Items)

(* The model has answered every item with a mark, or the item is displaced.*)
Marked == \A i \in extracted : i \in answered \/ P!Displaced(i)

PlanInv ==
    /\ Marked
    /\ status \in {"parsed", "normalized"} => extracted = Items
    /\ \A p \in Extractors : CallInv(p)

OneCall == \E p : Extractors = {p}

IPlan == OneCall /\ PlanTypes /\ PlanInv

LEMMA MarkedMeans == Marked /\ extracted = Items => P!AnsweredOrLost
  BY DEF Marked, P!AnsweredOrLost

LEMMA ReadHolds ==
    ASSUME NEW p, Extractors = {p}, PlanTypes, PlanInv, NEW step,
           step \in {"single", "batch"}, NEW items, P!Read(p, step, items)
    PROVE  PlanInv'
<1>1. PICK r : r = [stage |-> step, asked |-> items \ extracted, json |-> json,
                    extracted |-> extracted]
  OBVIOUS
<1>2. at' = [at EXCEPT ![p] = r] /\ UNCHANGED <<json, extracted, status, answered>>
  BY <1>1, Zenon DEF P!Read, P!Go, P!row
<1>3. at'[p] = r
  BY <1>2 DEF PlanTypes
<1>4. CallInv(p)'
  BY <1>1, <1>2, <1>3 DEF CallInv
<1>5. Marked'
  BY <1>2 DEF PlanInv, Marked, P!Displaced
<1>6. QED
  BY <1>2, <1>4, <1>5 DEF PlanInv

(* An item that gets its mark was answered, or has lost its number to one  *)
(* of those that were; what had its mark before keeps its place.           *)
LEMMA SaveMarks ==
    ASSUME NEW p, Extractors = {p}, PlanTypes, PlanInv, at[p].stage \in {"single", "batch"},
           NEW o, NEW new, NEW marks, P!Save(p, o, new, marks), Grows(at[p], o, new, marks)
    PROVE  Marked'
<1>1. PICK h : h = at[p]
  OBVIOUS
<1>2. h.extracted = extracted /\ h.json = json
  BY <1>1 DEF PlanInv, CallInv
<1>3. PlanHeld(h)
  BY <1>1 DEF PlanTypes, P!Idle
<1>4. h.asked \subseteq Items \ extracted
  BY <1>2, <1>3 DEF PlanHeld
<1>5. /\ \A n \in new : /\ n.is.item \in h.asked
                        /\ n.index = n.is.item \/ n.index \notin DOMAIN json
      /\ \A i \in marks :
            \/ i \in h.asked \ P!With(o, {"fails", "blocked"})
            \/ i \notin h.asked /\ \E n \in new : n.index = i
  BY <1>1, <1>2 DEF Grows
<1>6. PICK X : X = {n.index : n \in new}
  OBVIOUS
<1>7. /\ DOMAIN json' = DOMAIN json \cup X
      /\ \A i \in DOMAIN json' :
            IF i \in X THEN \E n \in new : n.index = i /\ json'[i] = n.is
                       ELSE json'[i] = json[i]
  <2>1. json' \in P!Merges(h, new)
    BY <1>1 DEF P!Save
  <2>2. QED
    BY <1>2, <1>6, <2>1 DEF P!Merges
<1>8. /\ extracted' = extracted \cup marks
      /\ answered' = answered \cup (h.asked \ P!With(o, {"fails", "blocked"}))
  BY <1>1, <1>2 DEF P!Save
<1>9. ASSUME NEW i \in extracted
      PROVE  i \in answered' \/ P!Displaced(i)'
  <2>1. CASE i \in answered
    BY <1>8, <2>1
  <2>2. CASE P!Displaced(i)
    <3>1. i \in DOMAIN json /\ json[i].item # i
      BY <2>2 DEF P!Displaced
    <3>2. i \notin X
      BY <1>4, <1>5, <1>6, <3>1
    <3>3. i \in DOMAIN json' /\ json'[i] = json[i]
      BY <1>7, <3>1, <3>2
    <3>4. QED
      BY <1>8, <3>1, <3>3 DEF P!Displaced
  <2>3. QED
    BY <2>1, <2>2 DEF PlanInv, Marked
<1>10. ASSUME NEW i \in marks
       PROVE  i \in answered' \/ P!Displaced(i)'
  <2>1. CASE i \in h.asked \ P!With(o, {"fails", "blocked"})
    BY <1>8, <2>1
  <2>2. CASE i \notin h.asked /\ \E n \in new : n.index = i
    <3>1. i \in X /\ i \in DOMAIN json'
      BY <1>6, <1>7, <2>2
    <3>2. PICK n \in new : n.index = i /\ json'[i] = n.is
      BY <1>7, <3>1
    <3>3. json'[i].item # i
      BY <1>5, <2>2, <3>2
    <3>4. QED
      BY <1>8, <3>1, <3>3 DEF P!Displaced
  <2>3. QED
    BY <1>5, <2>1, <2>2
<1>11. QED
  BY <1>8, <1>9, <1>10 DEF Marked

(* The row is written as whole only if all items have their mark.          *)
LEMMA SaveHolds ==
    ASSUME NEW p, Extractors = {p}, PlanTypes, PlanInv, at[p].stage \in {"single", "batch"},
           NEW o, NEW new, NEW marks, P!Save(p, o, new, marks), Grows(at[p], o, new, marks)
    PROVE  PlanInv' /\ docStatus' = docStatus
<1>1. Marked'
  BY SaveMarks
<1>2. PICK blocked \in BOOLEAN : blocked = (P!Blocked(o) # {})
  OBVIOUS
<1>3. PICK whole \in BOOLEAN : whole = (~blocked /\ P!Whole(at[p], marks))
  OBVIOUS
<1>4. PICK r : r = IF blocked THEN [stage |-> "blocked"]
                   ELSE [stage |-> "normalize", whole |-> whole]
  OBVIOUS
<1>5. at' = [at EXCEPT ![p] = r]
  BY <1>2, <1>3, <1>4, Zenon DEF P!Save, P!Go
<1>6. status' = IF blocked THEN "planned_needs_reextract"
                ELSE IF whole THEN "parsed" ELSE "planned_partial"
  <2>1. CASE blocked
    BY <1>2, <2>1 DEF P!Save
  <2>2. CASE ~blocked /\ whole
    BY <1>2, <1>3, <2>2 DEF P!Save
  <2>3. CASE ~blocked /\ ~whole
    BY <1>2, <1>3, <2>3 DEF P!Save
  <2>4. QED
    BY <2>1, <2>2, <2>3
<1>7. whole => extracted' = Items
  BY <1>3 DEF P!Save, P!Whole
<1>8. at'[p] = r
  BY <1>5 DEF PlanTypes
<1>9. CallInv(p)'
  BY <1>4, <1>7, <1>8 DEF CallInv
<1>10. docStatus' = docStatus
  BY DEF P!Save
<1>11. QED
  BY <1>1, <1>6, <1>7, <1>9, <1>10 DEF PlanInv

(* The row and the document are normalized only by a call that wrote the   *)
(* row as whole.                                                           *)
LEMMA NormalizeHolds ==
    ASSUME NEW p, Extractors = {p}, PlanTypes, PlanInv, P!Normalize(p)
    PROVE  PlanInv' /\ (docStatus' = "normalized" => status' = "normalized")
<1>1. /\ at' = [at EXCEPT ![p] = [stage |-> "idle"]]
      /\ UNCHANGED <<json, extracted, answered>>
  BY DEF P!Normalize, P!Go, P!Idle
<1>2. Marked' /\ CallInv(p)'
  BY <1>1 DEF PlanInv, Marked, P!Displaced, CallInv, PlanTypes
<1>3. PICK s : s = IF at[p].whole THEN "normalized" ELSE "planned_partial"
  OBVIOUS
<1>4. status' = s /\ docStatus' = s
  BY <1>3 DEF P!Normalize
<1>5. at[p].whole => extracted = Items
  BY DEF PlanInv, CallInv, P!Normalize
<1>6. QED
  BY <1>1, <1>2, <1>3, <1>4, <1>5 DEF PlanInv

(* A call that ends leaves the row as it is.                               *)
LEMMA PlanCallEnds ==
    ASSUME NEW p, Extractors = {p}, PlanTypes, PlanInv, P!MarkBlocked(p) \/ P!Fails(p)
    PROVE  PlanInv' /\ docStatus' \in {docStatus, "planned_needs_reextract"}
<1>1. /\ at' = [at EXCEPT ![p] = [stage |-> "idle"]]
      /\ UNCHANGED <<json, extracted, status, answered>>
      /\ docStatus' \in {docStatus, "planned_needs_reextract"}
  BY DEF P!MarkBlocked, P!Fails, P!Go, P!Idle, P!row
<1>2. Marked' /\ CallInv(p)'
  BY <1>1 DEF PlanInv, Marked, P!Displaced, CallInv, PlanTypes
<1>3. QED
  BY <1>1, <1>2 DEF PlanInv

LEMMA PlanBegins == OneCall /\ P!Init => IPlan
<1>1. P!Init => PlanInv
  BY DEF P!Init, PlanInv, Marked, CallInv, P!Idle
<1>2. QED
  BY <1>1, PlanTypesBegin DEF IPlan

(* A step keeps the invariant, and the document is normalized with its row.*)
LEMMA PlanStepSettles ==
    IPlan /\ [P!Next]_(P!vars) =>
        PlanInv' /\ (docStatus' # docStatus /\ docStatus' = "normalized" => status' = "normalized")
<1>1. SUFFICES ASSUME NEW p, Extractors = {p}, PlanTypes, PlanInv, [P!Next]_P!vars
               PROVE  /\ PlanInv'
                      /\ docStatus' # docStatus /\ docStatus' = "normalized" =>
                            status' = "normalized"
  BY DEF IPlan, OneCall
<1>2. CASE UNCHANGED P!vars
  BY <1>1, <1>2 DEF P!vars, P!row, PlanInv, Marked, P!Displaced, CallInv
<1>3. CASE P!ReadOne(p) \/ P!ReadBatch(p)
  <2>1. PICK step, items : step \in {"single", "batch"} /\ P!Read(p, step, items)
    BY <1>3 DEF P!ReadOne, P!ReadBatch
  <2>2. docStatus' = docStatus
    BY <2>1 DEF P!Read
  <2>3. QED
    BY <1>1, <2>1, <2>2, ReadHolds
<1>4. CASE P!Saved(p)
  BY <1>1, <1>4, SavedGrows, SaveHolds
<1>5. CASE P!Normalize(p)
  BY <1>1, <1>5, NormalizeHolds
<1>6. CASE P!MarkBlocked(p) \/ P!Fails(p)
  BY <1>1, <1>6, PlanCallEnds
<1>7. QED
  BY <1>1, <1>2, <1>3, <1>4, <1>5, <1>6 DEF P!Next

LEMMA PlanStepHolds == IPlan /\ [P!Next]_(P!vars) => IPlan'
  BY PlanStepSettles, PlanTypesHold DEF IPlan, OneCall

LEMMA PlanStepIsWhole ==
    IPlan /\ [P!Next]_(P!vars) => (P!Settles => (extracted = Items /\ P!AnsweredOrLost)')
<1>1. SUFFICES ASSUME IPlan, [P!Next]_(P!vars), P!Settles
               PROVE  extracted' = Items /\ P!AnsweredOrLost'
  OBVIOUS
<1>2. PlanInv' /\ status' \in {"parsed", "normalized"}
  BY <1>1, PlanStepSettles DEF P!Settles
<1>3. extracted' = Items /\ Marked'
  BY <1>2 DEF PlanInv
<1>4. QED
  BY <1>3 DEF Marked, P!AnsweredOrLost

(* PlannedExtraction: of one call at a time, whatever the plan, the        *)
(* answers of the model and the errors, none settles the extraction or     *)
(* the document while an item of the plan was neither answered by the      *)
(* model nor displaced by a further instance of another item.              *)
THEOREM NormalizedIsExtracted == OneCall /\ P!Spec => NormalizedIsWhole
<1>1. OneCall /\ P!Init => IPlan
  BY PlanBegins
<1>2. IPlan /\ [P!Next]_P!vars => IPlan'
  BY PlanStepHolds
<1>3. IPlan /\ [P!Next]_P!vars =>
          [P!Settles => (extracted = Items /\ P!AnsweredOrLost)']_P!vars
  BY PlanStepIsWhole
<1>4. QED
  BY <1>1, <1>2, <1>3, PTL DEF P!Spec, NormalizedIsWhole, P!NormalizedIsWhole

-----------------------------------------------------------------------------
(* The types of the login *)

(* What a sequence holds without one of its members.                       *)
LEMMA RemovedAt ==
    ASSUME NEW S, NEW q \in Seq(S), NEW i \in 1..Len(q)
    PROVE  /\ A!RemoveAt(q, i) \in Seq(S)
           /\ Len(A!RemoveAt(q, i)) = Len(q) - 1
           /\ \A j \in 1..(Len(q) - 1) :
                 A!RemoveAt(q, i)[j] = IF j < i THEN q[j] ELSE q[j + 1]
<1>1. PICK a : a = SubSeq(q, 1, i - 1)
  OBVIOUS
<1>2. PICK b : b = SubSeq(q, i + 1, Len(q))
  OBVIOUS
<1>3. Len(q) \in Nat /\ i \in Nat /\ 1 <= i /\ i <= Len(q)
  OBVIOUS
<1>4. /\ a \in Seq(S) /\ Len(a) = i - 1
      /\ \A j \in 1..(i - 1) : a[j] = q[j]
  BY <1>1, <1>3
<1>5. /\ b \in Seq(S) /\ Len(b) = Len(q) - i
      /\ \A j \in 1..(Len(q) - i) : b[j] = q[i + j]
  BY <1>2, <1>3
<1>6. PICK r : r = a \o b
  OBVIOUS
<1>7. /\ r \in Seq(S) /\ Len(r) = Len(a) + Len(b)
      /\ \A j \in 1..Len(a) : r[j] = a[j]
      /\ \A j \in 1..Len(b) : r[Len(a) + j] = b[j]
  <2>1. r \in Seq(S) /\ Len(r) = Len(a) + Len(b)
    BY <1>4, <1>5, <1>6, ConcatProperties
  <2>2. \A j \in 1..Len(a) : r[j] = a[j]
    BY <1>4, <1>5, <1>6
  <2>3. \A j \in 1..Len(b) : r[Len(a) + j] = b[j]
    BY <1>4, <1>5, <1>6
  <2>4. QED
    BY <2>1, <2>2, <2>3
<1>8. Len(r) = Len(q) - 1
  BY <1>3, <1>4, <1>5, <1>7
<1>9. ASSUME NEW j \in 1..(Len(q) - 1)
      PROVE  r[j] = IF j < i THEN q[j] ELSE q[j + 1]
  <2>1. CASE j < i
    BY <1>3, <1>4, <1>7, <2>1
  <2>2. CASE ~(j < i)
    <3>1. PICK h : h = j - (i - 1)
      OBVIOUS
    <3>2. h \in 1..Len(b) /\ j = Len(a) + h /\ b[h] = q[i + h] /\ i + h = j + 1
      BY <1>3, <1>4, <1>5, <2>2, <3>1
    <3>3. r[Len(a) + h] = b[h]
      BY <1>7, <3>2
    <3>4. QED
      BY <2>2, <3>2, <3>3
  <2>3. QED
    BY <2>1, <2>2
<1>10. A!RemoveAt(q, i) = r
  BY <1>1, <1>2, <1>6, Zenon DEF A!RemoveAt
<1>11. QED
  BY <1>7, <1>8, <1>9, <1>10

HasResult(k) == \E i \in 1..Len(cache) : cache[i] = k
OneResult    == \A i, j \in 1..Len(cache) : cache[i] = cache[j] => i = j

(* A result is kept once: a code whose result is on its way has none.      *)
LoginTypes ==
    /\ LoginShape /\ OneResult /\ Len(cache) <= MaxCache + 1
    /\ pending \in [Codes -> {"none", "ask", "store", "keep", "token", "invalid", "unavailable"}]
    /\ \A k \in Codes : pending[k] \in {"ask", "store", "keep"} => ~HasResult(k)
    /\ IsFiniteSet(A!Pending) /\ Cardinality(A!Pending) <= MaxPending
    /\ login \in [Logins -> {"none"} \cup Codes]
    /\ spent \subseteq Codes /\ lost \subseteq Codes
    /\ authFaults \in 0..MaxFaults

LEMMA LoginTyped == LoginTypes => A!TypeOK
<1>1. LoginTypes => A!IsInjective(cache)
  BY DEF LoginTypes, LoginShape, OneResult, A!IsInjective
<1>2. LoginTypes => pending \in [Codes -> {A!None, "ask", "store", "keep"} \cup A!Answers]
  BY DEF LoginTypes, A!None, A!Answers
<1>3. LoginTypes => login \in [Logins -> {A!None} \cup Codes]
  BY DEF LoginTypes, A!None
<1>4. LoginTypes => /\ cache \in Seq(Codes) /\ Len(cache) <= MaxCache + 1
                    /\ old \in 0..Len(cache) /\ A!Cardinality(A!Pending) <= MaxPending
                    /\ spent \subseteq Codes /\ lost \subseteq Codes
                    /\ authFaults \in 0..MaxFaults
  BY SameCount DEF LoginTypes, LoginShape
<1>5. QED
  BY <1>1, <1>2, <1>3, <1>4 DEF A!TypeOK

LEMMA LoginTypesBegin == A!Init => LoginTypes
<1>. SUFFICES ASSUME A!Init PROVE LoginTypes
  OBVIOUS
<1>1. /\ cache = <<>> /\ old = 0 /\ pending = [k \in Codes |-> "none"]
      /\ login = [r \in Logins |-> "none"] /\ spent = {} /\ lost = {} /\ authFaults = 0
  BY DEF A!Init, A!None
<1>2. A!Pending = {}
  BY <1>1 DEF A!Pending, A!None
<1>3. IsFiniteSet(A!Pending) /\ Cardinality(A!Pending) = 0
  BY <1>2, FS_EmptySet
<1>4. {MaxCache, MaxPending} \subseteq Nat /\ MaxFaults \in Nat
  BY PartsAssumption, FaultAssumption
<1>5. QED
  BY <1>1, <1>3, <1>4 DEF LoginTypes, LoginShape, OneResult, HasResult

(* The results that are kept, some of them moved up.                       *)
LEMMA DeleteRemoves ==
    ASSUME LoginTypes, NEW k, ~A!Fresh(k), A!Delete(k)
    PROVE  /\ cache' \in Seq(Codes) /\ old' \in 0..Len(cache')
           /\ OneResult' /\ Len(cache') <= MaxCache + 1
           /\ ~HasResult(k)' /\ \A c : HasResult(c)' => HasResult(c)
<1>0. /\ cache \in Seq(Codes) /\ old \in Nat /\ old <= Len(cache)
      /\ Len(cache) \in Nat /\ Len(cache) <= MaxCache + 1 /\ MaxCache \in Nat
  BY DEF LoginTypes, LoginShape
<1>1. CASE k \notin A!ToSet(cache) /\ UNCHANGED <<cache, old>>
  <2>1. ~HasResult(k)
    BY <1>0, <1>1 DEF A!ToSet, HasResult
  <2>2. QED
    BY <1>0, <1>1, <2>1 DEF LoginTypes, LoginShape, OneResult, HasResult
<1>2. CASE \E i \in 1..old :
              cache[i] = k /\ cache' = A!RemoveAt(cache, i) /\ old' = old - 1
  <2>1. PICK i \in 1..old : cache[i] = k /\ cache' = A!RemoveAt(cache, i) /\ old' = old - 1
    BY <1>2
  <2>2. i \in 1..Len(cache)
    BY <1>0
  <2>3. /\ cache' \in Seq(Codes) /\ Len(cache') = Len(cache) - 1
        /\ \A j \in 1..(Len(cache) - 1) : cache'[j] = IF j < i THEN cache[j] ELSE cache[j + 1]
    BY <1>0, <2>1, <2>2, RemovedAt
  <2>4. \A j \in 1..Len(cache') :
            \E h \in 1..Len(cache) :
               h # i /\ cache'[j] = cache[h] /\ h = IF j < i THEN j ELSE j + 1
    <3>1. TAKE j \in 1..Len(cache')
    <3>2. PICK h : h = IF j < i THEN j ELSE j + 1
      OBVIOUS
    <3>3. h \in 1..Len(cache) /\ h # i /\ cache'[j] = cache[h]
      BY <1>0, <2>2, <2>3, <3>2
    <3>4. QED
      BY <3>2, <3>3
  <2>5. OneResult'
    <3>1. SUFFICES ASSUME NEW a \in 1..Len(cache'), NEW b \in 1..Len(cache'),
                          cache'[a] = cache'[b]
                   PROVE  a = b
      BY DEF OneResult
    <3>2. PICK x \in 1..Len(cache) : cache'[a] = cache[x] /\ x = IF a < i THEN a ELSE a + 1
      BY <2>4
    <3>3. PICK y \in 1..Len(cache) : cache'[b] = cache[y] /\ y = IF b < i THEN b ELSE b + 1
      BY <2>4
    <3>4. x = y
      BY <3>1, <3>2, <3>3 DEF LoginTypes, OneResult
    <3>5. QED
      BY <1>0, <2>3, <3>2, <3>3, <3>4
  <2>6. \A c : HasResult(c)' => HasResult(c)
    BY <2>4 DEF HasResult
  <2>7. ~HasResult(k)'
    <3>1. SUFFICES ASSUME NEW a \in 1..Len(cache'), cache'[a] = k PROVE FALSE
      BY DEF HasResult
    <3>2. PICK x \in 1..Len(cache) : x # i /\ cache'[a] = cache[x]
      BY <2>4
    <3>3. QED
      BY <2>1, <2>2, <3>1, <3>2 DEF LoginTypes, OneResult
  <2>8. QED
    BY <1>0, <2>1, <2>3, <2>5, <2>6, <2>7
<1>3. QED
  BY <1>1, <1>2 DEF A!Delete

ExchangeStages == {"none", "ask", "store", "keep", "token", "invalid", "unavailable"}

(* An exchange that moves on is under way as before; one that begins finds *)
(* the map below its limit.                                                *)
LEMMA PendingCount ==
    ASSUME LoginTypes, NEW k \in Codes, NEW step \in ExchangeStages, A!To(k, step),
           pending[k] # "none" \/ Cardinality(A!Pending) < MaxPending
    PROVE  /\ pending' \in [Codes -> ExchangeStages]
           /\ pending'[k] = step /\ \A c \in Codes \ {k} : pending'[c] = pending[c]
           /\ IsFiniteSet(A!Pending') /\ Cardinality(A!Pending') <= MaxPending
<1>. USE DEF ExchangeStages
<1>1. /\ pending' \in [Codes -> ExchangeStages]
      /\ pending'[k] = step /\ \A c \in Codes \ {k} : pending'[c] = pending[c]
  BY DEF LoginTypes, A!To
<1>2. PICK X : X = A!Pending \cup {k}
  OBVIOUS
<1>3. A!Pending' \subseteq X
  BY <1>1, <1>2 DEF A!Pending, A!None
<1>4. IsFiniteSet(A!Pending) /\ Cardinality(A!Pending) <= MaxPending /\ MaxPending \in Nat
  BY PartsAssumption DEF LoginTypes
<1>5. IsFiniteSet(X) /\ Cardinality(X) <= MaxPending /\ Cardinality(X) \in Nat
  <2>1. CASE k \in A!Pending
    <3>1. X = A!Pending
      BY <1>2, <2>1
    <3>2. QED
      BY <1>4, <3>1, FS_CardinalityType
  <2>2. CASE k \notin A!Pending
    <3>1. Cardinality(A!Pending) < MaxPending
      BY <2>2 DEF A!Pending, A!None
    <3>2. IsFiniteSet(X) /\ Cardinality(X) = Cardinality(A!Pending) + 1
      BY <1>2, <1>4, <2>2, FS_AddElement
    <3>3. QED
      BY <1>4, <3>1, <3>2, FS_CardinalityType
  <2>3. QED
    BY <2>1, <2>2
<1>6. IsFiniteSet(A!Pending') /\ Cardinality(A!Pending') <= Cardinality(X)
  BY <1>3, <1>5, FS_Subset
<1>7. Cardinality(A!Pending') \in Nat
  BY <1>6, FS_CardinalityType
<1>8. QED
  BY <1>1, <1>4, <1>5, <1>6, <1>7

(* An exchange begins when its code has no result any more.                *)
LEMMA LoginKeepsTypes ==
    ASSUME LoginTypes, NEW r \in Logins, NEW k \in Codes, A!Login(r, k)
    PROVE  LoginTypes'
<1>1. /\ cache' \in Seq(Codes) /\ old' \in 0..Len(cache')
      /\ OneResult' /\ Len(cache') <= MaxCache + 1
      /\ ~HasResult(k)' /\ \A c : HasResult(c)' => HasResult(c)
  <2>1. ~A!Fresh(k) /\ A!Delete(k)
    BY DEF A!Login, A!Exchanged
  <2>2. QED
    BY <2>1, DeleteRemoves
<1>2. /\ spent' \subseteq Codes /\ lost' \subseteq Codes /\ authFaults' \in 0..MaxFaults
      /\ login' \in [Logins -> {"none"} \cup Codes]
  BY DEF A!Login, A!Exchanged, LoginTypes
<1>3. CASE UNCHANGED pending
  BY <1>1, <1>2, <1>3 DEF LoginTypes, LoginShape, A!Pending
<1>4. CASE Cardinality(A!Pending) < MaxPending /\ A!To(k, "ask")
  <2>1. /\ pending' \in [Codes -> ExchangeStages]
        /\ \A c \in Codes \ {k} : pending'[c] = pending[c]
        /\ IsFiniteSet(A!Pending') /\ Cardinality(A!Pending') <= MaxPending
    BY <1>4, PendingCount DEF ExchangeStages
  <2>2. \A c \in Codes : pending'[c] \in {"ask", "store", "keep"} => ~HasResult(c)'
    BY <1>1, <2>1 DEF LoginTypes
  <2>3. QED
    BY <1>1, <1>2, <2>1, <2>2 DEF LoginTypes, LoginShape, ExchangeStages
<1>5. QED
  BY <1>3, <1>4, SameCount DEF A!Login, A!Exchanged, A!To

LEMMA StageKeepsTypes ==
    ASSUME LoginTypes, NEW k \in Codes,
           A!Ask(k) \/ A!Store(k) \/ A!Fails(k) \/ A!Finally(k)
    PROVE  LoginTypes'
<1>1. PICK step \in ExchangeStages :
          /\ A!To(k, step) /\ pending[k] # "none"
          /\ step \in {"store", "keep"} => pending[k] \in {"ask", "store"}
  BY DEF A!Ask, A!Store, A!Fails, A!Finally, A!Answers, A!None, ExchangeStages
<1>2. /\ pending' \in [Codes -> ExchangeStages]
      /\ pending'[k] = step /\ \A c \in Codes \ {k} : pending'[c] = pending[c]
      /\ IsFiniteSet(A!Pending') /\ Cardinality(A!Pending') <= MaxPending
  BY <1>1, PendingCount
<1>3. UNCHANGED <<cache, old>> /\ \A c : HasResult(c)' <=> HasResult(c)
  BY DEF A!Ask, A!Store, A!Fails, A!Finally, HasResult
<1>4. /\ spent' \subseteq Codes /\ lost' \subseteq Codes
      /\ login' \in [Logins -> {"none"} \cup Codes]
  BY DEF A!Ask, A!Store, A!Fails, A!Finally, A!None, LoginTypes
<1>5. authFaults' \in 0..MaxFaults
  BY FaultAssumption DEF A!Ask, A!Store, A!Fails, A!Finally, LoginTypes
<1>6. step # "ask"
  BY <1>1, <1>2 DEF A!Ask, A!Store, A!Fails, A!Finally, A!To, A!None, LoginTypes
<1>7. \A c \in Codes : pending'[c] \in {"ask", "store", "keep"} => ~HasResult(c)'
  BY <1>1, <1>2, <1>3, <1>6 DEF LoginTypes
<1>8. QED
  BY <1>2, <1>3, <1>4, <1>5, <1>7 DEF LoginTypes, LoginShape, OneResult, ExchangeStages

(* Pruning leaves results that were there, at most MaxCache of them.       *)
LEMMA PrunedAreKept ==
    ASSUME LoginTypes
    PROVE  /\ A!Pruned \in Seq(Codes) /\ Len(A!Pruned) <= MaxCache
           /\ \A i \in 1..Len(A!Pruned) : HasResult(A!Pruned[i])
           /\ \A i, j \in 1..Len(A!Pruned) : A!Pruned[i] = A!Pruned[j] => i = j
           /\ A!Dropped \subseteq Codes
<1>1. PICK n : n = A!Gone
  OBVIOUS
<1>2. /\ cache \in Seq(Codes) /\ Len(cache) \in Nat /\ old \in Nat /\ old <= Len(cache)
      /\ MaxCache \in Nat
  BY DEF LoginTypes, LoginShape
<1>3. n \in Nat /\ n <= Len(cache) /\ Len(cache) - n <= MaxCache
  BY <1>1, <1>2 DEF A!Gone
<1>4. PICK p : p = A!Pruned
  OBVIOUS
<1>5. p = SubSeq(cache, n + 1, Len(cache)) /\ A!Dropped = {cache[i] : i \in 1..n}
  BY <1>1, <1>4 DEF A!Pruned, A!Dropped
<1>6. /\ p \in Seq(Codes) /\ Len(p) = Len(cache) - n
      /\ \A i \in 1..(Len(cache) - n) : p[i] = cache[n + i]
  BY <1>2, <1>3, <1>5
<1>7. ASSUME NEW i \in 1..Len(p)
      PROVE  n + i \in 1..Len(cache) /\ p[i] = cache[n + i]
  BY <1>2, <1>3, <1>6
<1>8. ASSUME NEW i \in 1..Len(p), NEW j \in 1..Len(p), p[i] = p[j]
      PROVE  i = j
  <2>1. n + i = n + j
    BY <1>7, <1>8 DEF LoginTypes, OneResult
  <2>2. QED
    BY <1>3, <2>1
<1>9. A!Dropped \subseteq Codes
  BY <1>2, <1>3, <1>5
<1>10. QED
  BY <1>3, <1>4, <1>6, <1>7, <1>8, <1>9 DEF HasResult

LEMMA KeepKeepsTypes ==
    ASSUME LoginTypes, NEW k \in Codes, A!Keep(k)
    PROVE  LoginTypes'
<1>1. PICK p : p = A!Pruned
  OBVIOUS
<1>2. /\ p \in Seq(Codes) /\ Len(p) \in Nat /\ Len(p) <= MaxCache
      /\ \A i \in 1..Len(p) : HasResult(p[i])
      /\ \A i, j \in 1..Len(p) : p[i] = p[j] => i = j
      /\ A!Dropped \subseteq Codes
  BY <1>1, PrunedAreKept
<1>3. pending[k] = "keep" /\ ~HasResult(k)
  BY DEF A!Keep, LoginTypes
<1>4. cache' = Append(p, k) /\ old' = 0
  BY <1>1 DEF A!Keep
<1>5. /\ cache' \in Seq(Codes) /\ Len(cache') = Len(p) + 1
      /\ cache'[Len(p) + 1] = k /\ \A i \in 1..Len(p) : cache'[i] = p[i]
  BY <1>2, <1>4
<1>6. /\ pending' \in [Codes -> ExchangeStages]
      /\ pending'[k] = "token" /\ \A c \in Codes \ {k} : pending'[c] = pending[c]
      /\ IsFiniteSet(A!Pending') /\ Cardinality(A!Pending') <= MaxPending
  <2>1. A!To(k, "token")
    BY DEF A!Keep
  <2>2. QED
    BY <1>3, <2>1, PendingCount DEF ExchangeStages
<1>7. OneResult'
  <2>1. SUFFICES ASSUME NEW i \in 1..Len(cache'), NEW j \in 1..Len(cache'),
                        cache'[i] = cache'[j], i < j
                 PROVE  FALSE
    BY <1>2, <1>5 DEF OneResult
  <2>2. i \in 1..Len(p) /\ cache'[i] = p[i]
    BY <1>2, <1>5, <2>1
  <2>3. CASE j = Len(p) + 1
    BY <1>2, <1>3, <1>5, <2>1, <2>2, <2>3
  <2>4. CASE j \in 1..Len(p)
    <3>1. p[i] = p[j]
      BY <1>5, <2>1, <2>2, <2>4
    <3>2. i = j
      BY <1>2, <2>2, <2>4, <3>1
    <3>3. QED
      BY <2>1, <3>2
  <2>5. QED
    BY <1>2, <1>5, <2>3, <2>4
<1>8. \A c \in Codes : c # k /\ HasResult(c)' => HasResult(c)
  <2>1. SUFFICES ASSUME NEW i \in 1..Len(cache'), cache'[i] # k PROVE HasResult(cache'[i])
    BY DEF HasResult
  <2>2. i \in 1..Len(p) /\ cache'[i] = p[i]
    BY <1>2, <1>5, <2>1
  <2>3. QED
    BY <1>2, <2>2
<1>9. \A c \in Codes : pending'[c] \in {"ask", "store", "keep"} => ~HasResult(c)'
  BY <1>6, <1>8 DEF LoginTypes
<1>10. /\ UNCHANGED <<login, spent, authFaults>> /\ lost' \subseteq Codes
  BY <1>2 DEF A!Keep, LoginTypes
<1>11. LoginShape' /\ Len(cache') <= MaxCache + 1
  BY <1>2, <1>4, <1>5, <1>6 DEF LoginTypes, LoginShape
<1>12. QED
  BY <1>6, <1>7, <1>9, <1>10, <1>11 DEF LoginTypes, ExchangeStages

LEMMA LossKeepsTypes ==
    ASSUME LoginTypes, A!Expire \/ A!CleanUp
    PROVE  LoginTypes'
<1>1. UNCHANGED <<pending, login, spent, authFaults>> /\ UNCHANGED A!Pending
  BY DEF A!Expire, A!CleanUp, A!Pending
<1>2. /\ cache \in Seq(Codes) /\ Len(cache) \in Nat /\ old \in Nat /\ old <= Len(cache)
      /\ MaxCache \in Nat
  BY DEF LoginTypes, LoginShape
<1>3. CASE A!Expire
  BY <1>1, <1>2, <1>3 DEF LoginTypes, LoginShape, OneResult, HasResult, A!Expire
<1>4. CASE A!CleanUp
  <2>1. PICK p : p = A!Pruned
    OBVIOUS
  <2>2. /\ p \in Seq(Codes) /\ Len(p) \in Nat /\ Len(p) <= MaxCache
        /\ \A i \in 1..Len(p) : HasResult(p[i])
        /\ \A i, j \in 1..Len(p) : p[i] = p[j] => i = j
        /\ A!Dropped \subseteq Codes
    BY <2>1, PrunedAreKept
  <2>3. cache' = p /\ old' = 0 /\ lost' \subseteq Codes
    BY <1>4, <2>1, <2>2 DEF A!CleanUp, LoginTypes
  <2>4. OneResult' /\ \A c : HasResult(c)' => HasResult(c)
    BY <2>2, <2>3 DEF OneResult, HasResult
  <2>5. LoginShape' /\ Len(cache') <= MaxCache + 1
    BY <1>1, <1>2, <2>2, <2>3 DEF LoginTypes, LoginShape
  <2>6. QED
    BY <1>1, <2>3, <2>4, <2>5 DEF LoginTypes
<1>5. QED
  BY <1>3, <1>4

LEMMA LoginTypesHold ==
    ASSUME LoginTypes, [A!Next]_A!vars
    PROVE  LoginTypes'
<1>1. CASE UNCHANGED A!vars
  BY <1>1 DEF A!vars, LoginTypes, LoginShape, OneResult, HasResult, A!Pending
<1>2. QED
  BY <1>1, LoginKeepsTypes, StageKeepsTypes, KeepKeepsTypes, LossKeepsTypes
     DEF A!Next, A!Exchange

-----------------------------------------------------------------------------
(* The types of the check-ins *)

(* A set that gains one member, or loses one.                              *)
LEMMA OneMember ==
    ASSUME NEW S, IsFiniteSet(S), NEW e, NEW X, X \subseteq S \cup {e}
    PROVE  /\ IsFiniteSet(X) /\ Cardinality(X) \in Nat /\ Cardinality(S) \in Nat
           /\ Cardinality(X) <= Cardinality(S) + 1
           /\ e \notin X \/ e \in S => Cardinality(X) <= Cardinality(S)
           /\ e \notin X /\ e \in S => Cardinality(X) + 1 <= Cardinality(S)
<1>1. Cardinality(S) \in Nat
  BY FS_CardinalityType
<1>2. PICK U : U = S \cup {e}
  OBVIOUS
<1>3. /\ IsFiniteSet(U)
      /\ Cardinality(U) = IF e \in S THEN Cardinality(S) ELSE Cardinality(S) + 1
  BY <1>2, FS_AddElement
<1>4. IsFiniteSet(X) /\ Cardinality(X) <= Cardinality(U)
  BY <1>2, <1>3, FS_Subset
<1>5. Cardinality(X) \in Nat
  BY <1>4, FS_CardinalityType
<1>6. ASSUME e \notin X PROVE Cardinality(X) <= Cardinality(S)
  <2>1. X \subseteq S
    BY <1>6
  <2>2. QED
    BY <2>1, FS_Subset
<1>7. ASSUME e \notin X, e \in S PROVE Cardinality(X) + 1 <= Cardinality(S)
  <2>1. PICK R : R = S \ {e}
    OBVIOUS
  <2>2. IsFiniteSet(R) /\ Cardinality(R) = Cardinality(S) - 1
    BY <1>7, <2>1, FS_RemoveElement
  <2>3. X \subseteq R
    BY <1>7, <2>1
  <2>4. Cardinality(X) <= Cardinality(R)
    BY <2>2, <2>3, FS_Subset
  <2>5. QED
    BY <1>1, <1>5, <2>2, <2>4
<1>8. QED
  BY <1>1, <1>3, <1>4, <1>5, <1>6, <1>7

TripRow == [count : Nat, linked : SUBSET (1..MaxForms)]

TripStage(s) ==
    \/ run[s] = T!Idle
    \/ /\ run[s].at \in {"next", "make", "call", "link"} /\ run[s].left \subseteq Users
       /\ run[s].at # "next" => run[s].user \in Users
       /\ run[s].at = "link" => run[s].form \in 1..MaxForms

(* The schedules that have stored a check-in and not linked it yet.        *)
Linking(u) == {s \in Schedules : run[s].at \in {"call", "link"} /\ run[s].user = u}

(* A check-in has one form at most, and those still to be linked none.     *)
TripTypes ==
    /\ rows \in [Users -> TripRow]
    /\ \A u \in Users :
          Cardinality(rows[u].linked) + Cardinality(Linking(u)) <= rows[u].count
    /\ forms \in [Users -> 0..MaxForms] /\ asked \in [Users -> Nat]
    /\ \A u \in Users : asked[u] <= forms[u]
    /\ \A e \in events : e \in T!Forms /\ e.number <= forms[e.of]
    /\ DOMAIN run = Schedules /\ \A s \in Schedules : TripStage(s)
    /\ raced \subseteq Users
    /\ tripFaults \in 0..MaxFaults

LEMMA LinkedIsFinite ==
    ASSUME NEW l \in SUBSET (1..MaxForms)
    PROVE  IsFiniteSet(l) /\ Cardinality(l) \in Nat
<1>1. IsFiniteSet(1..MaxForms)
  BY PartsAssumption, FS_Interval
<1>2. IsFiniteSet(l)
  BY <1>1, FS_Subset
<1>3. QED
  BY <1>2, FS_CardinalityType

LEMMA LinkingIsFinite ==
    ASSUME NEW u
    PROVE  IsFiniteSet(Linking(u)) /\ Cardinality(Linking(u)) \in Nat
<1>1. Linking(u) \subseteq Schedules
  BY DEF Linking
<1>2. IsFiniteSet(Linking(u))
  BY <1>1, PartsAssumption, FS_Subset
<1>3. QED
  BY <1>2, FS_CardinalityType

LEMMA TripTyped == TripTypes => T!TypeOK
<1>. SUFFICES ASSUME TripTypes PROVE T!TypeOK
  OBVIOUS
<1>1. MaxForms \in Nat
  BY PartsAssumption
<1>2. rows \in [Users -> [count : Nat, linked : SUBSET (1..MaxForms)]]
  BY DEF TripTypes, TripRow
<1>3. \A u \in Users : T!Cardinality(rows[u].linked) <= rows[u].count
  <2>1. TAKE u \in Users
  <2>2. /\ Cardinality(rows[u].linked) \in Nat /\ Cardinality(Linking(u)) \in Nat
        /\ rows[u].count \in Nat
    BY <1>2, LinkedIsFinite, LinkingIsFinite
  <2>3. Cardinality(rows[u].linked) <= rows[u].count
    BY <2>2 DEF TripTypes
  <2>4. QED
    BY <2>3, SameCount
<1>4. asked \in [Users -> 0..MaxForms]
  BY <1>1 DEF TripTypes
<1>5. QED
  BY <1>2, <1>3, <1>4 DEF TripTypes, TripStage, T!TypeOK

LEMMA TripTypesBegin == T!Init => TripTypes
<1>. SUFFICES ASSUME T!Init PROVE TripTypes
  OBVIOUS
<1>1. MaxForms \in Nat /\ MaxFaults \in Nat
  BY PartsAssumption, FaultAssumption
<1>2. ASSUME NEW u \in Users
      PROVE  Cardinality(rows[u].linked) + Cardinality(Linking(u)) <= rows[u].count
  <2>1. rows[u].linked = {} /\ rows[u].count = 0 /\ Linking(u) = {}
    BY DEF T!Init, T!Idle, Linking
  <2>2. QED
    BY <2>1, FS_EmptySet
<1>3. QED
  BY <1>1, <1>2 DEF T!Init, TripTypes, TripRow, TripStage

(* A schedule that moves and stores nothing comes to no check-in to link   *)
(* that it had not come to.                                                *)
LEMMA MoveKeepsTypes ==
    ASSUME TripTypes, NEW s \in Schedules, OnlyMoves(s), TripStage(s)', rows' = rows,
           run'[s].at \in {"call", "link"} =>
              run[s].at \in {"call", "link"} /\ run'[s].user = run[s].user,
           forms' \in [Users -> 0..MaxForms], asked' \in [Users -> Nat],
           \A u \in Users : asked'[u] <= forms'[u],
           \A e \in events' : e \in T!Forms /\ e.number <= forms'[e.of],
           raced' \subseteq Users, tripFaults' \in 0..MaxFaults
    PROVE  TripTypes'
<1>1. \A r \in Schedules : TripStage(r)'
  BY DEF OnlyMoves, TripTypes, TripStage
<1>2. ASSUME NEW u \in Users
      PROVE  Cardinality(rows'[u].linked) + Cardinality(Linking(u)') <= rows'[u].count
  <2>1. Linking(u)' \subseteq Linking(u)
    BY DEF Linking, OnlyMoves
  <2>2. Cardinality(Linking(u)') <= Cardinality(Linking(u))
    BY <2>1, LinkingIsFinite, FS_Subset
  <2>3. /\ Cardinality(Linking(u)') \in Nat /\ Cardinality(Linking(u)) \in Nat
        /\ rows[u].linked \in SUBSET (1..MaxForms) /\ rows[u].count \in Nat
    <3>1. Cardinality(Linking(u)') \in Nat
      BY <2>1, LinkingIsFinite, FS_Subset, FS_CardinalityType
    <3>2. QED
      BY <3>1, LinkingIsFinite DEF TripTypes, TripRow
  <2>4. Cardinality(rows[u].linked) \in Nat
    BY <2>3, LinkedIsFinite
  <2>5. QED
    BY <2>2, <2>3, <2>4 DEF TripTypes
<1>3. QED
  BY <1>1, <1>2 DEF TripTypes, OnlyMoves

(* One more check-in with one form at most.                                *)
LEMMA AddTypes ==
    ASSUME TripTypes, NEW u \in Users, NEW new \in SUBSET (1..MaxForms), T!Add(u, new),
           new = {} \/ \E n : new = {n}
    PROVE  /\ rows' \in [Users -> TripRow]
           /\ \A v \in Users \ {u} : rows'[v] = rows[v]
           /\ rows'[u].count = rows[u].count + 1
           /\ Cardinality(rows'[u].linked) <= Cardinality(rows[u].linked) + 1
           /\ new = {} => rows'[u].linked = rows[u].linked
<1>1. PICK c \in Nat, l \in SUBSET (1..MaxForms) : rows[u] = [count |-> c, linked |-> l]
  BY DEF TripTypes, TripRow
<1>2. PICK m \in SUBSET (1..MaxForms) : m = l \cup new
  OBVIOUS
<1>3. rows' = [rows EXCEPT ![u] = [count |-> c + 1, linked |-> m]]
  <2>1. rows' = [rows EXCEPT ![u] = [count |-> rows[u].count + 1,
                                      linked |-> rows[u].linked \cup new]]
    BY DEF T!Add
  <2>2. rows[u].count = c /\ rows[u].linked = l
    BY <1>1
  <2>3. QED
    BY <1>2, <2>1, <2>2
<1>4. rows'[u] = [count |-> c + 1, linked |-> m] /\ rows' \in [Users -> TripRow]
  BY <1>3 DEF TripTypes, TripRow
<1>5. Cardinality(m) <= Cardinality(l) + 1
  <2>1. PICK n : m \subseteq l \cup {n}
    BY <1>2
  <2>2. QED
    BY <2>1, LinkedIsFinite, OneMember
<1>6. rows[u].count = c /\ rows[u].linked = l /\ rows'[u].count = c + 1 /\ rows'[u].linked = m
  BY <1>1, <1>4
<1>7. \A v \in Users \ {u} : rows'[v] = rows[v]
  BY <1>3 DEF TripTypes
<1>8. QED
  BY <1>2, <1>4, <1>5, <1>6, <1>7

LEMMA MakeKeepsTypes ==
    ASSUME TripTypes, NEW s \in Schedules, T!Make(s)
    PROVE  TripTypes'
<1>1. PICK u \in Users : u = run[s].user
  BY DEF TripTypes, TripStage, T!Make, T!Idle
<1>2. PICK value : value = T!At(s, "call", u)
  OBVIOUS
<1>3. /\ run[s].at = "make" /\ run[s].left \subseteq Users
      /\ value.at = "call" /\ value.user = u /\ value.left \subseteq Users
  BY <1>2 DEF T!At, T!Make, TripTypes, TripStage, T!Idle
<1>4. DOMAIN run' = Schedules /\ \A r \in Schedules : run'[r] = IF r = s THEN value ELSE run[r]
  BY <1>1, <1>2 DEF T!Make, T!Go, TripTypes
<1>5. T!Add(u, {}) /\ UNCHANGED <<forms, asked, events, raced, tripFaults>>
  BY <1>1 DEF T!Make
<1>6. /\ rows' \in [Users -> TripRow]
      /\ \A v \in Users \ {u} : rows'[v] = rows[v]
      /\ rows'[u].count = rows[u].count + 1
      /\ rows'[u].linked = rows[u].linked
  BY <1>5, AddTypes
<1>7. ASSUME NEW v \in Users
      PROVE  Cardinality(rows'[v].linked) + Cardinality(Linking(v)') <= rows'[v].count
  <2>1. Cardinality(rows[v].linked) + Cardinality(Linking(v)) <= rows[v].count
    BY DEF TripTypes
  <2>2. /\ rows[v].linked \in SUBSET (1..MaxForms) /\ rows[v].count \in Nat
    BY DEF TripTypes, TripRow
  <2>3. /\ IsFiniteSet(Linking(v)) /\ Cardinality(Linking(v)) \in Nat
        /\ Cardinality(rows[v].linked) \in Nat
    BY <2>2, LinkingIsFinite, LinkedIsFinite
  <2>4. CASE v = u
    <3>1. Linking(v)' \subseteq Linking(v) \cup {s}
      BY <1>4 DEF Linking
    <3>2. /\ Cardinality(Linking(v)') <= Cardinality(Linking(v)) + 1
          /\ Cardinality(Linking(v)') \in Nat
      BY <2>3, <3>1, OneMember
    <3>3. QED
      BY <1>6, <2>1, <2>2, <2>3, <2>4, <3>2
  <2>5. CASE v # u
    <3>1. Linking(v)' = Linking(v)
      BY <1>3, <1>4, <2>5 DEF Linking
    <3>2. QED
      BY <1>6, <2>1, <2>5, <3>1
  <2>6. QED
    BY <2>4, <2>5
<1>8. \A r \in Schedules : TripStage(r)'
  BY <1>3, <1>4 DEF TripTypes, TripStage
<1>9. QED
  BY <1>4, <1>5, <1>6, <1>7, <1>8 DEF TripTypes

(* The form that is linked takes the place of the schedule that links it.  *)
LEMMA LinkKeepsTypes ==
    ASSUME TripTypes, NEW s \in Schedules, T!Link(s)
    PROVE  TripTypes'
<1>1. PICK u \in Users, f \in 1..MaxForms : u = run[s].user /\ f = run[s].form
  BY DEF TripTypes, TripStage, T!Link, T!Idle
<1>2. PICK c \in Nat, l \in SUBSET (1..MaxForms) : rows[u] = [count |-> c, linked |-> l]
  BY DEF TripTypes, TripRow
<1>3. PICK m \in SUBSET (1..MaxForms) : m = l \cup {f}
  OBVIOUS
<1>4. rows' = [rows EXCEPT ![u] = [count |-> c, linked |-> m]]
  <2>1. rows[u].linked \cup {f} = m
    BY <1>2, <1>3
  <2>2. rows' = [rows EXCEPT ![u] = [rows[u] EXCEPT !.linked = m]]
    BY <1>1, <2>1, Zenon DEF T!Link
  <2>3. [[count |-> c, linked |-> l] EXCEPT !.linked = m] = [count |-> c, linked |-> m]
    OBVIOUS
  <2>4. QED
    BY <1>2, <2>2, <2>3, Zenon
<1>5. /\ rows' \in [Users -> TripRow] /\ rows'[u] = [count |-> c, linked |-> m]
      /\ \A v \in Users \ {u} : rows'[v] = rows[v]
  BY <1>4 DEF TripTypes, TripRow
<1>6. PICK value : value = T!Loop(run[s].left, TRUE)
  OBVIOUS
<1>7. run[s].at = "link" /\ value.at = "next" /\ value.left \subseteq Users
  BY <1>6 DEF T!Link, T!Loop, TripTypes, TripStage, T!Idle
<1>8. DOMAIN run' = Schedules /\ \A r \in Schedules : run'[r] = IF r = s THEN value ELSE run[r]
  BY <1>6 DEF T!Link, T!Go, TripTypes
<1>9. UNCHANGED <<forms, asked, events, raced, tripFaults>>
  BY DEF T!Link
<1>10. ASSUME NEW v \in Users
       PROVE  Cardinality(rows'[v].linked) + Cardinality(Linking(v)') <= rows'[v].count
  <2>1. Cardinality(rows[v].linked) + Cardinality(Linking(v)) <= rows[v].count
    BY DEF TripTypes
  <2>2. IsFiniteSet(Linking(v)) /\ Cardinality(Linking(v)) \in Nat
    BY LinkingIsFinite
  <2>3. CASE v = u
    <3>1. s \in Linking(v) /\ s \notin Linking(v)' /\ Linking(v)' \subseteq Linking(v) \cup {s}
      BY <1>1, <1>7, <1>8, <2>3 DEF Linking
    <3>2. /\ Cardinality(Linking(v)') + 1 <= Cardinality(Linking(v))
          /\ Cardinality(Linking(v)') \in Nat
      BY <2>2, <3>1, OneMember
    <3>3. Cardinality(m) <= Cardinality(l) + 1 /\ Cardinality(m) \in Nat /\ Cardinality(l) \in Nat
      BY <1>3, LinkedIsFinite, OneMember
    <3>4. rows[v].linked = l /\ rows[v].count = c /\ rows'[v].linked = m /\ rows'[v].count = c
      BY <1>2, <1>5, <2>3
    <3>5. QED
      BY <2>1, <2>2, <3>2, <3>3, <3>4
  <2>4. CASE v # u
    <3>1. Linking(v)' = Linking(v)
      BY <1>1, <1>7, <1>8, <2>4 DEF Linking
    <3>2. QED
      BY <1>5, <2>1, <2>4, <3>1
  <2>5. QED
    BY <2>3, <2>4
<1>11. \A r \in Schedules : TripStage(r)'
  BY <1>7, <1>8 DEF TripTypes, TripStage
<1>12. QED
  BY <1>5, <1>8, <1>9, <1>10, <1>11 DEF TripTypes

LEMMA NewFormTypes ==
    ASSUME TripTypes, NEW u \in Users, T!NewForm(u)
    PROVE  /\ forms' \in [Users -> 0..MaxForms] /\ forms'[u] = forms[u] + 1
           /\ \A v \in Users \ {u} : forms'[v] = forms[v]
           /\ \A e \in events' : e \in T!Forms /\ e.number <= forms'[e.of]
<1>1. /\ forms \in [Users -> 0..MaxForms] /\ forms[u] < MaxForms
      /\ forms' = [forms EXCEPT ![u] = forms[u] + 1]
      /\ events' = events \cup {[of |-> u, number |-> forms'[u]]}
      /\ MaxForms \in Nat
  BY PartsAssumption DEF TripTypes, T!NewForm
<1>2. /\ forms' \in [Users -> 0..MaxForms] /\ forms'[u] = forms[u] + 1
      /\ \A v \in Users \ {u} : forms'[v] = forms[v]
  BY <1>1
<1>3. ASSUME NEW e \in events'
      PROVE  e \in T!Forms /\ e.number <= forms'[e.of]
  <2>1. CASE e \in events
    BY <1>1, <1>2, <2>1 DEF TripTypes, T!Forms
  <2>2. CASE e = [of |-> u, number |-> forms'[u]]
    BY <1>1, <1>2, <2>2 DEF T!Forms
  <2>3. QED
    BY <1>1, <2>1, <2>2
<1>4. QED
  BY <1>2, <1>3

LEMMA TripTypesHold ==
    ASSUME TripTypes, [T!Next]_T!vars
    PROVE  TripTypes'
<1>1. CASE UNCHANGED T!vars
  BY <1>1 DEF T!vars, TripTypes, TripStage, Linking
<1>2. ASSUME NEW s \in Schedules, T!Start(s) \/ T!End(s) \/ T!Throws(s)
      PROVE  TripTypes'
  <2>1. \/ run' = [run EXCEPT ![s] = T!Loop(Users, FALSE)]
        \/ run' = [run EXCEPT ![s] = T!Idle]
    BY <1>2 DEF T!Start, T!End, T!Throws, T!Go
  <2>2. OnlyMoves(s) /\ TripStage(s)' /\ run'[s].at \in {"idle", "next"}
    BY <2>1 DEF OnlyMoves, TripStage, TripTypes, T!Loop, T!Idle
  <2>3. UNCHANGED <<rows, forms, asked, events, raced, tripFaults>>
    BY <1>2 DEF T!Start, T!End, T!Throws
  <2>4. QED
    BY <2>2, <2>3, MoveKeepsTypes DEF TripTypes
<1>3. ASSUME NEW s \in Schedules, NEW u \in Users, T!Look(s, u)
      PROVE  TripTypes'
  <2>1. /\ run[s].at = "next" /\ run[s].left \subseteq Users
        /\ raced' \subseteq Users /\ UNCHANGED <<rows, forms, asked, events, tripFaults>>
    BY <1>3 DEF T!Look, TripTypes, TripStage, T!Idle
  <2>2. \/ run' = [run EXCEPT ![s] = T!Loop(run[s].left \ {u}, TRUE)]
        \/ run' = [run EXCEPT ![s] = T!At(s, "make", u)]
    BY <1>3 DEF T!Look, T!Go
  <2>3. OnlyMoves(s) /\ TripStage(s)' /\ run'[s].at \in {"next", "make"}
    BY <2>1, <2>2 DEF OnlyMoves, TripStage, TripTypes, T!Loop, T!At
  <2>4. QED
    BY <2>1, <2>3, MoveKeepsTypes DEF TripTypes
<1>4. ASSUME NEW s \in Schedules, T!CallRemote(s)
      PROVE  TripTypes'
  <2>1. PICK u \in Users : u = run[s].user /\ run[s].at = "call" /\ run[s].left \subseteq Users
    BY <1>4 DEF T!CallRemote, TripTypes, TripStage, T!Idle
  <2>2. CASE u \in Visitors
    <3>1. /\ run' = [run EXCEPT ![s] = T!Loop(run[s].left, TRUE)]
          /\ UNCHANGED <<rows, forms, asked, events, raced, tripFaults>>
      BY <1>4, <2>1, <2>2 DEF T!CallRemote, T!Go
    <3>2. OnlyMoves(s) /\ TripStage(s)' /\ run'[s].at = "next"
      BY <2>1, <3>1 DEF OnlyMoves, TripStage, TripTypes, T!Loop
    <3>3. QED
      BY <3>1, <3>2, MoveKeepsTypes DEF TripTypes
  <2>3. CASE u \notin Visitors
    <3>1. PICK n : n = forms[u] + 1
      OBVIOUS
    <3>2. PICK v : v = [at |-> "link", left |-> run[s].left, midnight |-> TRUE,
                        user |-> u, form |-> n]
      OBVIOUS
    <3>3. run' = [run EXCEPT ![s] = v]
      BY <1>4, <2>1, <2>3, <3>1, <3>2, Zenon DEF T!CallRemote, T!Go
    <3>4. /\ T!NewForm(u) /\ asked' = [asked EXCEPT ![u] = asked[u] + 1]
          /\ UNCHANGED <<rows, raced, tripFaults>>
      BY <1>4, <2>1, <2>3 DEF T!CallRemote
    <3>5. /\ forms' \in [Users -> 0..MaxForms] /\ forms'[u] = n
          /\ \A w \in Users \ {u} : forms'[w] = forms[w]
          /\ \A e \in events' : e \in T!Forms /\ e.number <= forms'[e.of]
          /\ forms[u] \in Nat /\ n \in 1..MaxForms
      <4>1. forms[u] \in Nat /\ n <= MaxForms
        BY <3>1, <3>4, PartsAssumption DEF T!NewForm, TripTypes
      <4>2. QED
        BY <3>1, <3>4, <4>1, NewFormTypes, PartsAssumption
    <3>6. v.at = "link" /\ v.left \subseteq Users /\ v.user = u /\ v.form = n
      BY <2>1, <3>2
    <3>7. OnlyMoves(s) /\ run'[s] = v
      BY <3>3 DEF OnlyMoves, TripTypes
    <3>8. TripStage(s)'
      BY <3>5, <3>6, <3>7 DEF TripStage
    <3>9. asked' \in [Users -> Nat] /\ \A w \in Users : asked'[w] <= forms'[w]
      BY <3>1, <3>4, <3>5 DEF TripTypes
    <3>10. QED
      BY <2>1, <3>4, <3>5, <3>6, <3>7, <3>8, <3>9, MoveKeepsTypes DEF TripTypes
  <2>4. QED
    BY <2>2, <2>3
<1>5. ASSUME NEW s \in Schedules, T!RunFails(s)
      PROVE  TripTypes'
  <2>1. /\ run' = [run EXCEPT ![s] = T!Idle] /\ UNCHANGED <<rows, raced>>
        /\ tripFaults' \in 0..MaxFaults
    BY <1>5, FaultAssumption DEF T!RunFails, T!Go, TripTypes
  <2>2. OnlyMoves(s) /\ TripStage(s)' /\ run'[s].at = "idle"
    BY <2>1 DEF OnlyMoves, TripStage, TripTypes, T!Idle
  <2>3. CASE UNCHANGED <<forms, asked, events>>
    BY <2>1, <2>2, <2>3, MoveKeepsTypes DEF TripTypes
  <2>4. CASE /\ run[s].at = "call" /\ T!NewForm(run[s].user)
             /\ asked' = [asked EXCEPT ![run[s].user] = @ + 1]
    <3>1. PICK u \in Users : u = run[s].user
      BY <2>4 DEF TripTypes, TripStage, T!Idle
    <3>2. T!NewForm(u) /\ asked' = [asked EXCEPT ![u] = asked[u] + 1]
      BY <2>4, <3>1
    <3>3. /\ forms' \in [Users -> 0..MaxForms] /\ forms'[u] = forms[u] + 1
          /\ \A w \in Users \ {u} : forms'[w] = forms[w]
          /\ \A e \in events' : e \in T!Forms /\ e.number <= forms'[e.of]
      BY <3>2, NewFormTypes
    <3>4. asked' \in [Users -> Nat] /\ \A w \in Users : asked'[w] <= forms'[w]
      BY <3>2, <3>3 DEF TripTypes
    <3>5. QED
      BY <2>1, <2>2, <3>3, <3>4, MoveKeepsTypes DEF TripTypes
  <2>5. QED
    BY <1>5, <2>3, <2>4 DEF T!RunFails
<1>6. ASSUME NEW u \in Users, T!UserMakesForm(u)
      PROVE  TripTypes'
  <2>1. /\ forms' \in [Users -> 0..MaxForms] /\ forms'[u] = forms[u] + 1
        /\ \A w \in Users \ {u} : forms'[w] = forms[w]
        /\ \A e \in events' : e \in T!Forms /\ e.number <= forms'[e.of]
    BY <1>6, NewFormTypes DEF T!UserMakesForm
  <2>2. UNCHANGED <<rows, asked, run, raced, tripFaults>>
    BY <1>6 DEF T!UserMakesForm
  <2>3. \A w \in Users : asked'[w] <= forms'[w]
    BY <2>1, <2>2 DEF TripTypes
  <2>4. QED
    BY <2>1, <2>2, <2>3 DEF TripTypes, TripStage, Linking
<1>7. ASSUME NEW e \in events, T!DataProcess(e)
      PROVE  TripTypes'
  <2>1. /\ UNCHANGED <<forms, asked, run, raced, tripFaults>>
        /\ \A f \in events' : f \in events
    BY <1>7 DEF T!DataProcess
  <2>2. CASE UNCHANGED rows
    BY <2>1, <2>2 DEF TripTypes, TripStage, Linking
  <2>3. CASE T!Add(e.of, {e.number})
    <3>1. PICK u \in Users, new \in SUBSET (1..MaxForms) : u = e.of /\ new = {e.number}
      BY DEF TripTypes, T!Forms
    <3>2. /\ rows' \in [Users -> TripRow]
          /\ \A v \in Users \ {u} : rows'[v] = rows[v]
          /\ rows'[u].count = rows[u].count + 1
          /\ Cardinality(rows'[u].linked) <= Cardinality(rows[u].linked) + 1
      BY <2>3, <3>1, AddTypes
    <3>3. ASSUME NEW v \in Users
          PROVE  Cardinality(rows'[v].linked) + Cardinality(Linking(v)') <= rows'[v].count
      <4>1. Linking(v)' = Linking(v)
        BY <2>1 DEF Linking
      <4>2. /\ Cardinality(rows[v].linked) + Cardinality(Linking(v)) <= rows[v].count
            /\ rows[v].linked \in SUBSET (1..MaxForms) /\ rows[v].count \in Nat
            /\ rows'[v].linked \in SUBSET (1..MaxForms)
        BY <3>2 DEF TripTypes, TripRow
      <4>3. /\ Cardinality(rows[v].linked) \in Nat /\ Cardinality(Linking(v)) \in Nat
            /\ Cardinality(rows'[v].linked) \in Nat
        BY <4>2, LinkedIsFinite, LinkingIsFinite
      <4>4. CASE v = u
        BY <3>2, <4>1, <4>2, <4>3, <4>4
      <4>5. CASE v # u
        BY <3>2, <4>1, <4>2, <4>5
      <4>6. QED
        BY <4>4, <4>5
    <3>4. QED
      BY <2>1, <3>2, <3>3 DEF TripTypes, TripStage
  <2>4. QED
    BY <1>7, <2>2, <2>3 DEF T!DataProcess
<1>8. QED
  BY <1>1, <1>2, <1>3, <1>4, <1>5, <1>6, <1>7, MakeKeepsTypes, LinkKeepsTypes
     DEF T!Next, T!Proceeds

-----------------------------------------------------------------------------
(* The parts together *)

(* A step of one part is a step or a rest of each: they share no state.    *)
LEMMA PartsTakeTurns ==
    ASSUME [PartsNext]_allVars
    PROVE  /\ [Next]_vars /\ [D!Next]_(D!vars) /\ [P!Next]_(P!vars)
           /\ [A!Next]_(A!vars) /\ [T!Next]_(T!vars) /\ [AgentNext]_agentVars
           /\ [ResolverNext]_resolverVars /\ [NormalizationNext]_normalVars
<1>1. /\ UNCHANGED dVars => UNCHANGED D!vars
      /\ UNCHANGED pVars => UNCHANGED P!vars
      /\ UNCHANGED aVars => UNCHANGED A!vars
      /\ UNCHANGED tVars => UNCHANGED T!vars
  BY DEF dVars, pVars, aVars, tVars, D!vars, D!base, D!cache, P!vars, P!row, A!vars, T!vars
<1>2. CASE LimiterStep
  BY <1>1, <1>2, Zenon DEF LimiterStep, Rest1
<1>3. CASE CacheStep
  BY <1>1, <1>3, Zenon DEF CacheStep, Rest2
<1>4. CASE PlanStep
  BY <1>1, <1>4, Zenon DEF PlanStep, Rest2
<1>5. CASE LoginStep
  BY <1>1, <1>5, Zenon DEF LoginStep, Rest2
<1>6. CASE TripStep
  BY <1>1, <1>6, Zenon DEF TripStep, Rest2
<1>7. CASE AgentStep
  BY <1>1, <1>7, Zenon DEF AgentStep, Rest1
<1>8. CASE ResolverStep
  BY <1>1, <1>8, Zenon DEF ResolverStep, Rest1
<1>9. CASE NormalStep
  BY <1>1, <1>9, Zenon DEF NormalStep, Rest1
<1>10. CASE UNCHANGED allVars
  BY <1>1, <1>10, Zenon DEF allVars
<1>11. QED
  BY <1>2, <1>3, <1>4, <1>5, <1>6, <1>7, <1>8, <1>9, <1>10 DEF PartsNext

PartsTypes ==
    /\ RateInv /\ CacheTypes /\ PlanTypes /\ LoginTypes /\ TripTypes
    /\ Typed /\ Resolving /\ PlacesInv

(* Whatever part a behaviour is one of, every variable of the eight keeps  *)
(* to its type: the specification all properties of the parts are checked  *)
(* of.                                                                     *)
THEOREM PartsAreTyped == PartsSpec => []TypesOK
<1>1. PartsInit => PartsTypes
  BY RateInit, CacheTypesBegin, PlanTypesBegin, LoginTypesBegin, TripTypesBegin,
     InitTold, ResolvingInit, InitPlaces DEF PartsInit, PartsTypes, ToldInv
<1>2. PartsTypes /\ [PartsNext]_allVars => PartsTypes'
  BY PartsTakeTurns, RateStep, CacheTypesHold, PlanTypesHold, LoginTypesHold,
     TripTypesHold, TypesKept, ResolvingStep, NextPlaces DEF PartsTypes
<1>3. PartsTypes => TypesOK
  <2>1. PlacesInv => NormalizationTypeOK
    BY DEF PlacesInv, Shape, AwaitInv, NormalizationTypeOK
  <2>2. Resolving => ResolverTypeOK
    BY DEF Resolving
  <2>3. QED
    BY <2>1, <2>2, CacheTyped, PlanTyped, LoginTyped, TripTyped
       DEF PartsTypes, TypesOK, RateInv, Typed
<1>4. QED
  BY <1>1, <1>2, <1>3, PTL DEF PartsSpec

(* No part disturbs another: what is proved of each alone holds of the     *)
(* specification that is checked.                                          *)
THEOREM PartsAreSafe ==
    PartsSpec => /\ [](/\ NamedLimitHolds /\ EndIsTold /\ DecisionsHold /\ FieldsArePlaced
                       /\ CurrentOfItsVersion /\ RepeatIsNotRefused /\ AskedOnce)
                 /\ OneCall => NormalizedIsWhole
<1>. DEFINE PartsInv == CacheInv /\ LoginInv /\ TripInv
<1>1. PartsInit => Init /\ AgentInit /\ ResolverInit /\ NormalizationInit
  BY DEF PartsInit
<1>2. [PartsNext]_allVars => /\ [Next]_vars /\ [AgentNext]_agentVars
                             /\ [ResolverNext]_resolverVars /\ [NormalizationNext]_normalVars
  BY PartsTakeTurns
<1>3. PartsSpec => [](NamedLimitHolds /\ EndIsTold /\ DecisionsHold /\ FieldsArePlaced)
  BY <1>1, <1>2, NamedLimitIsKept, EveryEndIsTold, EveryDecisionHolds, EveryFieldIsPlaced,
     PTL DEF PartsSpec, Spec, AgentSpec, ResolverSpec, NormalizationSpec
<1>4. PartsInit => PartsInv
  BY CacheBegins, LoginBegins, TripBegins DEF PartsInit
<1>5. PartsInv /\ [PartsNext]_allVars => PartsInv'
  BY PartsTakeTurns, CacheStepHolds, LoginStepHolds, TripStepHolds
<1>6. PartsInv => CurrentOfItsVersion /\ RepeatIsNotRefused /\ AskedOnce
  BY DEF CacheInv, CurrentOfItsVersion, LoginInv, CodeInv, RepeatIsNotRefused,
     A!RepeatIsNotRefused, TripInv, AskedOnce
<1>7. ASSUME OneCall PROVE PartsSpec => NormalizedIsWhole
  <2>1. PartsInit => IPlan
    BY <1>7, PlanBegins DEF PartsInit
  <2>2. IPlan /\ [PartsNext]_allVars => IPlan'
    BY PartsTakeTurns, PlanStepHolds
  <2>3. IPlan /\ [PartsNext]_allVars =>
            [P!Settles => (extracted = Items /\ P!AnsweredOrLost)']_P!vars
    BY PartsTakeTurns, PlanStepIsWhole
  <2>4. QED
    BY <2>1, <2>2, <2>3, PTL DEF PartsSpec, NormalizedIsWhole, P!NormalizedIsWhole
<1>8. PartsSpec => (OneCall => NormalizedIsWhole)
  BY <1>7
<1>. HIDE DEF PartsInv
<1>9. QED
  BY <1>3, <1>4, <1>5, <1>6, <1>8, PTL DEF PartsSpec
=============================================================================
