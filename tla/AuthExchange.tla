---------------------------- MODULE AuthExchange ----------------------------
(***************************************************************************)
(* The exchange of a WeCom authorization code for a token                  *)
(* (services/authService.ts).  WeCom accepts a code once; browsers send it *)
(* again.  A result is kept for a while, requests with a code that is      *)
(* being exchanged wait for that exchange, and both maps have a limit.     *)
(*                                                                         *)
(* Abstractions.  Client and code are one key.  The tokens of one code are *)
(* not told apart.  Results are kept equally long, so that they expire in  *)
(* the order in which they were stored.                                    *)
(***************************************************************************)
EXTENDS Naturals, Sequences, FiniteSets, SequencesExt

CONSTANTS
    Logins,     \* requests that can be under way at once
    Codes,      \* cacheKey
    MaxCache,   \* MAX_WECHAT_EXCHANGE_CACHE_KEYS
    MaxPending, \* MAX_PENDING_WECHAT_EXCHANGES
    MaxFaults   \* bound on failed calls of WeCom and of the database

VARIABLES
    cache,   \* keys of wechatExchangeCache, the oldest first
    old,     \* how many of them are past expiresAt: the oldest are so first
    pending, \* stage of each exchange of pendingWechatExchanges
    login,   \* the code each request waits for
    spent,   \* codes WeCom has accepted
    lost,    \* codes whose result failed, expired or was dropped
    faults

vars == <<cache, old, pending, login, spent, lost, faults>>

None    == "none"
Answers == {"token", "invalid", "unavailable"}
Pending == {k \in Codes : pending[k] # None}

TypeOK ==
    /\ cache \in Seq(Codes) /\ IsInjective(cache) /\ Len(cache) <= MaxCache + 1
    /\ old \in 0..Len(cache)
    /\ pending \in [Codes -> {None, "ask", "store", "keep"} \cup Answers]
    /\ Cardinality(Pending) <= MaxPending
    /\ login \in [Logins -> {None} \cup Codes]
    /\ spent \subseteq Codes /\ lost \subseteq Codes
    /\ faults \in 0..MaxFaults

Init ==
    /\ cache = <<>> /\ old = 0
    /\ pending = [k \in Codes |-> None]
    /\ login = [r \in Logins |-> None]
    /\ spent = {} /\ lost = {}
    /\ faults = 0

-----------------------------------------------------------------------------
(* exchangeWechatCode, up to its first await                               *)

Fresh(k) == \E i \in (old + 1)..Len(cache) : cache[i] = k

(* A result that has expired is deleted.                                   *)
Delete(k) ==
    \/ k \notin ToSet(cache) /\ UNCHANGED <<cache, old>>
    \/ \E i \in 1..old : cache[i] = k /\ cache' = RemoveAt(cache, i) /\ old' = old - 1

(* Mutant: an exchange that is under way is not looked for.                *)
ExchangedAnew(r, k) ==
    /\ ~Fresh(k)
    /\ Cardinality(Pending) < MaxPending
    /\ Delete(k)
    /\ login' = [login EXCEPT ![r] = k]
    /\ pending' = [pending EXCEPT ![k] = "ask"]

Exchanged(r, k) ==
    /\ ~Fresh(k)
    /\ Delete(k)
    /\ \/ /\ pending[k] # None
          /\ login' = [login EXCEPT ![r] = k]
          /\ UNCHANGED pending
       \/ /\ pending[k] = None /\ Cardinality(Pending) >= MaxPending
          /\ UNCHANGED <<login, pending>>
       \/ /\ pending[k] = None /\ Cardinality(Pending) < MaxPending
          /\ login' = [login EXCEPT ![r] = k]
          /\ pending' = [pending EXCEPT ![k] = "ask"]

(* A result that is kept is the answer; at the limit there is none but 429. *)
Login(r, k) ==
    /\ login[r] = None
    /\ Exchanged(r, k)
    /\ UNCHANGED <<spent, lost, faults>>

-----------------------------------------------------------------------------
(* exchangeWechatCodeOnce *)

To(k, stage) == pending' = [pending EXCEPT ![k] = stage]

(* getUserInfo                                                             *)
Ask(k) ==
    /\ pending[k] = "ask"
    /\ To(k, IF k \in spent THEN "invalid" ELSE "store")
    /\ spent' = spent \cup {k}
    /\ UNCHANGED <<cache, old, login, lost, faults>>

(* The user is found or stored, and the token made.                        *)
Store(k) ==
    /\ pending[k] = "store"
    /\ To(k, "keep")
    /\ UNCHANGED <<cache, old, login, spent, lost, faults>>

(* WeCom cannot be reached or its answer is lost; the database fails.      *)
Fails(k) ==
    /\ pending[k] \in {"ask", "store"}
    /\ faults < MaxFaults /\ faults' = faults + 1
    /\ To(k, "unavailable")
    /\ spent' \in {spent, spent \cup {k}}
    /\ lost' = lost \cup (spent' \cap {k})
    /\ UNCHANGED <<cache, old, login>>

(* pruneWechatExchangeCache: what has expired goes, then the oldest.       *)
Gone == IF Len(cache) - MaxCache > old THEN Len(cache) - MaxCache ELSE old

Pruned  == SubSeq(cache, Gone + 1, Len(cache))
Dropped == {cache[i] : i \in 1..Gone}

(* then: the result is kept, ...                                           *)
Keep(k) ==
    /\ pending[k] = "keep"
    /\ cache' = Append(Pruned, k)
    /\ old' = 0
    /\ lost' = lost \cup Dropped
    /\ To(k, "token")
    /\ UNCHANGED <<login, spent, faults>>

(* Mutant: only an exchange that succeeds is taken out of the map.         *)
FinallyKept(k) ==
    /\ pending[k] = "token"
    /\ To(k, None)
    /\ login' = [r \in Logins |-> IF login[r] = k THEN None ELSE login[r]]
    /\ UNCHANGED <<cache, old, spent, lost, faults>>

(* ... finally: the exchange is over and all that wait are answered.       *)
Finally(k) ==
    /\ pending[k] \in Answers
    /\ To(k, None)
    /\ login' = [r \in Logins |-> IF login[r] = k THEN None ELSE login[r]]
    /\ UNCHANGED <<cache, old, spent, lost, faults>>

(* WECHAT_EXCHANGE_CACHE_TTL_MS is over for one more result, ...           *)
Expire ==
    /\ old < Len(cache)
    /\ old' = old + 1
    /\ lost' = lost \cup {cache[old + 1]}
    /\ UNCHANGED <<cache, pending, login, spent, faults>>

(* ... and the timer prunes now and then.                                  *)
CleanUp ==
    /\ Gone > 0
    /\ cache' = Pruned /\ old' = 0
    /\ lost' = lost \cup Dropped
    /\ UNCHANGED <<pending, login, spent, faults>>

Exchange(k) == Ask(k) \/ Store(k) \/ Keep(k) \/ Finally(k)

Next ==
    \/ \E r \in Logins, k \in Codes : Login(r, k)
    \/ \E k \in Codes : Exchange(k) \/ Fails(k)
    \/ Expire \/ CleanUp

(* WeCom and the database answer.                                          *)
Fairness == \A k \in Codes : WF_vars(Exchange(k))

Spec == Init /\ [][Next]_vars /\ Fairness

-----------------------------------------------------------------------------
(* Correctness properties *)

(* A code WeCom accepted is never refused to a browser that sends it again *)
(* while its result is neither expired, nor dropped to keep the limit, nor *)
(* lost by a failure.                                                      *)
RepeatIsNotRefused == \A k \in Codes : pending[k] = "invalid" => k \in lost

(* Every request that waits for an exchange is answered: none waits on.    *)
LoginIsAnswered == \A r \in Logins : []<>(login[r] = None)
=============================================================================
