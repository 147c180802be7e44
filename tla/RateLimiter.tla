---------------------------- MODULE RateLimiter ----------------------------
(***************************************************************************)
(* The token buckets of one instance (internal/middleware/middleware.go):  *)
(* one per user on the authenticated routes, one per client address on the *)
(* sale route as well, each kept in a go-cache whose entries expire TTL    *)
(* after they were written, used or not.  Requests look up, create, add    *)
(* and look up again without a lock around the four steps.                 *)
(*                                                                         *)
(* Time is discrete.  Tokens come once per tick; the history variables     *)
(* ideal and credit say what the configured rate permits.                  *)
(***************************************************************************)
EXTENDS Integers, FiniteSets, Functions

CONSTANTS
    Users, Ips,
    Requests,             \* goroutines that serve requests
    Limiters,             \* identities of rate.Limiter objects
    None,
    UserRps, UserBurst,   \* ratelimit.user.*, 0 where it is not set
    IpRps, IpBurst,       \* ratelimit.ip.*
    TTL,                  \* ticks an entry lives
    MaxLives              \* how many entries may expire in all

Keys == Users \cup Ips

ASSUME KeysAssumption    == Users \cap Ips = {} /\ None \notin Keys \cup Limiters
ASSUME ConfigAssumption  == {UserRps, UserBurst, IpRps, IpBurst} \subseteq Int
ASSUME FiniteAssumption  == IsFiniteSet(Keys) /\ IsFiniteSet(Requests)
ASSUME TTLAssumption     == TTL \in Nat \ {0} /\ MaxLives \in Nat

VARIABLES
    bucket,    \* by key: the limiter in the cache, or None
    left,      \* by key: ticks until its entry expires
    tokens,    \* by limiter: whole tokens
    owner,     \* by limiter: the key it was created for
    at,        \* by request: the step it is at
    route,     \* by request: the keys it still has to pass
    key,       \* by request: the key it is at
    holds,     \* by request: the limiter it has in hand
    lives,     \* expired entries so far
    sameLife,  \* requests whose limiter came from the entry that is there now
    ideal,     \* by key: an ideal bucket that is never replaced
    credit     \* by key: an ideal bucket that is full again when the entry expires

requests == <<at, route, key, holds>>
history  == <<lives, sameLife, ideal, credit>>
vars     == <<bucket, left, tokens, owner, requests, history>>

Steps == {"idle", "get", "create", "getAgain", "allow", "refused"}

(* Every variable has the values the code can give it; a bucket never owes *)
(* a token.                                                                *)
TypeOK ==
    /\ bucket \in [Keys -> Limiters \cup {None}]
    /\ left \in [Keys -> 0 .. TTL]
    /\ tokens \in [Limiters -> Nat]
    /\ owner \in [Limiters -> Keys \cup {None}]
    /\ at \in [Requests -> Steps]
    /\ route \in [Requests -> SUBSET Ips]
    /\ key \in [Requests -> Keys \cup {None}]
    /\ holds \in [Requests -> Limiters \cup {None}]
    /\ lives \in Nat
    /\ sameLife \subseteq Requests
    /\ ideal \in [Keys -> Int]
    /\ credit \in [Keys -> Int]

(* A setting that is missing or not positive falls back to its default.    *)
Configured(value, default) == IF value > 0 THEN value ELSE default

Rate(k)  == IF k \in Users THEN Configured(UserRps, 2) ELSE Configured(IpRps, 10)
Burst(k) == IF k \in Users THEN Configured(UserBurst, 3) ELSE Configured(IpBurst, 20)

Init ==
    /\ bucket = [k \in Keys |-> None]
    /\ left = [k \in Keys |-> 0]
    /\ tokens = [l \in Limiters |-> 0]
    /\ owner = [l \in Limiters |-> None]
    /\ at = [r \in Requests |-> "idle"]
    /\ route = [r \in Requests |-> {}]
    /\ key = [r \in Requests |-> None]
    /\ holds = [r \in Requests |-> None]
    /\ lives = 0
    /\ sameLife = {}
    /\ ideal = [k \in Keys |-> Burst(k)]
    /\ credit = [k \in Keys |-> Burst(k)]

-----------------------------------------------------------------------------
(* A request of user u on an authenticated route; the sale route has the   *)
(* address limiter behind the user limiter.  Both are enabled.             *)
Begin(r) ==
    /\ at[r] \in {"idle", "refused"}
    /\ \E u \in Users, behind \in {{}} \cup {{ip} : ip \in Ips} :
          /\ key' = [key EXCEPT ![r] = u]
          /\ route' = [route EXCEPT ![r] = behind]
    /\ at' = [at EXCEPT ![r] = "get"]
    /\ UNCHANGED <<bucket, left, tokens, owner, holds, history>>

(* Take the limiter of the entry that is there now.                        *)
TakeEntry(r) ==
    /\ holds' = [holds EXCEPT ![r] = bucket[key[r]]]
    /\ sameLife' = sameLife \cup {r}
    /\ at' = [at EXCEPT ![r] = "allow"]

(* getLimiterFromCache, the first Get.                                     *)
Get(r) ==
    /\ at[r] = "get"
    /\ \/ bucket[key[r]] # None /\ TakeEntry(r)
       \/ bucket[key[r]] = None /\ at' = [at EXCEPT ![r] = "create"]
                                /\ UNCHANGED <<holds, sameLife>>
    /\ UNCHANGED <<bucket, left, tokens, owner, route, key, lives, ideal, credit>>

(* Objects nobody has a reference to.                                      *)
Unused == Limiters \ (Range(bucket) \cup Range(holds))

(* Mistake: Set in place of Add: the last creator wins.                    *)
SetEntry(k, l) ==
    /\ bucket' = [bucket EXCEPT ![k] = l]
    /\ left' = [left EXCEPT ![k] = TTL]

(* Cache.Add: only where there is no entry that has not expired.           *)
AddEntry(k, l) ==
    IF bucket[k] # None
    THEN UNCHANGED <<bucket, left>>
    ELSE /\ bucket' = [bucket EXCEPT ![k] = l]
         /\ left' = [left EXCEPT ![k] = TTL]

(* Mistake: the arguments of NewLimiter are swapped.                       *)
FullSwapped(k) == Rate(k)

(* What a new limiter holds.                                               *)
Full(k) == Burst(k)

(* NewLimiter and Add.                                                     *)
Create(r) ==
    /\ at[r] = "create"
    /\ \E l \in Unused :
          /\ tokens' = [tokens EXCEPT ![l] = Full(key[r])]
          /\ owner' = [owner EXCEPT ![l] = key[r]]
          /\ holds' = [holds EXCEPT ![r] = l]
          /\ AddEntry(key[r], l)
    /\ at' = [at EXCEPT ![r] = "getAgain"]
    /\ UNCHANGED <<route, key, history>>

(* The second Get; a limiter of its own only when the entry expired again. *)
GetAgain(r) ==
    /\ at[r] = "getAgain"
    /\ \/ bucket[key[r]] # None /\ TakeEntry(r)
       \/ bucket[key[r]] = None /\ at' = [at EXCEPT ![r] = "allow"]
                                /\ UNCHANGED <<holds, sameLife>>
    /\ UNCHANGED <<bucket, left, tokens, owner, route, key, lives, ideal, credit>>

(* Mistake: the request passes before the tokens are looked at.            *)
HasTokenAlways(l) == TRUE

HasToken(l) == tokens[l] > 0

Drop(r) ==
    /\ holds' = [holds EXCEPT ![r] = None]
    /\ sameLife' = sameLife \ {r}

(* limiter.Allow, and c.Next: on to the address limiter, or to the handler.*)
Pass(r) ==
    /\ at[r] = "allow" /\ HasToken(holds[r])
    /\ tokens' = [tokens EXCEPT ![holds[r]] = @ - 1]
    /\ ideal' = [ideal EXCEPT ![key[r]] = @ - 1]
    /\ credit' = IF r \in sameLife THEN [credit EXCEPT ![key[r]] = @ - 1] ELSE credit
    /\ \/ /\ route[r] = {}
          /\ at' = [at EXCEPT ![r] = "idle"]
          /\ key' = [key EXCEPT ![r] = None]
          /\ UNCHANGED route
       \/ \E ip \in route[r] :
          /\ at' = [at EXCEPT ![r] = "get"]
          /\ key' = [key EXCEPT ![r] = ip]
          /\ route' = [route EXCEPT ![r] = {}]
    /\ Drop(r)
    /\ UNCHANGED <<bucket, left, owner, lives>>

(* 429; what an earlier limiter of the request has taken is not put back.  *)
Refuse(r) ==
    /\ at[r] = "allow" /\ ~ HasToken(holds[r])
    /\ at' = [at EXCEPT ![r] = "refused"]
    /\ key' = [key EXCEPT ![r] = None]
    /\ route' = [route EXCEPT ![r] = {}]
    /\ Drop(r)
    /\ UNCHANGED <<bucket, left, tokens, owner, lives, ideal, credit>>

Refill(n, k) == LET m == n + Rate(k) IN IF m > Burst(k) THEN Burst(k) ELSE m

(* Mistake: tokens pile up while nobody asks for them.                     *)
ReplenishUncapped(l) == tokens[l] + Rate(owner[l])

(* What a limiter holds a tick later.                                      *)
Replenish(l) == Refill(tokens[l], owner[l])

(* A tick: every bucket is refilled, entries whose time is over are gone,  *)
(* whether or not somebody has used them; objects without a reference too. *)
Tick ==
    LET gone == {k \in Keys : bucket[k] # None /\ left[k] = 1} IN
    /\ lives + Cardinality(gone) <= MaxLives
    /\ lives' = lives + Cardinality(gone)
    /\ left' = [k \in Keys |-> IF left[k] > 0 THEN left[k] - 1 ELSE 0]
    /\ bucket' = [k \in Keys |-> IF k \in gone THEN None ELSE bucket[k]]
    /\ tokens' = [l \in Limiters |-> IF l \in Unused \/ owner[l] = None
                                     THEN 0 ELSE Replenish(l)]
    /\ owner' = [l \in Limiters |-> IF l \in Unused THEN None ELSE owner[l]]
    /\ ideal' = [k \in Keys |-> Refill(ideal[k], k)]
    /\ credit' = [k \in Keys |-> IF k \in gone THEN Burst(k) ELSE Refill(credit[k], k)]
    /\ sameLife' = {r \in sameLife : key[r] \notin gone}
    /\ UNCHANGED requests

Serve(r) == Begin(r) \/ Get(r) \/ Create(r) \/ GetAgain(r) \/ Pass(r) \/ Refuse(r)

Next == Tick \/ \E r \in Requests : Serve(r)

Spec == Init /\ [][Next]_vars

-----------------------------------------------------------------------------
(* However many requests create the bucket at the same time, from one      *)
(* expiry to the next they pass at most at the configured rate and burst   *)
(* ("Add 仅在 Key 不存在时写入，保证并发安全", middleware.go:66).  Requests    *)
(* that took their limiter from an earlier entry are not counted.          *)
RateKeptInLife == \A k \in Keys : credit[k] >= 0

(* Nobody is refused who has kept to the rate: not when buckets expire,    *)
(* not when several are created, not because of what others do.            *)
RefusedOnlyOverRate ==
    [][\A r \in Requests :
          at[r] = "allow" /\ at'[r] = "refused" => ideal[key[r]] < 1]_vars

(* The same over any stretch of time and for all requests: each entry that *)
(* expired may have cost one burst, and one request more of every goroutine*)
(* that still had the old limiter in hand.                                 *)
ExcessBounded ==
    \A k \in Keys : ideal[k] >= 0 - lives * (Burst(k) + Cardinality(Requests))
=============================================================================
