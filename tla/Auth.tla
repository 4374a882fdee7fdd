---------------------------------- MODULE Auth ----------------------------------
(***************************************************************************)
(* How a service (a validator) gets through to the API server.  A call     *)
(* takes its access token from a cache; if there is none, it asks Vault    *)
(* for its accessor and signs in at the API server, which asks Vault, with *)
(* a Vault token of its own, for the role and the accessor, and signs a    *)
(* JWT.  The guard of the API server checks the JWT of every request.      *)
(*                                                                         *)
(* Both caches (the JWT of the service, the Vault token of the server) are *)
(* emptied by timers, one per token ever stored, which do not look at what *)
(* is stored; and nothing keeps two calls from signing in at a time.       *)
(***************************************************************************)
EXTENDS Integers, FiniteSets, FiniteSetsExt

CONSTANTS
    Callers,        \* calls of the service that may run at a time
    Outdated,       \* those that send another x-version
    Life,           \* life of a JWT: kJWTExpiresIn
    Margin,         \* a JWT is dropped this long before its end
    Lease,          \* lease of a Vault token
    LeaseMargin,    \* a Vault token is dropped this long before its end,
    Refresh,        \* and in any case after this long
    Retries,        \* of fastRetry
    MaxTime,        \* bound: the clock
    MaxFaults       \* bound: requests that fail by themselves

ASSUME AuthConstants ==
    /\ Outdated \subseteq Callers
    /\ Life \in Nat /\ Margin \in Nat /\ Margin < Life
    /\ Lease \in Nat /\ LeaseMargin \in Nat /\ LeaseMargin < Lease
    /\ Refresh \in Nat \ {0} /\ Retries \in Nat
    /\ MaxTime \in Nat /\ MaxFaults \in Nat

Times == 0..(MaxTime + Life + Lease)

(* A token of either kind: when it ends, and when it was stored.           *)
Tokens == [exp : Times, stored : Times]

VARIABLES
    now,        \* the clock
    cache,      \* cache of the service: at most one JWT
    timers,     \* when its eviction timers fire
    vault,      \* vaultService.token of the API server: at most one
    clears,     \* when the timers that clear it fire
    call,       \* the calls
    slow,       \* Vault's answer to a login took too long (history)
    faults      \* failed requests so far

vars == <<now, cache, timers, vault, clears, call, slow, faults>>

(* at: where the call is; left: attempts left; token: the JWT, or the      *)
(* Vault token being fetched; got: when the JWT was handed to the call;    *)
(* lost: how often the server's Vault token was cleared in the meantime.   *)
Calls == [at : {"idle", "vault", "login", "vaultLogin", "granted", "role",
                "accessor", "signed", "send", "ok", "forbidden", "refused", "failed"},
          left : 0..Retries, token : Tokens, got : Times, lost : Nat]
NoToken == [exp |-> 0, stored |-> 0]
Idle == [at |-> "idle", left |-> Retries, token |-> NoToken, got |-> 0, lost |-> 0]

TypeOK ==
    /\ now \in 0..MaxTime
    /\ cache \subseteq Tokens /\ Cardinality(cache) <= 1
    /\ vault \subseteq Tokens /\ Cardinality(vault) <= 1
    /\ timers \subseteq Times /\ clears \subseteq Times
    /\ call \in [Callers -> Calls]
    /\ slow \in BOOLEAN /\ faults \in 0..MaxFaults

Init ==
    /\ now = 0
    /\ cache = {} /\ timers = {} /\ vault = {} /\ clears = {}
    /\ call = [r \in Callers |-> Idle]
    /\ slow = FALSE /\ faults = 0

At(r, place) == call[r].at = place
Go(r, place) == call' = [call EXCEPT ![r].at = place]

(* An attempt failed: fastRetry begins again with the cache, or gives up.  *)
GivesUp(r) ==           \* altered form: there is no second attempt
    call' = [call EXCEPT ![r].at = "failed"]
AttemptFails(r) ==
    call' = [call EXCEPT ![r].at = IF call[r].left > 0 THEN "idle" ELSE "failed",
                         ![r].left = IF @ > 0 THEN @ - 1 ELSE 0,
                         ![r].token = NoToken]
-----------------------------------------------------------------------------
(* The service: AuthClientService and getAuthHeaders.                      *)

RequestAccessTokenCached(r) ==
    /\ At(r, "idle")
    /\ IF cache = {} THEN Go(r, "vault")
       ELSE \E t \in cache :
              call' = [call EXCEPT ![r].at = "send", ![r].token = t, ![r].got = now]
    /\ UNCHANGED <<now, cache, timers, vault, clears, slow, faults>>

(* The login at Vault and the look-up of role and accessor, with a Vault   *)
(* token that is seconds old.                                              *)
RequestAccessToken(r) ==
    /\ At(r, "vault")
    /\ Go(r, "login")
    /\ UNCHANGED <<now, cache, timers, vault, clears, slow, faults>>

CacheUntilExpired(exp) == exp - now      \* altered form: no margin
CacheDuration(exp) == Max({exp - now - Margin, 0})

(* The answer to the sign-in: the token is stored over any other.          *)
StoreToken(r) ==
    /\ At(r, "signed")
    /\ LET token == [call[r].token EXCEPT !.stored = now] IN
       /\ timers' = timers \cup {now + CacheDuration(token.exp)}
       /\ cache' = {token}
       /\ call' = [call EXCEPT ![r].at = "send", ![r].token = token, ![r].got = now]
    /\ UNCHANGED <<now, vault, clears, slow, faults>>

EvictToken ==
    /\ \E d \in timers : d <= now /\ timers' = timers \ {d}
    /\ cache' = {}
    /\ UNCHANGED <<now, vault, clears, call, slow, faults>>
-----------------------------------------------------------------------------
(* The API server: signIn and loginAppRoleIfNecessary.                     *)

SignIn(r) ==
    /\ At(r, "login")
    /\ Go(r, IF vault = {} THEN "vaultLogin" ELSE "role")
    /\ UNCHANGED <<now, cache, timers, vault, clears, slow, faults>>

(* Vault grants a token; its answer is on the way.                         *)
Grant(r) ==
    /\ At(r, "vaultLogin")
    /\ call' = [call EXCEPT ![r].at = "granted", ![r].token = [exp |-> now + Lease, stored |-> 0]]
    /\ UNCHANGED <<now, cache, timers, vault, clears, slow, faults>>

(* Altered form: the token is dropped at the end of its lease.             *)
ClearAtEnd == now + Lease
ClearAt == now + Min({Lease - LeaseMargin, Refresh})

LoginAppRole(r) ==
    /\ At(r, "granted")
    /\ LET end == call[r].token.exp IN
       /\ clears' = clears \cup {ClearAt}
       /\ vault' = {[exp |-> end, stored |-> now]}
       /\ slow' = (slow \/ now - (end - Lease) >= LeaseMargin)
       /\ call' = [call EXCEPT ![r].at = "role", ![r].token = NoToken]
    /\ UNCHANGED <<now, cache, timers, faults>>

ClearVaultToken ==
    /\ \E d \in clears : d <= now /\ clears' = clears \ {d}
    /\ vault' = {}
    /\ call' = [r \in Callers |->
                  IF vault # {} /\ ~At(r, "idle")
                  THEN [call[r] EXCEPT !.lost = Min({@ + 1, Retries + 1})] ELSE call[r]]
    /\ UNCHANGED <<now, cache, timers, slow, faults>>

(* Vault honours the token sent with a request, if there is one.           *)
Honoured == \E t \in vault : now < t.exp

ReadRole(r) ==
    /\ At(r, "role")
    /\ IF Honoured THEN Go(r, "accessor") ELSE AttemptFails(r)
    /\ UNCHANGED <<now, cache, timers, vault, clears, slow, faults>>

ReadSecretIDAccessor(r) ==
    /\ At(r, "accessor")
    /\ IF Honoured
       THEN call' = [call EXCEPT ![r].at = "signed",
                                 ![r].token = [exp |-> now + Life, stored |-> 0]]
       ELSE AttemptFails(r)
    /\ UNCHANGED <<now, cache, timers, vault, clears, slow, faults>>

(* A request to Vault or to the API server, or its answer, fails.  (A role *)
(* or an accessor that Vault does not know is such a failure too: the      *)
(* client library throws at status 404, so that the tests of signIn for an *)
(* empty answer never hold.)                                               *)
SignInFails(r) ==
    /\ call[r].at \in {"vault", "login", "vaultLogin", "granted", "role", "accessor", "signed"}
    /\ faults < MaxFaults /\ faults' = faults + 1
    /\ AttemptFails(r)
    /\ UNCHANGED <<now, cache, timers, vault, clears, slow>>

(* AuthGuard.                                                              *)
CanActivate(r) ==
    /\ At(r, "send")
    /\ call' = [call EXCEPT ![r] = [Idle EXCEPT !.at =
                  IF now >= call[r].token.exp THEN "refused"
                  ELSE IF r \in Outdated THEN "forbidden" ELSE "ok"]]
    /\ UNCHANGED <<now, cache, timers, vault, clears, slow, faults>>

(* The call is answered, or its error is thrown; the caller calls again.   *)
End(r) ==
    /\ call[r].at \in {"ok", "forbidden", "refused", "failed"}
    /\ call' = [call EXCEPT ![r] = Idle]
    /\ UNCHANGED <<now, cache, timers, vault, clears, slow, faults>>

(* A timer that is due fires before the clock moves on.                    *)
Tick ==
    /\ now < MaxTime /\ now' = now + 1
    /\ \A d \in timers \cup clears : d > now
    /\ UNCHANGED <<cache, timers, vault, clears, call, slow, faults>>

Next == \/ \E r \in Callers :
             \/ RequestAccessTokenCached(r) \/ RequestAccessToken(r) \/ StoreToken(r)
             \/ SignIn(r) \/ Grant(r) \/ LoginAppRole(r)
             \/ ReadRole(r) \/ ReadSecretIDAccessor(r) \/ SignInFails(r)
             \/ CanActivate(r) \/ End(r)
        \/ EvictToken \/ ClearVaultToken \/ Tick

Spec == Init /\ [][Next]_vars
-----------------------------------------------------------------------------
(* A request carries a token that has not ended, as long as it takes less  *)
(* than Margin to arrive: whatever token was cached when, and whichever    *)
(* timer emptied the cache.  Only a token that spent its own life on the   *)
(* way from the API server may be too old.                                 *)
NotExpired == \A r \in Callers :
    LET c == call[r] IN
    c.at = "send" /\ now - c.got < Margin /\ c.token.stored <= c.token.exp - Margin
      => now < c.token.exp

(* The API server does not go to Vault with a token whose lease is over,   *)
(* though each login sets a timer of its own and the token stored may not  *)
(* be the one whose timer fires next; unless Vault's answer took longer    *)
(* than LeaseMargin.                                                       *)
LeaseHolds == \A t \in vault : t.stored - (t.exp - Lease) < LeaseMargin => now < t.exp

(* When every request is answered, a sign-in fails only if the server's    *)
(* Vault token was cleared under it at least as often as it has attempts.  *)
FailsForACause == \A r \in Callers :
    At(r, "failed") /\ faults = 0 /\ ~slow => call[r].lost > Retries
=============================================================================
