------------------------------- MODULE Auth_proofs -------------------------------
(***************************************************************************)
(* Proofs about the two token caches and the sign-in, for any number of    *)
(* calls at a time and of retries, and for any lives and margins of the    *)
(* tokens: what the timers guarantee although none of them knows which     *)
(* token it was set for.                                                   *)
(***************************************************************************)
EXTENDS Auth, FiniteSetTheorems, TLAPS

(* A timer fires when it is due, or before the clock moves on.             *)
Punctual == \A d \in timers \cup clears : d >= now

(* The timer of the token that is stored has not fired: when it fires, or  *)
(* another of the same moment does, the cache is empty.                    *)
Cached == \A t \in cache : t.stored <= t.exp - Margin => t.exp - Margin \in timers
Leased == \A t \in vault : t.stored + Min({Lease - LeaseMargin, Refresh}) \in clears

Prompt == ~slow => \A t \in vault : t.stored - (t.exp - Lease) < LeaseMargin

(* A call was handed its token at least Margin before the token's end.     *)
InTime(c) == c.at = "send" /\ c.token.stored <= c.token.exp - Margin
               => c.got <= c.token.exp - Margin

(* The Vault token was lost once for each attempt that failed, and once    *)
(* more where an attempt found it and it is gone.                          *)
Excused(c) ==
    /\ c.lost >= Retries - c.left
    /\ c.at \in {"role", "accessor"} /\ vault = {} => c.lost > Retries - c.left
    /\ c.at = "failed" => c.lost > Retries

CallsInv == \A r \in Callers :
    InTime(call[r]) /\ (faults = 0 /\ ~slow => Excused(call[r]))

IInv == TypeOK /\ Punctual /\ Cached /\ Leased /\ Prompt /\ CallsInv
-----------------------------------------------------------------------------
LEMMA MaxOfTwo ==
    ASSUME NEW a \in Int, NEW b \in Int
    PROVE  Max({a, b}) = IF a >= b THEN a ELSE b
<1>1. \E x \in {a, b} : \A y \in {a, b} : x >= y
  OBVIOUS
<1> QED
  BY <1>1 DEF Max

LEMMA MinOfTwo ==
    ASSUME NEW a \in Int, NEW b \in Int
    PROVE  Min({a, b}) = IF a <= b THEN a ELSE b
<1>1. \E x \in {a, b} : \A y \in {a, b} : x <= y
  OBVIOUS
<1> QED
  BY <1>1 DEF Min

(* How long a Vault token is kept.                                         *)
LEMMA KeptWithinLease ==
    /\ Min({Lease - LeaseMargin, Refresh}) \in Nat
    /\ Min({Lease - LeaseMargin, Refresh}) <= Lease - LeaseMargin
BY MinOfTwo, AuthConstants

LEMMA AtMostOne == ASSUME NEW x PROVE Cardinality({x}) <= 1 /\ Cardinality({}) <= 1
<1>1. Cardinality({x}) = 1
  BY FS_Singleton
<1>2. Cardinality({}) = 0
  BY FS_EmptySet
<1> QED
  BY <1>1, <1>2

(* The lease of the stored Vault token is not over, if it came in time.    *)
LEMMA LeaseIsOn == IInv => LeaseHolds
<1> SUFFICES ASSUME IInv, NEW t \in vault, t.stored - (t.exp - Lease) < LeaseMargin
             PROVE  now < t.exp
  BY DEF LeaseHolds
<1> DEFINE kept == Min({Lease - LeaseMargin, Refresh})
<1>1. t.exp \in Nat /\ t.stored \in Nat /\ now \in Nat
  BY AuthConstants DEF IInv, TypeOK, Tokens, Times
<1>2. kept \in Nat /\ kept <= Lease - LeaseMargin
  BY KeptWithinLease
<1>3. t.stored + kept >= now
  BY DEF IInv, Leased, Punctual
<1> HIDE DEF kept
<1> QED
  BY <1>1, <1>2, <1>3, AuthConstants

(* So a request to Vault is refused only when there is no token.           *)
LEMMA RefusedWithoutToken ==
    ASSUME IInv, ~slow, ~Honoured
    PROVE  vault = {}
BY LeaseIsOn DEF IInv, Prompt, LeaseHolds, Honoured
-----------------------------------------------------------------------------
(* One call moves on, and no Vault token disappears.                       *)
LEMMA CallMoves ==
    ASSUME IInv, NEW r \in Callers, NEW c \in Calls,
           call' = [call EXCEPT ![r] = c],
           InTime(c),
           faults' = 0 /\ ~slow' => faults = 0 /\ ~slow /\ Excused(c)',
           vault' = {} => vault = {}
    PROVE  call' \in [Callers -> Calls] /\ CallsInv'
<1>1. call \in [Callers -> Calls] /\ CallsInv
  BY DEF IInv, TypeOK
<1>2. call'[r] = c /\ \A q \in Callers : q # r => call'[q] = call[q]
  BY <1>1
<1>3. ASSUME NEW q \in Callers
      PROVE  InTime(call'[q]) /\ (faults' = 0 /\ ~slow' => Excused(call[q])')
  <2>1. CASE q = r
    <3>1. call'[q] = c
      BY <1>2, <2>1
    <3> QED
      BY <3>1 DEF Excused
  <2>2. CASE q # r
    <3>1. call'[q] = call[q]
      BY <1>2, <2>2
    <3> QED
      BY <1>1, <3>1 DEF CallsInv, Excused
  <2> QED
    BY <2>1, <2>2
<1> QED
  BY <1>1, <1>3 DEF CallsInv

(* A step of a call that touches neither token nor timer.                  *)
LEMMA QuietStep ==
    ASSUME IInv, NEW r \in Callers, NEW c \in Calls,
           call' = [call EXCEPT ![r] = c],
           UNCHANGED <<now, cache, timers, vault, clears, slow>>,
           faults' \in 0..MaxFaults,
           InTime(c),
           faults' = 0 /\ ~slow => faults = 0 /\ Excused(c)
    PROVE  IInv'
<1>1. Excused(c) => Excused(c)'
  BY DEF Excused
<1>2. call' \in [Callers -> Calls] /\ CallsInv'
  BY <1>1, CallMoves
<1>3. TypeOK'
  BY <1>2 DEF IInv, TypeOK
<1> QED
  BY <1>2, <1>3 DEF IInv, Punctual, Cached, Leased, Prompt

LEMMA CallFields ==
    ASSUME IInv, NEW r \in Callers
    PROVE  /\ call[r] \in Calls
           /\ call[r].left \in 0..Retries /\ call[r].token \in Tokens
           /\ call[r].got \in Times /\ call[r].lost \in Nat
           /\ call[r].token.exp \in Nat /\ call[r].token.stored \in Nat
           /\ InTime(call[r]) /\ (faults = 0 /\ ~slow => Excused(call[r]))
           /\ now \in 0..MaxTime /\ faults \in 0..MaxFaults
<1>1. call[r] \in Calls
  BY DEF IInv, TypeOK
<1> QED
  BY <1>1, AuthConstants DEF IInv, TypeOK, CallsInv, Calls, Tokens, Times

(* Going from one place to another without being answered or handed a      *)
(* token.                                                                  *)
LEMMA GoStep ==
    ASSUME IInv, NEW r \in Callers, NEW place, Go(r, place),
           place \in {"vault", "login", "vaultLogin", "role", "accessor"},
           place \in {"role", "accessor"} /\ vault = {} => At(r, "role"),
           UNCHANGED <<now, cache, timers, vault, clears, slow, faults>>
    PROVE  IInv'
<1> DEFINE c == [call[r] EXCEPT !.at = place]
<1>1. call[r] \in Calls /\ (faults = 0 /\ ~slow => Excused(call[r])) /\ faults \in 0..MaxFaults
  BY CallFields
<1>2. /\ c \in Calls /\ c.at = place /\ c.left = call[r].left /\ c.lost = call[r].lost
  BY <1>1 DEF Calls
<1>3. call' = [call EXCEPT ![r] = c]
  BY DEF Go
<1> HIDE DEF c
<1>4. InTime(c) /\ (faults = 0 /\ ~slow => Excused(c))
  BY <1>1, <1>2 DEF InTime, Excused, At
<1> QED
  BY <1>1, <1>2, <1>3, <1>4, QuietStep

(* An attempt fails: by a fault, or because the Vault token is gone.       *)
LEMMA AttemptFailsStep ==
    ASSUME IInv, NEW r \in Callers, AttemptFails(r),
           UNCHANGED <<now, cache, timers, vault, clears, slow>>,
           faults' \in 0..MaxFaults,
           faults' = 0 /\ ~slow =>
              faults = 0 /\ vault = {} /\ call[r].at \in {"role", "accessor"}
    PROVE  IInv'
<1> DEFINE place == IF call[r].left > 0 THEN "idle" ELSE "failed"
           left == IF call[r].left > 0 THEN call[r].left - 1 ELSE 0
           c == [call[r] EXCEPT !.at = place, !.left = left, !.token = NoToken]
<1>1. /\ call[r] \in Calls /\ call[r].left \in 0..Retries /\ call[r].lost \in Nat
      /\ (faults = 0 /\ ~slow => Excused(call[r]))
  BY CallFields
<1>2. NoToken \in Tokens
  BY AuthConstants DEF NoToken, Tokens, Times
<1>3. /\ c.at = IF call[r].left > 0 THEN "idle" ELSE "failed"
      /\ c.left = IF call[r].left > 0 THEN call[r].left - 1 ELSE 0
      /\ c.lost = call[r].lost
  BY <1>1 DEF Calls
<1>4. c \in Calls
  <2>1. left \in 0..Retries /\ place \in {"idle", "failed"}
    BY <1>1, AuthConstants
  <2> HIDE DEF left, place
  <2> QED
    BY <1>1, <1>2, <2>1 DEF Calls
<1>5. call' = [call EXCEPT ![r] = c]
  BY DEF AttemptFails
<1> HIDE DEF c
<1>6. InTime(c)
  BY <1>3 DEF InTime
<1>7. faults' = 0 /\ ~slow => faults = 0 /\ Excused(c)
  BY <1>1, <1>3, AuthConstants DEF Excused
<1> QED
  BY <1>4, <1>5, <1>6, <1>7, QuietStep
-----------------------------------------------------------------------------
(* The actions.                                                            *)

LEMMA RequestAccessTokenCachedStep ==
    ASSUME IInv, NEW r \in Callers, RequestAccessTokenCached(r)
    PROVE  IInv'
<1>1. CASE cache = {}
  <2>1. Go(r, "vault") /\ UNCHANGED <<now, cache, timers, vault, clears, slow, faults>>
    BY <1>1 DEF RequestAccessTokenCached
  <2> QED
    BY <2>1, GoStep
<1>2. CASE cache # {}
  <2>1. PICK t \in cache :
          call' = [call EXCEPT ![r].at = "send", ![r].token = t, ![r].got = now]
    BY <1>2 DEF RequestAccessTokenCached
  <2> DEFINE c == [call[r] EXCEPT !.at = "send", !.token = t, !.got = now]
  <2>2. /\ call[r] \in Calls /\ (faults = 0 /\ ~slow => Excused(call[r]))
        /\ now \in Times /\ t \in Tokens /\ faults \in 0..MaxFaults
    BY CallFields, AuthConstants DEF IInv, TypeOK, Times
  <2>3. /\ c \in Calls /\ c.at = "send" /\ c.token = t /\ c.got = now
        /\ c.left = call[r].left /\ c.lost = call[r].lost
    BY <2>2 DEF Calls
  <2>4. call' = [call EXCEPT ![r] = c]
    BY <2>1
  <2> HIDE DEF c
  <2>5. InTime(c)
    BY <2>3 DEF InTime, IInv, Cached, Punctual
  <2>6. faults = 0 /\ ~slow => Excused(c)
    BY <2>2, <2>3 DEF Excused
  <2> QED
    BY <2>2, <2>3, <2>4, <2>5, <2>6, QuietStep DEF RequestAccessTokenCached
<1> QED
  BY <1>1, <1>2

(* The new token's timer is set when the token is stored.                  *)
LEMMA StoreTokenStep ==
    ASSUME IInv, NEW r \in Callers, StoreToken(r)
    PROVE  IInv'
<1> DEFINE token == [call[r].token EXCEPT !.stored = now]
           due == now + CacheDuration(token.exp)
<1>0. PICK c : c = [call[r] EXCEPT !.at = "send", !.token = token, !.got = now]
  OBVIOUS
<1>1. /\ call[r] \in Calls /\ call[r].token \in Tokens
      /\ (faults = 0 /\ ~slow => Excused(call[r]))
      /\ now \in Nat /\ now \in Times /\ faults \in 0..MaxFaults
  BY CallFields, AuthConstants DEF Times
<1>2. token \in Tokens /\ token.stored = now /\ token.exp \in Times
  BY <1>1 DEF Tokens
<1>3. /\ timers' = timers \cup {due} /\ cache' = {token}
      /\ call' = [call EXCEPT ![r] = c]
      /\ UNCHANGED <<now, vault, clears, slow, faults>>
  BY <1>0 DEF StoreToken
<1> HIDE DEF token
<1>4. /\ due \in Times /\ due >= now
      /\ now <= token.exp - Margin => due = token.exp - Margin
  <2>1. token.exp \in Nat
    BY <1>2, AuthConstants DEF Times
  <2>2. CacheDuration(token.exp) = IF token.exp - now - Margin >= 0
                                   THEN token.exp - now - Margin ELSE 0
    BY <1>1, <2>1, MaxOfTwo, AuthConstants DEF CacheDuration
  <2> QED
    BY <1>1, <1>2, <2>1, <2>2, AuthConstants DEF Times
<1>5. /\ c \in Calls /\ c.at = "send" /\ c.token = token /\ c.got = now
      /\ c.left = call[r].left /\ c.lost = call[r].lost
  BY <1>0, <1>1, <1>2 DEF Calls
<1> HIDE DEF due
<1>6. InTime(c) /\ (faults = 0 /\ ~slow => Excused(c)')
  BY <1>1, <1>2, <1>3, <1>5 DEF InTime, Excused
<1>7. call' \in [Callers -> Calls] /\ CallsInv'
  BY <1>3, <1>5, <1>6, CallMoves
<1>8. TypeOK'
  BY <1>2, <1>3, <1>4, <1>7, AtMostOne DEF IInv, TypeOK
<1>9. Cached'
  BY <1>2, <1>3, <1>4 DEF Cached
<1> QED
  BY <1>3, <1>4, <1>7, <1>8, <1>9 DEF IInv, Punctual, Leased, Prompt

(* A timer that fires empties the cache, whichever token it was set for.   *)
LEMMA EvictTokenStep ==
    ASSUME IInv, EvictToken
    PROVE  IInv'
<1>1. /\ timers' \subseteq timers /\ cache' = {}
      /\ UNCHANGED <<now, vault, clears, call, slow, faults>>
  BY DEF EvictToken
<1>2. TypeOK'
  BY <1>1, AtMostOne DEF IInv, TypeOK
<1> QED
  BY <1>1, <1>2 DEF IInv, Punctual, Cached, Leased, Prompt, CallsInv, Excused

LEMMA GrantStep ==
    ASSUME IInv, NEW r \in Callers, Grant(r)
    PROVE  IInv'
<1> DEFINE token == [exp |-> now + Lease, stored |-> 0]
           c == [call[r] EXCEPT !.at = "granted", !.token = token]
<1>1. /\ call[r] \in Calls /\ (faults = 0 /\ ~slow => Excused(call[r]))
      /\ now \in 0..MaxTime /\ faults \in 0..MaxFaults
  BY CallFields
<1>2. token \in Tokens
  BY <1>1, AuthConstants DEF Tokens, Times
<1>3. call' = [call EXCEPT ![r] = c]
  BY DEF Grant
<1> HIDE DEF token
<1>4. c \in Calls /\ c.at = "granted" /\ c.left = call[r].left /\ c.lost = call[r].lost
  BY <1>1, <1>2 DEF Calls
<1> HIDE DEF c
<1>5. InTime(c) /\ (faults = 0 /\ ~slow => Excused(c))
  BY <1>1, <1>4 DEF InTime, Excused
<1> QED
  BY <1>1, <1>3, <1>4, <1>5, QuietStep DEF Grant

(* Each login sets a timer for the token it stores.                        *)
LEMMA LoginAppRoleStep ==
    ASSUME IInv, NEW r \in Callers, LoginAppRole(r)
    PROVE  IInv'
<1> DEFINE end == call[r].token.exp
           token == [exp |-> end, stored |-> now]
           late == now - (end - Lease) >= LeaseMargin
<1>0. PICK c : c = [call[r] EXCEPT !.at = "role", !.token = NoToken]
  OBVIOUS
<1>1. /\ call[r] \in Calls /\ end \in Nat /\ end \in Times
      /\ (faults = 0 /\ ~slow => Excused(call[r]))
      /\ now \in 0..MaxTime /\ now \in Times /\ faults \in 0..MaxFaults
  BY CallFields, AuthConstants DEF Times, Tokens
<1>2. /\ clears' = clears \cup {ClearAt} /\ vault' = {token}
      /\ slow' = (slow \/ late)
      /\ call' = [call EXCEPT ![r] = c]
      /\ UNCHANGED <<now, cache, timers, faults>>
  BY <1>0 DEF LoginAppRole
<1>3. ClearAt \in Times /\ ClearAt >= now
      /\ ClearAt = now + Min({Lease - LeaseMargin, Refresh})
  BY <1>1, KeptWithinLease, AuthConstants DEF ClearAt, Times
<1>4. token \in Tokens /\ token.exp = end /\ token.stored = now
  BY <1>1 DEF Tokens
<1>5. c \in Calls /\ c.at = "role" /\ c.left = call[r].left /\ c.lost = call[r].lost
  <2>1. NoToken \in Tokens
    BY AuthConstants DEF NoToken, Tokens, Times
  <2> QED
    BY <1>0, <1>1, <2>1 DEF Calls
<1> HIDE DEF token, end
<1>6. slow' \in BOOLEAN /\ (~slow' => ~slow /\ now - (end - Lease) < LeaseMargin)
  <2>1. slow \in BOOLEAN /\ late \in BOOLEAN /\ slow' = (slow \/ late)
    BY <1>2 DEF IInv, TypeOK
  <2>2. ~late => now - (end - Lease) < LeaseMargin
    BY <1>1, AuthConstants
  <2> HIDE DEF late
  <2> QED
    BY <2>1, <2>2, Zenon
<1>7. InTime(c) /\ (faults = 0 /\ ~slow => Excused(c)')
  BY <1>1, <1>2, <1>5 DEF InTime, Excused
<1>8. call' \in [Callers -> Calls] /\ CallsInv'
  BY <1>2, <1>5, <1>6, <1>7, CallMoves
<1>9. TypeOK'
  BY <1>2, <1>3, <1>4, <1>6, <1>8, AtMostOne DEF IInv, TypeOK
<1>10. Leased' /\ Prompt'
  BY <1>2, <1>3, <1>4, <1>6 DEF Leased, Prompt
<1> QED
  BY <1>2, <1>3, <1>8, <1>9, <1>10 DEF IInv, Punctual, Cached

(* Whoever is signing in while the token is cleared has an excuse more.    *)
LEMMA ClearVaultTokenStep ==
    ASSUME IInv, ClearVaultToken
    PROVE  IInv'
<1>1. /\ clears' \subseteq clears /\ vault' = {}
      /\ UNCHANGED <<now, cache, timers, slow, faults>>
      /\ call' = [r \in Callers |->
                    IF vault # {} /\ ~At(r, "idle")
                    THEN [call[r] EXCEPT !.lost = Min({@ + 1, Retries + 1})] ELSE call[r]]
  BY DEF ClearVaultToken
<1>2. ASSUME NEW r \in Callers
      PROVE  /\ call'[r] \in Calls /\ InTime(call[r])'
             /\ (faults' = 0 /\ ~slow' => Excused(call[r])')
  <2>1. /\ call[r] \in Calls /\ call[r].lost \in Nat /\ call[r].left \in 0..Retries
        /\ InTime(call[r]) /\ (faults = 0 /\ ~slow => Excused(call[r]))
    BY CallFields
  <2>2. CASE vault # {} /\ ~At(r, "idle")
    <3> DEFINE lost == Min({call[r].lost + 1, Retries + 1})
    <3>1. /\ lost = IF call[r].lost <= Retries THEN call[r].lost + 1 ELSE Retries + 1
          /\ lost \in Nat
      BY <2>1, MinOfTwo, AuthConstants
    <3>2. call'[r] = [call[r] EXCEPT !.lost = lost]
      BY <1>1, <2>2
    <3> HIDE DEF lost
    <3>3. /\ call'[r] \in Calls /\ call'[r].lost = lost /\ call'[r].at = call[r].at
          /\ call'[r].left = call[r].left /\ call'[r].token = call[r].token
          /\ call'[r].got = call[r].got
      BY <2>1, <3>1, <3>2 DEF Calls
    <3>4. InTime(call[r])'
      BY <2>1, <3>3 DEF InTime
    <3>5. faults' = 0 /\ ~slow' => Excused(call[r])'
      BY <1>1, <2>1, <3>1, <3>3, AuthConstants DEF Excused
    <3> QED
      BY <3>3, <3>4, <3>5
  <2>3. CASE vault = {} \/ At(r, "idle")
    <3>1. call'[r] = call[r]
      BY <1>1, <2>3
    <3> QED
      BY <1>1, <2>1, <2>3, <3>1 DEF InTime, Excused, At
  <2> QED
    BY <2>2, <2>3
<1>3. call' \in [Callers -> Calls] /\ CallsInv'
  BY <1>1, <1>2 DEF CallsInv
<1>4. TypeOK'
  BY <1>1, <1>3, AtMostOne DEF IInv, TypeOK
<1> QED
  BY <1>1, <1>3, <1>4 DEF IInv, Punctual, Cached, Leased, Prompt

LEMMA VaultStep ==
    ASSUME IInv, NEW r \in Callers, ReadRole(r) \/ ReadSecretIDAccessor(r)
    PROVE  IInv'
<1>0. /\ call[r].at \in {"role", "accessor"} /\ faults \in 0..MaxFaults
      /\ UNCHANGED <<now, cache, timers, vault, clears, slow, faults>>
  BY CallFields DEF ReadRole, ReadSecretIDAccessor, At
<1>1. CASE ~Honoured
  <2>1. AttemptFails(r)
    BY <1>1 DEF ReadRole, ReadSecretIDAccessor
  <2>2. ~slow => vault = {}
    BY <1>1, RefusedWithoutToken
  <2> QED
    BY <1>0, <2>1, <2>2, AttemptFailsStep
<1>2. CASE Honoured /\ ReadRole(r)
  <2>1. Go(r, "accessor") /\ At(r, "role")
    BY <1>2 DEF ReadRole
  <2> QED
    BY <1>0, <2>1, GoStep
<1>3. CASE Honoured /\ ReadSecretIDAccessor(r)
  <2> DEFINE token == [exp |-> now + Life, stored |-> 0]
             c == [call[r] EXCEPT !.at = "signed", !.token = token]
  <2>1. /\ call[r] \in Calls /\ (faults = 0 /\ ~slow => Excused(call[r]))
        /\ now \in 0..MaxTime
    BY CallFields
  <2>2. token \in Tokens
    BY <2>1, AuthConstants DEF Tokens, Times
  <2>3. call' = [call EXCEPT ![r] = c]
    BY <1>3 DEF ReadSecretIDAccessor
  <2> HIDE DEF token
  <2>4. c \in Calls /\ c.at = "signed" /\ c.left = call[r].left /\ c.lost = call[r].lost
    BY <2>1, <2>2 DEF Calls
  <2> HIDE DEF c
  <2>5. InTime(c) /\ (faults = 0 /\ ~slow => Excused(c))
    BY <2>1, <2>4 DEF InTime, Excused
  <2> QED
    BY <1>0, <2>3, <2>4, <2>5, QuietStep
<1> QED
  BY <1>1, <1>2, <1>3

LEMMA SignInFailsStep ==
    ASSUME IInv, NEW r \in Callers, SignInFails(r)
    PROVE  IInv'
<1>1. /\ AttemptFails(r) /\ UNCHANGED <<now, cache, timers, vault, clears, slow>>
      /\ faults' = faults + 1 /\ faults < MaxFaults /\ faults \in 0..MaxFaults
  BY CallFields DEF SignInFails
<1>2. faults' \in 0..MaxFaults /\ faults' # 0
  BY <1>1, AuthConstants
<1> QED
  BY <1>1, <1>2, AttemptFailsStep

(* A call that is over, and the next one, have lost nothing yet.           *)
LEMMA AnswerStep ==
    ASSUME IInv, NEW r \in Callers, CanActivate(r) \/ End(r)
    PROVE  IInv'
<1> DEFINE place == IF At(r, "send")
                    THEN IF now >= call[r].token.exp THEN "refused"
                         ELSE IF r \in Outdated THEN "forbidden" ELSE "ok"
                    ELSE "idle"
           c == [Idle EXCEPT !.at = place]
<1>1. call' = [call EXCEPT ![r] = c]
      /\ UNCHANGED <<now, cache, timers, vault, clears, slow, faults>>
  <2>1. CASE CanActivate(r)
    BY <2>1 DEF CanActivate, At
  <2>2. CASE End(r)
    <3>1. ~At(r, "send")
      BY <2>2 DEF End, At
    <3>2. c = Idle
      BY <3>1 DEF Idle
    <3> QED
      BY <2>2, <3>2 DEF End
  <2> QED
    BY <2>1, <2>2
<1>2. place \in {"ok", "forbidden", "refused", "idle"}
  OBVIOUS
<1> HIDE DEF place
<1>3. c \in Calls /\ c.at = place /\ c.left = Retries /\ c.lost = 0
  BY <1>2, AuthConstants DEF Idle, Calls, NoToken, Tokens, Times
<1> HIDE DEF c
<1>4. InTime(c) /\ Excused(c)
  BY <1>2, <1>3, AuthConstants DEF InTime, Excused
<1>5. faults \in 0..MaxFaults
  BY CallFields
<1> QED
  BY <1>1, <1>3, <1>4, <1>5, QuietStep

LEMMA TickStep ==
    ASSUME IInv, Tick
    PROVE  IInv'
<1>1. /\ now < MaxTime /\ now' = now + 1 /\ now \in 0..MaxTime
      /\ \A d \in timers \cup clears : d > now /\ d \in Nat
      /\ UNCHANGED <<cache, timers, vault, clears, call, slow, faults>>
  BY AuthConstants DEF Tick, IInv, TypeOK, Times
<1>2. now' \in 0..MaxTime
  BY <1>1, AuthConstants
<1>3. TypeOK'
  BY <1>1, <1>2 DEF IInv, TypeOK
<1>4. Punctual'
  BY <1>1 DEF Punctual
<1> QED
  BY <1>1, <1>3, <1>4 DEF IInv, Cached, Leased, Prompt, CallsInv, Excused

LEMMA AuthInit == Init => IInv
<1> SUFFICES ASSUME Init
             PROVE  IInv
  OBVIOUS
<1>1. Idle \in Calls
  BY AuthConstants DEF Idle, Calls, NoToken, Tokens, Times
<1>2. TypeOK
  <2>1. slow \in BOOLEAN
    BY Zenon DEF Init
  <2>2. Cardinality(cache) <= 1 /\ Cardinality(vault) <= 1
    BY AtMostOne DEF Init
  <2>3. now \in 0..MaxTime /\ faults \in 0..MaxFaults
    BY AuthConstants DEF Init
  <2>4. call \in [Callers -> Calls]
    BY <1>1 DEF Init
  <2> QED
    BY <2>1, <2>2, <2>3, <2>4 DEF Init, TypeOK
<1>3. InTime(Idle) /\ Excused(Idle)
  BY AuthConstants DEF Idle, InTime, Excused
<1> QED
  BY <1>2, <1>3 DEF Init, IInv, Punctual, Cached, Leased, Prompt, CallsInv

LEMMA AuthNext == IInv /\ [Next]_vars => IInv'
<1> SUFFICES ASSUME IInv, [Next]_vars
             PROVE  IInv'
  OBVIOUS
<1>1. ASSUME NEW r \in Callers, RequestAccessToken(r) \/ SignIn(r)
      PROVE  IInv'
  <2>1. CASE RequestAccessToken(r)
    BY <2>1, GoStep DEF RequestAccessToken
  <2>2. CASE SignIn(r)
    <3>1. CASE vault = {}
      BY <2>2, <3>1, GoStep DEF SignIn
    <3>2. CASE vault # {}
      BY <2>2, <3>2, GoStep DEF SignIn
    <3> QED
      BY <3>1, <3>2
  <2> QED
    BY <1>1, <2>1, <2>2
<1>2. CASE UNCHANGED vars
  BY <1>2 DEF vars, IInv, TypeOK, Punctual, Cached, Leased, Prompt, CallsInv, Excused
<1> QED
  BY <1>1, <1>2, RequestAccessTokenCachedStep, StoreTokenStep, EvictTokenStep, GrantStep,
     LoginAppRoleStep, ClearVaultTokenStep, VaultStep, SignInFailsStep, AnswerStep, TickStep
  DEF Next
-----------------------------------------------------------------------------
(* The inductive invariant holds in every state of the sign-in.            *)
THEOREM AuthInductive == Spec => []IInv
BY AuthInit, AuthNext, PTL DEF Spec

(* Either cache holds at most one token, and a call has at most the        *)
(* retries of fastRetry left.                                              *)
THEOREM AuthTypeCorrect == Spec => []TypeOK
BY AuthInductive, PTL DEF IInv

(* A request that takes less than the margin of setCache to arrive carries *)
(* a JWT that the guard still takes, whichever timer emptied the cache and *)
(* however many calls signed in at a time.                                 *)
THEOREM NotExpiredCorrect == Spec => []NotExpired
<1>1. IInv => NotExpired
  <2> SUFFICES ASSUME IInv, NEW r \in Callers, call[r].at = "send",
                      now - call[r].got < Margin,
                      call[r].token.stored <= call[r].token.exp - Margin
               PROVE  now < call[r].token.exp
    BY DEF NotExpired
  <2>1. call[r].got \in Nat /\ call[r].token.exp \in Nat /\ now \in Nat
    BY CallFields, AuthConstants DEF Times
  <2>2. call[r].got <= call[r].token.exp - Margin
    BY CallFields DEF InTime
  <2> QED
    BY <2>1, <2>2, AuthConstants
<1> QED
  BY <1>1, AuthInductive, PTL

(* The API server never goes to Vault with a token whose lease is over,    *)
(* though loginAppRoleIfNecessary may run twice at a time and its timers   *)
(* do not know their tokens.                                               *)
THEOREM LeaseCorrect == Spec => []LeaseHolds
BY LeaseIsOn, AuthInductive, PTL

(* Where every request is answered in time, all attempts of fastRetry fail *)
(* only if the server's Vault token was cleared, since the call began, at  *)
(* least as often as it has attempts.                                      *)
THEOREM FailsForACauseCorrect == Spec => []FailsForACause
<1>1. IInv => FailsForACause
  BY DEF IInv, CallsInv, Excused, FailsForACause, At
<1> QED
  BY <1>1, AuthInductive, PTL
=============================================================================
