------------------------------- MODULE ModuleLoader -------------------------------
(***************************************************************************)
(* loadWasmModule and loadWithRetry (mpt-crypto/src/module.ts): the module *)
(* is loaded once for all callers, a failed load is retried a few times,   *)
(* and a load that failed for good is not kept.                            *)
(*                                                                         *)
(* A load is the promise loadWithRetry().catch(...) that `cached` holds; a *)
(* caller holds the one it was given.  What follows a promise is a         *)
(* continuation, a step of its own.                                        *)
(***************************************************************************)
EXTENDS Naturals

CONSTANTS
  Callers,           \* calls of loadWasmModule
  MAX_LOAD_ATTEMPTS,
  MaxLoads           \* bound: loads that are begun

ASSUME LoadAttemptsAssumption == MAX_LOAD_ATTEMPTS \in Nat \ {0}
ASSUME MaxLoadsAssumption == MaxLoads \in Nat

Loads == 1..MaxLoads

VARIABLES
  cached,     \* the load `cached` holds, 0 for undefined
  loads,      \* loads begun so far
  loadState,  \* of each load: see LoadStates
  attempt,    \* of each load: the attempt under way, or made last
  holds,      \* the load a caller waits for, 0 before its call
  got         \* how a caller's promise was settled

mlVars == <<cached, loads, loadState, attempt, holds, got>>

\* trying: loadOnce() runs.  backoff: the delay before the next attempt.
\* failed: loadWithRetry() is rejected, and its catch is to run.
LoadStates == {"none", "trying", "backoff", "ready", "failed", "rejected"}

MLInit ==
  /\ cached = 0 /\ loads = 0
  /\ loadState = [l \in Loads |-> "none"]
  /\ attempt = [l \in Loads |-> 0]
  /\ holds = [c \in Callers |-> 0]
  /\ got = [c \in Callers |-> "nothing"]

LoadBecomes(l, s) == loadState' = [loadState EXCEPT ![l] = s]

\* Mutant: the promise is cached once it has resolved.
LoadWasmModule_CachesLate(c) ==
  /\ holds[c] = 0
  /\ \/ /\ cached # 0 /\ loadState[cached] = "ready"
        /\ holds' = [holds EXCEPT ![c] = cached]
        /\ UNCHANGED <<cached, loads, loadState, attempt>>
     \/ /\ ~(cached # 0 /\ loadState[cached] = "ready")
        /\ loads < MaxLoads
        /\ loads' = loads + 1
        /\ cached' = loads'
        /\ LoadBecomes(loads', "trying")
        /\ attempt' = [attempt EXCEPT ![loads'] = 1]
        /\ holds' = [holds EXCEPT ![c] = loads']
  /\ UNCHANGED got

\* cached ??= loadWithRetry().catch(...); return cached
LoadWasmModule(c) ==
  /\ holds[c] = 0
  /\ \/ /\ cached # 0
        /\ holds' = [holds EXCEPT ![c] = cached]
        /\ UNCHANGED <<cached, loads, loadState, attempt>>
     \/ /\ cached = 0
        /\ loads < MaxLoads
        /\ loads' = loads + 1
        /\ cached' = loads'
        /\ LoadBecomes(loads', "trying")
        /\ attempt' = [attempt EXCEPT ![loads'] = 1]
        /\ holds' = [holds EXCEPT ![c] = loads']
  /\ UNCHANGED got

LoadOnceSucceeds(l) ==
  /\ loadState[l] = "trying"
  /\ LoadBecomes(l, "ready")
  /\ UNCHANGED <<cached, loads, attempt, holds, got>>

\* The import, the instantiation or the context failed.
LoadOnceFails(l) ==
  /\ loadState[l] = "trying"
  /\ LoadBecomes(l, IF attempt[l] >= MAX_LOAD_ATTEMPTS THEN "failed" ELSE "backoff")
  /\ UNCHANGED <<cached, loads, attempt, holds, got>>

Retry(l) ==
  /\ loadState[l] = "backoff"
  /\ LoadBecomes(l, "trying")
  /\ attempt' = [attempt EXCEPT ![l] = @ + 1]
  /\ UNCHANGED <<cached, loads, holds, got>>

\* Mutant: the rejection stays cached.
CatchLoad_Keeps(l) ==
  /\ loadState[l] = "failed"
  /\ LoadBecomes(l, "rejected")
  /\ UNCHANGED <<cached, loads, attempt, holds, got>>

CatchLoad(l) ==
  /\ loadState[l] = "failed"
  /\ cached' = 0
  /\ LoadBecomes(l, "rejected")
  /\ UNCHANGED <<loads, attempt, holds, got>>

\* The caller's await goes on.
SettleCaller(c) ==
  /\ holds[c] # 0 /\ got[c] = "nothing"
  /\ \/ loadState[holds[c]] = "ready" /\ got' = [got EXCEPT ![c] = "module"]
     \/ loadState[holds[c]] = "rejected" /\ got' = [got EXCEPT ![c] = "error"]
  /\ UNCHANGED <<cached, loads, loadState, attempt, holds>>

MLNext ==
  \/ \E c \in Callers : LoadWasmModule(c) \/ SettleCaller(c)
  \/ \E l \in Loads : LoadOnceSucceeds(l) \/ LoadOnceFails(l) \/ Retry(l) \/ CatchLoad(l)

\* An import succeeds or fails in the end; timers fire; continuations run.
MLFairness ==
  /\ \A c \in Callers : WF_mlVars(SettleCaller(c))
  /\ \A l \in Loads : WF_mlVars(LoadOnceSucceeds(l) \/ LoadOnceFails(l) \/ Retry(l) \/ CatchLoad(l))

MLSpec == MLInit /\ [][MLNext]_mlVars /\ MLFairness

-----------------------------------------------------------------------------
(* What the loader promises.                                               *)

\* Every variable keeps its type.
MLTypeOK ==
  /\ cached \in 0..MaxLoads /\ loads \in 0..MaxLoads
  /\ loadState \in [Loads -> LoadStates]
  /\ attempt \in [Loads -> 0..MAX_LOAD_ATTEMPTS]
  /\ holds \in [Callers -> 0..MaxLoads]
  /\ got \in [Callers -> {"nothing", "module", "error"}]

\* The module is instantiated once: there is never a second load beside one that
\* is under way or has succeeded, so that all callers get the same instance.
OneInstance ==
  \A l, m \in Loads :
    {loadState[l], loadState[m]} \cap {"none", "rejected"} = {} => l = m

\* A failure is passed on to those who waited for it, and to no later caller: who
\* calls after it was handled, or after another caller was told, gets a load that
\* can still succeed.
FailureNotCached ==
  [][\A c, d \in Callers :
       holds[c] = 0 /\ holds'[c] # 0 =>
         /\ loadState[holds'[c]] # "rejected"
         /\ got[d] = "error" => holds'[c] # holds[d]]_mlVars

\* Every call settles, after MAX_LOAD_ATTEMPTS attempts at the latest.
LoadsSettle == \A c \in Callers : holds[c] # 0 ~> got[c] # "nothing"

=============================================================================
