--------------------------------- MODULE PartsMC ---------------------------------
(* The parts of the client that share no state, each on a small instance: a *)
(* behaviour runs one of them.                                              *)
EXTENDS RequestManager, Client, RequestAll, FundWallet, ModuleLoader,
        Sponsorship, FiniteSets, TLC

CONSTANTS
  r1, r2, r3, r4, a,
  MaxMade  \* bound: how many of the four calls of request are made, any of them

\* Two calls that leave the id to the manager, and two that use the same id.
MixedIds == (r1 :> NoId) @@ (r2 :> NoId) @@ (r3 :> a) @@ (r4 :> a)

\* Sponsorships that reach one limit after another.
MCEntry(feeAmount, maxFee, owners, sign) ==
  <<[feeAmount |-> feeAmount, maxFee |-> maxFee, owners |-> owners,
     signFee |-> sign, signReserve |-> sign]>>

MCEntries ==
  {<<>>, MCEntry(<<3>>, <<>>, 1, FALSE), MCEntry(<<>>, <<>>, 2, FALSE),
   MCEntry(<<4>>, <<1>>, 0, FALSE), MCEntry(<<4>>, <<2>>, 2, TRUE)}

MCDemands ==
  {d \in [fee : {2}, ofFee : BOOLEAN, ofReserve : BOOLEAN, coSigned : BOOLEAN] :
     d.ofFee \/ d.ofReserve}

VARIABLE part

partsVars == <<part, rmVars, clientVars, raVars, fwVars, mlVars, spVars>>

Parts == {"requests", "client", "requestAll", "fundWallet", "loadWasmModule", "sponsorship"}

\* A part that is not run has one initial state.
PartsInit ==
  /\ part \in Parts
  /\ RMInit
  /\ ClientInit /\ (part # "client" => network = CHOOSE n \in Networks : TRUE)
  /\ RAInit
  /\ FWInit
  /\ MLInit
  /\ SPInit /\ (part # "sponsorship" => entry = <<>>)

PartsNext ==
  /\ UNCHANGED part
  /\ \/ part = "requests" /\ RMNext
        /\ Cardinality({r \in Calls : outcome'[r] # "idle"}) <= MaxMade
        /\ UNCHANGED <<clientVars, raVars, fwVars, mlVars, spVars>>
     \/ part = "client" /\ ClientNext
        /\ UNCHANGED <<rmVars, raVars, fwVars, mlVars, spVars>>
     \/ part = "requestAll" /\ RANext
        /\ UNCHANGED <<rmVars, clientVars, fwVars, mlVars, spVars>>
     \/ part = "fundWallet" /\ FWNext
        /\ UNCHANGED <<rmVars, clientVars, raVars, mlVars, spVars>>
     \/ part = "loadWasmModule" /\ MLNext
        /\ UNCHANGED <<rmVars, clientVars, raVars, fwVars, spVars>>
     \/ part = "sponsorship" /\ SPNext
        /\ UNCHANGED <<rmVars, clientVars, raVars, fwVars, mlVars>>

PartsSpec ==
  /\ PartsInit /\ [][PartsNext]_partsVars
  /\ RMFairness /\ ClientFairness /\ RAFairness /\ FWFairness /\ MLFairness

-----------------------------------------------------------------------------

\* No caller waits for ever, whatever fails on the way: a connect(), a requestAll(),
\* a fundWallet() and a load of mpt-crypto are all settled in the end.
EveryCallSettles == ConnectEnds /\ RequestAllEnds /\ FundEnds /\ LoadsSettle
=============================================================================
