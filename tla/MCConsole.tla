------------------------------- MODULE MCConsole -------------------------------
(***************************************************************************)
(* Values for the constants of OwnerConsole: a treasury of an earlier      *)
(* factory, one of the current and one to be created, and the recommended  *)
(* mandate with each field set to values around its limits. The sponsor's  *)
(* challenges and the audit projection, with the values of MCAudit, are    *)
(* the other questions of the run: the three share no state. What is not   *)
(* asked about stays at one of its initial states.                         *)
(***************************************************************************)
EXTENDS OwnerConsole, SponsorAuthorization, MCAudit, TLC

CONSTANTS f1, f2, a1, a2, w1, w2, old, current, new

MCCreator == [t \in Treasuries |-> IF t = new THEN None ELSE a1]
MCRows == [t \in Treasuries |-> IF t = old THEN a1 ELSE IF t = current THEN a2 ELSE None]

Recommended ==
  [enabledStrategies |-> Strategies, targetWctcBps |-> 4000, toleranceBps |-> 500,
   maxWctcExposureBps |-> 6000, maxActionValue |-> 100, maxSlippageBps |-> 300,
   minNetEdgeBps |-> 100, maxArbitrageValue |-> 100, maxRebalanceValue |-> 100,
   maxRiskReductionValue |-> 100, dailyRiskReductionValue |-> 300,
   maxSourceDriftBps |-> 500, maxSpotTwapDeviationBps |-> 1000,
   maxAttemptsPerEpoch |-> 12, maxExecutionsPerEpoch |-> 6, epochLength |-> 3600]

Amounts == {None, 0, 1, MaxUint128, MaxUint128 + 1}
MCDrafts ==
  {Recommended} \union
  {[Recommended EXCEPT !.enabledStrategies = s] : s \in SUBSET Strategies} \union
  {[Recommended EXCEPT !.maxActionValue = a] : a \in Amounts} \union
  {[Recommended EXCEPT !.maxArbitrageValue = a, !.enabledStrategies = s] :
     a \in Amounts, s \in {Strategies, {"RiskReduction"}}} \union
  {[Recommended EXCEPT !.dailyRiskReductionValue = a] : a \in Amounts} \union
  {[Recommended EXCEPT !.maxSlippageBps = b] : b \in {None, 0, 1000, 1001, 65536}} \union
  {[Recommended EXCEPT !.maxWctcExposureBps = b] : b \in {4499, 4500, 4501, 10000, 10001}} \union
  {[Recommended EXCEPT !.toleranceBps = b] : b \in {0, 1, 1999, 2000}} \union
  {[Recommended EXCEPT !.targetWctcBps = b, !.enabledStrategies = {"Rebalance"}] :
     b \in {0, 10000, 10001}} \union
  {[Recommended EXCEPT !.maxAttemptsPerEpoch = n] : n \in {0, 5, 6, 65536}} \union
  {[Recommended EXCEPT !.epochLength = n] : n \in {59, 60, 2592000, 2592001}} \union
  {[Recommended EXCEPT !.minNetEdgeBps = b] : b \in {0, 1}}

Interchangeable == Permutations(Flows)

VARIABLE question

Questions == {"console", "sponsor", "audit"}

InitQuestion ==
  /\ Init /\ ConsoleInit /\ AuditInit /\ question \in Questions
  /\ question # "console" => account = None /\ page = "home"
  /\ question # "audit" => setting = CHOOSE s \in Settings : TRUE

NextQuestion ==
  /\ \/ question = "console" /\ ConsoleNext /\ UNCHANGED <<vars, auditVars>>
     \/ question = "sponsor" /\ Next /\ UNCHANGED <<consoleVars, auditVars>>
     \/ question = "audit" /\ AuditNext /\ UNCHANGED <<consoleVars, vars>>
  /\ UNCHANGED question

SpecQuestion == InitQuestion /\ [][NextQuestion]_<<vars, consoleVars, auditVars, question>>
================================================================================
