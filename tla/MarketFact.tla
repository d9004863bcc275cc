----------------------------- MODULE MarketFact -----------------------------
(***************************************************************************)
(* The evidence checks a treasury runs before it looks at a strategy:      *)
(* VerifiedMarketFactValidator.verifyPair and the decoder it calls,        *)
(* AttestedMarketEventDecoder.decode.                                      *)
(*                                                                         *)
(* A source transaction is a record                                        *)
(*   [height, index, to, call, status, logs]                               *)
(* and a log is [matches, window, liquidity, price, consistent]: matches   *)
(* says the log is the observer's MarketPriceObserved event for the pinned *)
(* pool, consistent that its price is the one its mean tick implies.       *)
(* Proof data is [chainKey, blockHeight, transactionIndex, tx]; Merkle and *)
(* continuity proofs are abstracted to which transaction they are about.   *)
(***************************************************************************)
EXTENDS Integers, Sequences

CONSTANTS
  SourceTxs,        (* the transactions of the source chain                *)
  SourceChainKey,   (* SOURCE_CHAIN_KEY, the attested source chain         *)
  Observer,         (* MARKET_OBSERVER, the pinned observer contract       *)
  TwapWindow,       (* EXPECTED_TWAP_WINDOW                                *)
  MaxProofAge,      (* MAX_PROOF_AGE_BLOCKS                                *)
  MaxConfirmGap     (* MAX_CONFIRM_GAP_BLOCKS                              *)

(***************************************************************************)
(* The reason of the first check that fails, "None" when they all pass:    *)
(* the early returns (or reverts) of the code, in their order.  A check is *)
(* a pair <<reason, fails>>.                                               *)
(***************************************************************************)
FirstReason(checks) ==
  LET failing == {i \in DOMAIN checks : checks[i][2]}
  IN  IF failing = {} THEN "None"
      ELSE checks[CHOOSE i \in failing : \A j \in failing : i <= j][1]

-----------------------------------------------------------------------------
(* The chain-info precompile: the latest attestation of the source chain.  *)
(* The native block prover, external to the repository: a proof verifies   *)
(* when the transaction it carries is on the source chain at the height it *)
(* claims; the index it computes is the one the transaction has there.     *)
Attestation(height) == [exists |-> height > 0, isAttestation |-> height > 0, height |-> height]
ProverAccepts(proof) == proof.tx \in SourceTxs /\ proof.tx.height = proof.blockHeight
CalculatedTxIndex(proof) == proof.tx.index

(* A log, as far as the decoder looks at it.                               *)
Log == [matches : BOOLEAN, window : Nat, liquidity : Nat, price : Nat, consistent : BOOLEAN]

(* Where a transaction has the pinned event, and the event decoded: the    *)
(* first.                                                                  *)
MatchingLogs(tx) == {k \in DOMAIN tx.logs : tx.logs[k].matches}
Decoded(tx) == tx.logs[CHOOSE k \in MatchingLogs(tx) : \A j \in MatchingLogs(tx) : k <= j]
Repeated(tx) == \E j, k \in MatchingLogs(tx) : j # k

(* Variant for the sensitivity runs: the receipt's status is not read.     *)
DecodeAnyStatus(tx) ==
  FirstReason(<<
    <<"WrongObservationSource", tx.to # Observer>>,
    <<"MissingMarketObservation", MatchingLogs(tx) = {}>>,
    <<"DuplicateMarketObservation", Repeated(tx)>> >>)

(* AttestedMarketEventDecoder.decode: the first matching log is checked as *)
(* it is read, a second one is refused when it is met.                     *)
DecodeReason(tx) ==
  LET found == MatchingLogs(tx) # {}
  IN  FirstReason(<<
        <<"WrongObservationSource", tx.to # Observer>>,
        <<"MalformedObservationCall", tx.call # "observe">>,
        <<"UnderlyingTransactionFailed", tx.status # 1>>,
        <<"WrongTwapWindow", found /\ Decoded(tx).window # TwapWindow>>,
        <<"ZeroObservationLiquidity", found /\ Decoded(tx).liquidity = 0>>,
        <<"DuplicateMarketObservation", Repeated(tx)>>,
        <<"MissingMarketObservation", ~found>>,
        <<"ObservationPriceMismatch", found /\ ~Decoded(tx).consistent>> >>)

(* _withLocation: the decoded event at the location its proof names.       *)
WithLocation(proof) ==
  [height |-> proof.blockHeight, index |-> proof.transactionIndex,
   price |-> Decoded(proof.tx).price, liquidity |-> Decoded(proof.tx).liquidity]

(* Variant for the sensitivity runs: no TransactionIndexMismatch check.    *)
VerifyPairAnyIndex(source, confirm, latest) ==
  FirstReason(<<
    <<"WrongSourceChain", source.chainKey # SourceChainKey \/ confirm.chainKey # SourceChainKey>>,
    <<"ConfirmationNotNewer", confirm.blockHeight <= source.blockHeight>>,
    <<"ProofAboveLatestAttestation", confirm.blockHeight > latest.height>>,
    <<"SourceVerificationFailed", ~ProverAccepts(source)>>,
    <<"ConfirmationVerificationFailed", ~ProverAccepts(confirm)>>,
    <<"Decode", DecodeReason(source.tx) # "None" \/ DecodeReason(confirm.tx) # "None">> >>)

(* VerifiedMarketFactValidator.verifyPair: the error it reverts with, or   *)
(* "None" when it returns the two observations.                            *)
VerifyPairReason(source, confirm, latest) ==
  FirstReason(<<
    <<"WrongSourceChain", source.chainKey # SourceChainKey \/ confirm.chainKey # SourceChainKey>>,
    <<"ConfirmationNotNewer", confirm.blockHeight <= source.blockHeight>>,
    <<"ConfirmationGapTooLarge", confirm.blockHeight - source.blockHeight > MaxConfirmGap>>,
    <<"LatestAttestationUnavailable", ~latest.exists \/ ~latest.isAttestation>>,
    <<"ProofAboveLatestAttestation",
        source.blockHeight > latest.height \/ confirm.blockHeight > latest.height>>,
    <<"ProofTooOld", latest.height - confirm.blockHeight > MaxProofAge>>,
    <<"SourceVerificationFailed", ~ProverAccepts(source)>>,
    <<"ConfirmationVerificationFailed", ~ProverAccepts(confirm)>>,
    <<"TransactionIndexMismatch",
        \/ CalculatedTxIndex(source) # source.transactionIndex
        \/ CalculatedTxIndex(confirm) # confirm.transactionIndex>>,
    <<"SourceDecode", DecodeReason(source.tx) # "None">>,
    <<"ConfirmDecode", DecodeReason(confirm.tx) # "None">> >>)
=============================================================================
