---------------------------- MODULE EscrowCommon ----------------------------
(***************************************************************************)
(* What the two flows of the ProofOfAudit contract share: the economic     *)
(* parameters its constructor fixes, the block time, the ether it holds,   *)
(* and the one way ether leaves it (_sendValue).                           *)
(*                                                                         *)
(* A call that reverts changes nothing, so a revert condition is a guard   *)
(* of the action that models the call.  Ether amounts are natural numbers: *)
(* the casts of msg.value to uint96 are exact because the supply of ether  *)
(* is below 2^96 wei.                                                      *)
(***************************************************************************)
EXTENDS Integers, FiniteSets, Functions

CONSTANTS
  Address,                    \* the accounts that call the contract
  NoAddress,                  \* address(0)
  Refusers,                   \* accounts whose code rejects incoming ether
  Arbiter,                    \* the only account that resolves challenges
  Treasury,                   \* the only account that withdraws fees
  RequiredStake,
  RequiredChallengeBond,
  ChallengeWindow,
  ChallengeResolutionWindow,
  ProtocolFeeBps,
  ResolutionFeeBps,
  MsgValues,                  \* the amounts of ether a call may carry
  LastOpening,                \* bound: no audit or request opens after it
  MaxTime                     \* bound on the block time

FeeDenominator == 10000

ASSUME AddressAssumption ==
  /\ IsFiniteSet(Address)
  /\ NoAddress \notin Address
  /\ Refusers \subseteq Address
  /\ Arbiter \in Address
  /\ Treasury \in Address

\* The checks of the constructor.
ASSUME ParameterAssumption ==
  /\ RequiredStake \in Nat \ {0}
  /\ RequiredChallengeBond \in Nat \ {0}
  /\ ChallengeWindow \in Nat \ {0}
  /\ ChallengeResolutionWindow \in Nat \ {0}
  /\ ProtocolFeeBps \in 0..FeeDenominator
  /\ ResolutionFeeBps \in 0..FeeDenominator

ASSUME BoundAssumption ==
  /\ MsgValues \subseteq Nat
  /\ LastOpening \in Nat
  /\ MaxTime \in Nat \ {0}

VARIABLES
  now,           \* block.timestamp
  balance        \* address(this).balance

\* Block timestamps are never zero, which is why the contract can use a zero
\* publishedAt or createdAt for "no such record".
Time == 1..MaxTime

ChainTypeOK ==
  /\ now \in Time
  /\ balance \in Nat

ChainInit ==
  /\ now = 1
  /\ balance = 0

\* A later block; the bound is MaxTime.
AdvanceTime ==
  /\ now < MaxTime
  /\ now' = now + 1

\* A window is over from the block after its last one; that last block is
\* still inside.
MutatedElapsed(since, window) == now >= since + window    \* mutated form
Elapsed(since, window) == now > since + window

\* A payable call accepted with value wei.
Accept(value) == balance' = balance + value

\* _sendValue: the call fails, and with it the transaction, when the receiver
\* rejects the ether or the contract holds less.
SendValue(to, amount) ==
  /\ to \notin Refusers
  /\ amount <= balance
  /\ balance' = balance - amount

\* Mutated form: basis points are taken for tenths of a percent.
MutatedFeeOf(amount, bps) == (amount * bps) \div 1000

\* floor(amount * bps / 10000), with the early return for zero.
FeeOf(amount, bps) ==
  IF bps = 0 \/ amount = 0 THEN 0 ELSE (amount * bps) \div FeeDenominator
=============================================================================
