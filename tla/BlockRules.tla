----------------------------- MODULE BlockRules -----------------------------
(***************************************************************************)
(* What the chain demands of its next block and what it books for it       *)
(* (main.cpp): the target of GetNextTargetRequired, the timestamp, the     *)
(* reward of GetNextProofOfWorkReward, and the supply and debt that        *)
(* ConnectBlock enters into the block index.                               *)
(*                                                                         *)
(* All of it is computed from the ancestors of the block, so the state is  *)
(* one branch, from the genesis block to its tip; blocks is that branch as *)
(* the retarget reads it, ledger the sums of its last block.  A            *)
(* reorganization only changes which branch is looked at.                  *)
(*                                                                         *)
(* Numbers of the code are CONSTANTS, so that small ones can be given.     *)
(***************************************************************************)
EXTENDS Integers, Sequences, FiniteSets, SequencesExt

CONSTANTS COIN, PEAK, RAMP, QUARTER,           \* 10^6, 400, 576, 26280
          nPastBlocksMin, nPastBlocksMax,      \* 2, 24
          WORK_TARGET_SPACING, STAKE_TARGET_SPACING, nTargetSpacingWorkMax,
          nPoWSwitchHeight, SwitchSpan,        \* 8, 8
          OldProofOfWorkLimit, NewProofOfWorkLimit, InitialPoSTarget,
          CompactBase,                         \* 256
          nMedianTimeSpan, nMaxClockDrift, nPoSMinHeight,
          Gap,                                 \* differences of two timestamps
          Fee, Unclaimed, StakeReward,         \* amounts: fees, not claimed, minted by a coinstake
          Scheduled,                           \* sums of the full subsidies
          MaxBlocks                            \* bound on the length of the branch

VARIABLES blocks, ledger, minted

vars == <<blocks, ledger, minted>>

(***************************************************************************)
(* Rewards.                                                                *)
(***************************************************************************)
FullSubsidy(h) ==
    LET paid == IF h < RAMP
                THEN COIN + ((((PEAK - 1) * COIN * (h - 1) * (h - 1)) \div (RAMP - 1)) \div (RAMP - 1))
                ELSE (PEAK * COIN * QUARTER * QUARTER) \div (h * h)
    IN IF paid < PEAK * COIN THEN paid ELSE PEAK * COIN

ASSUME AmountsAssumption ==
    /\ COIN \in Nat /\ PEAK \in Nat \ {0} /\ RAMP \in Nat \ {0, 1} /\ QUARTER \in Nat
    /\ Fee \subseteq Nat /\ Unclaimed \subseteq Nat /\ StakeReward \subseteq Int
    /\ MaxBlocks \in Nat \ {0}

ASSUME TimesAssumption == Gap \subseteq Int /\ nMedianTimeSpan \in Nat \ {0}

\* What the schedule has paid up to each number of proof-of-work blocks.
ASSUME ScheduledAssumption ==
    /\ Scheduled \in [0..MaxBlocks -> Int]
    /\ Scheduled[0] = 0
    /\ \A h \in 1..MaxBlocks : Scheduled[h] = Scheduled[h - 1] + FullSubsidy(h)

Tip == blocks[Len(blocks)]

\* Mutated form of GetNextProofOfWorkReward: the debt is added.
RewardAddsDebt(fAccountForPoS) ==
    LET nFullSubsidy == FullSubsidy(Tip.nPoWHeight + 1)
        repaid == nFullSubsidy + ledger.nPoSDebt
    IN IF ~fAccountForPoS THEN nFullSubsidy
       ELSE IF nFullSubsidy \div 4 < repaid THEN repaid ELSE nFullSubsidy \div 4

GetNextProofOfWorkReward(fAccountForPoS) ==
    LET nFullSubsidy == FullSubsidy(Tip.nPoWHeight + 1)
        repaid == nFullSubsidy - ledger.nPoSDebt
    IN IF ~fAccountForPoS THEN nFullSubsidy
       ELSE IF nFullSubsidy \div 4 < repaid THEN repaid ELSE nFullSubsidy \div 4

(***************************************************************************)
(* Targets.                                                                *)
(***************************************************************************)
\* GetCompact and back: three digits are kept, the first of them below half the base.
Compact(n) ==
    LET nSize == CHOOSE s \in 0..31 : 2 * n < CompactBase^s /\ \A r \in 0..(s - 1) : 2 * n >= CompactBase^r
        unit == IF nSize > 3 THEN CompactBase^(nSize - 3) ELSE 1
    IN (n \div unit) * unit

GetProofOfWorkLimit(nHeight) ==
    IF nHeight < nPoWSwitchHeight THEN OldProofOfWorkLimit ELSE NewProofOfWorkLimit

GetTypeHeight(b, pos) == IF pos THEN b.nHeight - b.nPoWHeight ELSE b.nPoWHeight

OfType(bs, pos) == SelectSeq(bs, LAMBDA b : b.pos = pos)

\* The blocks the loop reads, in the order of the chain.
PastBlocks(bs, pos) ==
    LET past == SelectSeq(OfType(bs, pos), LAMBDA b : GetTypeHeight(b, pos) > 1)
        n == IF Len(past) < nPastBlocksMax THEN Len(past) ELSE nPastBlocksMax
    IN SubSeq(past, Len(past) - n + 1, Len(past))

\* The loop: from the newest of them to the oldest.
Read(bs, pos) ==
    LET Step(b, r) ==
            [nCountBlocks |-> r.nCountBlocks + 1,
             average |-> (r.average * r.nCountBlocks + b.nBits) \div (r.nCountBlocks + 1),
             nActualTimespan |-> r.nActualTimespan + (r.nLastBlockTime - b.nTime),
             nLastBlockTime |-> b.nTime]
    IN FoldRight(Step, PastBlocks(bs, pos),
                 [nCountBlocks |-> 0, average |-> 0, nActualTimespan |-> 0,
                  nLastBlockTime |-> bs[Len(bs)].nTime])

TargetTimespan(bs, pos) ==
    LET oldest == PastBlocks(bs, pos)[1]
        n == Len(PastBlocks(bs, pos))
        nCountStakeBlocks == GetTypeHeight(bs[Len(bs)], TRUE) - GetTypeHeight(oldest, TRUE)
        work == n * WORK_TARGET_SPACING + nCountStakeBlocks * STAKE_TARGET_SPACING
    IN IF pos THEN n * STAKE_TARGET_SPACING
       ELSE IF work > n * nTargetSpacingWorkMax THEN n * nTargetSpacingWorkMax ELSE work

\* The cast of a double: where the exact value is an integer, it may be one less, as the
\* factor 1 + 2n/24 is rounded; which it is depends on the build.
Cast(a, b, lost) == (a \div b) - (IF a % b = 0 THEN lost ELSE 0)

\* Mutated form of Clamp: the factors are swapped.
ClampSwapped(nActual, nTarget, n, lost) ==
    LET low == Cast(nTarget * (nPastBlocksMax + 2 * n), nPastBlocksMax, lost)
        high == Cast(nTarget * nPastBlocksMax, nPastBlocksMax + 2 * n, lost)
    IN IF nActual < low THEN low ELSE IF nActual > high THEN high ELSE nActual

Clamp(nActual, nTarget, n, lost) ==
    LET low == Cast(nTarget * nPastBlocksMax, nPastBlocksMax + 2 * n, lost)
        high == Cast(nTarget * (nPastBlocksMax + 2 * n), nPastBlocksMax, lost)
    IN IF nActual < low THEN low ELSE IF nActual > high THEN high ELSE nActual

AtSwitch(b) == b.nHeight \in nPoWSwitchHeight..(nPoWSwitchHeight + SwitchSpan - 1)

TooFew(bs, pos) ==
    LET past == OfType(bs, pos)
    IN past = <<>> \/ GetTypeHeight(past[Len(past)], pos) - 1 < nPastBlocksMin

GetNextTargetRequired(bs, pos, lost) ==
    LET last == bs[Len(bs)]
        limit == GetProofOfWorkLimit(last.nHeight)
        r == Read(bs, pos)
        nTarget == TargetTimespan(bs, pos)
        next == (r.average * Clamp(r.nActualTimespan, nTarget, r.nCountBlocks, lost)) \div nTarget
    IN CASE AtSwitch(last) -> Compact(NewProofOfWorkLimit)
         [] ~AtSwitch(last) /\ TooFew(bs, pos) -> Compact(IF pos THEN InitialPoSTarget ELSE limit)
         [] OTHER -> Compact(IF next > limit THEN limit ELSE next)

(***************************************************************************)
(* Timestamps.                                                             *)
(***************************************************************************)
GetMedianTimePast(bs) ==
    LET n == IF Len(bs) < nMedianTimeSpan THEN Len(bs) ELSE nMedianTimeSpan
        last == (Len(bs) - n + 1)..Len(bs)
        At(t) == Cardinality({i \in last : bs[i].nTime < t}) <= n \div 2
                 /\ Cardinality({i \in last : bs[i].nTime <= t}) > n \div 2
    IN CHOOSE t \in {bs[i].nTime : i \in last} : At(t)

\* Mutated form of TimeAllowed: only the block before counts.
TimeAllowedDrift(t) == t + nMaxClockDrift >= Tip.nTime

TimeAllowed(t) == t > GetMedianTimePast(blocks) /\ t + nMaxClockDrift >= Tip.nTime

(***************************************************************************)
(* A block is accepted and connected.                                      *)
(***************************************************************************)
AcceptBlock(pos, t, lost) ==
    /\ Len(blocks) < MaxBlocks
    /\ TimeAllowed(t)
    /\ blocks' = Append(blocks,
           [pos |-> pos, nTime |-> t, nBits |-> GetNextTargetRequired(blocks, pos, lost),
            nHeight |-> Tip.nHeight + 1, nPoWHeight |-> Tip.nPoWHeight + (IF pos THEN 0 ELSE 1)])

\* Mutated form of ConnectWork: the fees the coinbase collects count as minted.
ConnectWorkFees(nFees, nCoinbase) ==
    /\ nCoinbase \in 0..(nFees + GetNextProofOfWorkReward(TRUE))
    /\ ledger' = [nMoneySupply |-> ledger.nMoneySupply + nCoinbase - nFees,
                  nPoSTotalMint |-> ledger.nPoSTotalMint,
                  nPoSDebt |-> ledger.nPoSDebt - (GetNextProofOfWorkReward(FALSE) - nCoinbase)]
    /\ UNCHANGED minted

\* The transactions of the block take in nFees more than they pay out.
ConnectWork(nFees, nCoinbase) ==
    /\ nCoinbase \in 0..(nFees + GetNextProofOfWorkReward(TRUE))
    /\ ledger' = [nMoneySupply |-> ledger.nMoneySupply + nCoinbase - nFees,
                  nPoSTotalMint |-> ledger.nPoSTotalMint,
                  nPoSDebt |-> ledger.nPoSDebt - (GetNextProofOfWorkReward(FALSE) - (nCoinbase - nFees))]
    /\ UNCHANGED minted

ConnectStake(nFees, nCoinbase, nStakeReward) ==
    LET net == nStakeReward + nCoinbase - nFees
    IN /\ Tip.nHeight + 1 >= nPoSMinHeight
       /\ nCoinbase \in 0..nFees
       /\ ledger' = [nMoneySupply |-> ledger.nMoneySupply + net,
                     nPoSTotalMint |-> ledger.nPoSTotalMint + net,
                     nPoSDebt |-> ledger.nPoSDebt + net]
       /\ minted' = minted + (IF net > 0 THEN net ELSE 0)

Genesis == [pos |-> FALSE, nTime |-> 0, nBits |-> Compact(OldProofOfWorkLimit), nHeight |-> 0, nPoWHeight |-> 0]

\* The genesis block is not connected: nothing is booked for it.
Init ==
    /\ blocks = <<Genesis>>
    /\ ledger = [nMoneySupply |-> 0, nPoSTotalMint |-> 0, nPoSDebt |-> 0]
    /\ minted = 0

WorkBlock ==
    \E g \in Gap, lost \in {0, 1}, f \in Fee, u \in Unclaimed :
        /\ AcceptBlock(FALSE, Tip.nTime + g, lost)
        /\ ConnectWork(f, f + GetNextProofOfWorkReward(TRUE) - u)

StakeBlock ==
    \E g \in Gap, lost \in {0, 1}, f \in Fee, u \in Unclaimed, s \in StakeReward :
        /\ AcceptBlock(TRUE, Tip.nTime + g, lost)
        /\ ConnectStake(f, f - u, s)

Next == WorkBlock \/ StakeBlock

Spec == Init /\ [][Next]_vars

(***************************************************************************)
(* Properties.                                                             *)
(***************************************************************************)
\* Whatever fees are paid, rewards left unclaimed and stakes minted, the money supply is
\* what the schedule has paid for the proof-of-work blocks plus the debt: "the
\* proof-of-stake debt carries over", to the last unit.
LedgerBalances == ledger.nMoneySupply = Scheduled[Tip.nPoWHeight] + ledger.nPoSDebt

\* "The proof-of-stake rewards are subtracted from the proof-of-work rewards": miners can
\* never bring the supply above the schedule; only what proof-of-stake blocks minted can,
\* and no more than that.
SupplyBounded == ledger.nMoneySupply <= Scheduled[Tip.nPoWHeight] + minted

WithTime(bs, t) == [bs EXCEPT ![Len(bs)].nTime = t]
MaxOf(S) == CHOOSE m \in S : \A k \in S : k <= m
MinOf(S) == CHOOSE m \in S : \A k \in S : k >= m

\* A later timestamp of the last block never makes the next one harder; and the next target
\* is within the limit and within the factor dMaxAdjust of the targets it is made of, also
\* when timestamps run backwards (the compact form and the divisions round down).
TargetFollowsTime ==
    \A pos \in BOOLEAN, lost \in {0, 1} :
        LET T == GetNextTargetRequired(blocks, pos, lost)
            past == PastBlocks(blocks, pos)
            n == Len(past)
            bits == {past[i].nBits : i \in 1..n}
            limit == GetProofOfWorkLimit(Tip.nHeight)
        IN /\ \A g \in Gap : g >= 0 =>
                  T <= GetNextTargetRequired(WithTime(blocks, Tip.nTime + g), pos, lost)
           /\ ~AtSwitch(Tip) /\ ~TooFew(blocks, pos) =>
                  /\ T \in 1..limit
                  /\ T * nPastBlocksMax <= MaxOf(bits) * (nPastBlocksMax + 2 * n)
                  /\ LET floor == ((MinOf(bits) - n) * (nPastBlocksMax - 1)) \div (nPastBlocksMax + 2 * n)
                     IN T >= Compact(IF floor < limit THEN floor ELSE limit) - CompactBase

\* The median that the next timestamp must exceed never goes back, although timestamps do.
MedianAdvances == [][GetMedianTimePast(blocks') >= GetMedianTimePast(blocks)]_vars
=============================================================================
