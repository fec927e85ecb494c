--------------------------- MODULE BlockRulesProofs ---------------------------
(***************************************************************************)
(* Proofs about BlockRules, for every schedule, all fees, unclaimed        *)
(* rewards and stakes, and every length of the branch.                     *)
(*                                                                         *)
(* The invariant adds to the two properties what relates them: the debt is *)
(* never more than what proof-of-stake blocks have minted.  A              *)
(* proof-of-work block pays back all of the debt, or at least three        *)
(* quarters of its own subsidy, and so never adds to it.                   *)
(*                                                                         *)
(* At the end, the median time: it is characterized by how many timestamps *)
(* are below it and how many are not above it; these counts, of windows    *)
(* that slide, show that it never goes back.                               *)
(***************************************************************************)
EXTENDS BlockRules, FoldLemmas, SequenceTheorems, TLAPS

\* The branch is never empty, and every proof-of-work block after the genesis
\* block has counted once.
BranchInv ==
  /\ \E S : blocks \in Seq(S)
  /\ Len(blocks) \in 1..MaxBlocks
  /\ Tip.nPoWHeight \in 0..(Len(blocks) - 1)

AmountsInv ==
  /\ ledger.nMoneySupply \in Int
  /\ ledger.nPoSDebt \in Int
  /\ minted \in Nat

DebtInv == ledger.nPoSDebt <= minted

IInv == BranchInv /\ AmountsInv /\ LedgerBalances /\ DebtInv
-----------------------------------------------------------------------------
(***************************************************************************)
(* Arithmetic.                                                             *)
(***************************************************************************)

\* Products of naturals are naturals.
LEMMA ProductNat ==
  ASSUME NEW a \in Nat, NEW b \in Nat
  PROVE  a * b \in Nat
  OBVIOUS

\* The division of the code's nonnegative amounts.
LEMMA QuotientNat ==
  ASSUME NEW a \in Nat, NEW b \in Nat, b > 0
  PROVE  a \div b \in Nat
  OBVIOUS

\* A square of a positive number is positive.
LEMMA SquarePositive ==
  ASSUME NEW a \in Nat, a > 0
  PROVE  a * a \in Nat /\ a * a > 0
  OBVIOUS

\* The subsidy before the debt is taken off is never negative.
LEMMA FullSubsidyNat ==
  ASSUME NEW h \in Nat, h > 0
  PROVE  FullSubsidy(h) \in Nat
<1> DEFINE rise == (PEAK - 1) * COIN * (h - 1) * (h - 1)
           fall == PEAK * COIN * QUARTER * QUARTER
           d == RAMP - 1
           climbing == COIN + ((rise \div d) \div d)
           falling == fall \div (h * h)
           cap == PEAK * COIN
<1>1. /\ COIN \in Nat /\ QUARTER \in Nat /\ PEAK \in Nat /\ PEAK - 1 \in Nat
      /\ h - 1 \in Nat /\ d \in Nat /\ d > 0 /\ RAMP \in Nat
  BY AmountsAssumption
<1>2. rise \in Nat
  <2>1. (PEAK - 1) * COIN \in Nat  BY <1>1, ProductNat
  <2>2. (PEAK - 1) * COIN * (h - 1) \in Nat  BY <1>1, <2>1, ProductNat
  <2> QED  BY <1>1, <2>2, ProductNat
<1>3. cap \in Nat  BY <1>1, ProductNat
<1>4. fall \in Nat
  <2>1. PEAK * COIN * QUARTER \in Nat  BY <1>1, <1>3, ProductNat
  <2> QED  BY <1>1, <2>1, ProductNat
<1>5. climbing \in Nat
  <2> HIDE DEF rise, d
  <2>1. rise \div d \in Nat  BY <1>1, <1>2, QuotientNat
  <2>2. (rise \div d) \div d \in Nat  BY <1>1, <2>1, QuotientNat
  <2> QED  BY <1>1, <2>2
<1>6. falling \in Nat
  <2> HIDE DEF fall
  <2> QED  BY <1>4, SquarePositive, QuotientNat
<1>7. FullSubsidy(h) \in {climbing, falling, cap}
  BY DEF FullSubsidy
<1> HIDE DEF climbing, falling, cap
<1> QED  BY <1>3, <1>5, <1>6, <1>7

\* What the branch demands of the next proof-of-work block: its subsidy is
\* that of the next step of the schedule, and its reward is either what is
\* left after all of the debt, or a part of the subsidy.
LEMMA NextReward ==
  ASSUME BranchInv, AmountsInv, Len(blocks) < MaxBlocks
  PROVE  LET full == GetNextProofOfWorkReward(FALSE)
             reward == GetNextProofOfWorkReward(TRUE)
         IN /\ full \in Nat /\ reward \in Int
            /\ reward <= full \/ reward = full - ledger.nPoSDebt
            /\ Scheduled[Tip.nPoWHeight] \in Int
            /\ Scheduled[Tip.nPoWHeight + 1] = Scheduled[Tip.nPoWHeight] + full
<1> DEFINE h == Tip.nPoWHeight
           full == FullSubsidy(h + 1)
<1>1. h \in 0..MaxBlocks /\ h + 1 \in 1..MaxBlocks /\ h \in Nat
  BY AmountsAssumption DEF BranchInv
<1>2. full \in Nat
  BY <1>1, FullSubsidyNat
<1>3. Scheduled[h] \in Int /\ Scheduled[h + 1] = Scheduled[h] + full
  <2> HIDE DEF h
  <2>1. (h + 1) - 1 = h  BY <1>1
  <2> QED  BY <1>1, <2>1, ScheduledAssumption, AmountsAssumption
<1>4. GetNextProofOfWorkReward(FALSE) = full
  BY DEF GetNextProofOfWorkReward
<1>5. GetNextProofOfWorkReward(TRUE) =
        (IF full \div 4 < full - ledger.nPoSDebt THEN full - ledger.nPoSDebt ELSE full \div 4)
  BY DEF GetNextProofOfWorkReward
<1> HIDE DEF h, full
<1>6. full \div 4 \in Nat /\ full \div 4 <= full
  BY <1>2
<1>7. ledger.nPoSDebt \in Int
  BY DEF AmountsInv
<1> DEFINE reward == GetNextProofOfWorkReward(TRUE)
<1>8. reward = full - ledger.nPoSDebt \/ reward = full \div 4
  BY <1>5
<1> HIDE DEF reward
<1>9. reward \in Int /\ (reward <= full \/ reward = full - ledger.nPoSDebt)
  BY <1>2, <1>6, <1>7, <1>8
<1> QED  BY <1>2, <1>3, <1>4, <1>9 DEF h, reward
-----------------------------------------------------------------------------
(***************************************************************************)
(* The steps.                                                              *)
(***************************************************************************)

\* A block is appended: the branch stays well formed and its tip is the new
\* block.
LEMMA AcceptStep ==
  ASSUME BranchInv, NEW pos \in BOOLEAN, NEW t, NEW lost, AcceptBlock(pos, t, lost)
  PROVE  /\ BranchInv'
         /\ Tip'.nPoWHeight = Tip.nPoWHeight + (IF pos THEN 0 ELSE 1)
<1> DEFINE bits == GetNextTargetRequired(blocks, pos, lost)
           b == [pos |-> pos, nTime |-> t, nBits |-> bits,
                 nHeight |-> Tip.nHeight + 1, nPoWHeight |-> Tip.nPoWHeight + (IF pos THEN 0 ELSE 1)]
<1>1. blocks' = Append(blocks, b) /\ Len(blocks) < MaxBlocks
  BY DEF AcceptBlock
<1>2. b.nPoWHeight = Tip.nPoWHeight + (IF pos THEN 0 ELSE 1)
  OBVIOUS
<1> HIDE DEF b
<1>3. PICK S : blocks \in Seq(S)
  BY DEF BranchInv
<1>4. blocks \in Seq(S \cup {b}) /\ b \in S \cup {b}
  BY <1>3
<1>5. /\ blocks' \in Seq(S \cup {b}) /\ Len(blocks') = Len(blocks) + 1
      /\ blocks'[Len(blocks')] = b
  BY <1>1, <1>4, AppendProperties
<1>6. Tip' = b
  BY <1>5 DEF Tip
<1>7. Len(blocks) \in Nat /\ Len(blocks) >= 1 /\ Tip.nPoWHeight \in 0..(Len(blocks) - 1)
  BY AmountsAssumption DEF BranchInv
<1>8. Len(blocks') \in 1..MaxBlocks
  BY <1>1, <1>5, <1>7, AmountsAssumption
<1>9. Tip'.nPoWHeight \in 0..(Len(blocks') - 1)
  BY <1>2, <1>5, <1>6, <1>7
<1> QED  BY <1>2, <1>5, <1>6, <1>8, <1>9 DEF BranchInv

\* A proof-of-work block keeps the books, and never adds to a debt.
LEMMA WorkStep ==
  ASSUME IInv, WorkBlock
  PROVE  IInv'
<1>1. PICK g \in Gap, lost \in {0, 1}, f \in Fee, u \in Unclaimed :
        /\ AcceptBlock(FALSE, Tip.nTime + g, lost)
        /\ ConnectWork(f, f + GetNextProofOfWorkReward(TRUE) - u)
  BY DEF WorkBlock
<1> DEFINE full == GetNextProofOfWorkReward(FALSE)
           reward == GetNextProofOfWorkReward(TRUE)
           coinbase == f + reward - u
           h == Tip.nPoWHeight
<1>2. BranchInv' /\ Tip'.nPoWHeight = h + 1
  BY <1>1, AcceptStep DEF IInv
<1>3. /\ full \in Nat /\ reward \in Int
      /\ reward <= full \/ reward = full - ledger.nPoSDebt
      /\ Scheduled[h] \in Int /\ Scheduled[h + 1] = Scheduled[h] + full
  BY <1>1, NextReward DEF IInv, AcceptBlock
<1>4. f \in Nat /\ u \in Nat
  BY AmountsAssumption
<1>5. /\ ledger'.nMoneySupply = ledger.nMoneySupply + coinbase - f
      /\ ledger'.nPoSDebt = ledger.nPoSDebt - (full - (coinbase - f))
      /\ minted' = minted
  BY <1>1 DEF ConnectWork
<1>6. Scheduled[Tip.nPoWHeight]' = Scheduled[h + 1]
  BY <1>2
<1>7. ledger.nMoneySupply \in Int /\ ledger.nPoSDebt \in Int /\ minted \in Nat
  BY DEF IInv, AmountsInv
<1>8. ledger.nMoneySupply = Scheduled[h] + ledger.nPoSDebt /\ ledger.nPoSDebt <= minted
  BY DEF IInv, LedgerBalances, DebtInv
<1> HIDE DEF full, reward, h
<1>9. AmountsInv'
  BY <1>3, <1>4, <1>5, <1>7 DEF AmountsInv
<1>10. LedgerBalances'
  BY <1>3, <1>4, <1>5, <1>6, <1>7, <1>8 DEF LedgerBalances
<1>11. DebtInv'
  BY <1>3, <1>4, <1>5, <1>7, <1>8 DEF DebtInv
<1> QED  BY <1>2, <1>9, <1>10, <1>11 DEF IInv

\* A proof-of-stake block adds what it mints to the supply and to the debt.
LEMMA StakeStep ==
  ASSUME IInv, StakeBlock
  PROVE  IInv'
<1>1. PICK g \in Gap, lost \in {0, 1}, f \in Fee, u \in Unclaimed, s \in StakeReward :
        /\ AcceptBlock(TRUE, Tip.nTime + g, lost)
        /\ ConnectStake(f, f - u, s)
  BY DEF StakeBlock
<1> DEFINE net == s + (f - u) - f
           h == Tip.nPoWHeight
<1>2. BranchInv' /\ Tip'.nPoWHeight = h + 0
  BY <1>1, AcceptStep DEF IInv
<1>3. h \in Nat /\ h \in 0..MaxBlocks
  BY AmountsAssumption DEF IInv, BranchInv
<1>4. net \in Int
  BY AmountsAssumption
<1>5. /\ ledger'.nMoneySupply = ledger.nMoneySupply + net
      /\ ledger'.nPoSDebt = ledger.nPoSDebt + net
      /\ minted' = minted + (IF net > 0 THEN net ELSE 0)
  BY <1>1 DEF ConnectStake
<1> HIDE DEF net
<1>6. Scheduled[Tip.nPoWHeight]' = Scheduled[h] /\ Scheduled[h] \in Int
  <2> HIDE DEF h
  <2> QED  BY <1>2, <1>3, ScheduledAssumption
<1>7. ledger.nMoneySupply \in Int /\ ledger.nPoSDebt \in Int /\ minted \in Nat
  BY DEF IInv, AmountsInv
<1>8. ledger.nMoneySupply = Scheduled[h] + ledger.nPoSDebt /\ ledger.nPoSDebt <= minted
  BY DEF IInv, LedgerBalances, DebtInv
<1> HIDE DEF h
<1>9. AmountsInv'
  BY <1>4, <1>5, <1>7 DEF AmountsInv
<1>10. LedgerBalances'
  BY <1>4, <1>5, <1>6, <1>7, <1>8 DEF LedgerBalances
<1>11. DebtInv'
  BY <1>4, <1>5, <1>7, <1>8 DEF DebtInv
<1> QED  BY <1>2, <1>9, <1>10, <1>11 DEF IInv

\* The genesis block, for which nothing is booked.
LEMMA IInvInit == Init => IInv
<1> SUFFICES ASSUME Init PROVE IInv
  OBVIOUS
<1>1. blocks = <<Genesis>> /\ Genesis.nPoWHeight = 0
  BY DEF Init, Genesis
<1> HIDE DEF Genesis
<1>2. blocks \in Seq({Genesis}) /\ Len(blocks) = 1 /\ Tip = Genesis
  BY <1>1 DEF Tip
<1>3. BranchInv
  <2>1. \E S : blocks \in Seq(S)
    BY <1>2
  <2>2. Len(blocks) \in 1..MaxBlocks /\ Tip.nPoWHeight \in 0..(Len(blocks) - 1)
    BY <1>1, <1>2, AmountsAssumption
  <2> QED  BY <2>1, <2>2 DEF BranchInv
<1>4. AmountsInv /\ DebtInv
  BY DEF Init, AmountsInv, DebtInv
<1>5. LedgerBalances
  BY <1>1, <1>2, ScheduledAssumption DEF Init, LedgerBalances
<1> QED  BY <1>3, <1>4, <1>5 DEF IInv

\* Every step keeps the invariant,
LEMMA IInvStep == IInv /\ [Next]_vars => IInv'
<1> SUFFICES ASSUME IInv, [Next]_vars PROVE IInv'
  OBVIOUS
<1>1. CASE WorkBlock  BY <1>1, WorkStep
<1>2. CASE StakeBlock  BY <1>2, StakeStep
<1>3. CASE UNCHANGED vars
  BY <1>3 DEF vars, IInv, BranchInv, AmountsInv, LedgerBalances, DebtInv, Tip
<1> QED  BY <1>1, <1>2, <1>3 DEF Next

\* so it always holds.
LEMMA IInvHolds == Spec => []IInv
  BY IInvInit, IInvStep, PTL DEF Spec
-----------------------------------------------------------------------------
\* The money supply is what the schedule has paid for the proof-of-work blocks
\* plus the debt ConnectBlock carries from block to block.
THEOREM LedgerAlwaysBalances == Spec => []LedgerBalances
<1>1. IInv => LedgerBalances
  BY DEF IInv
<1> QED  BY <1>1, IInvHolds, PTL

\* The supply exceeds the schedule by no more than proof-of-stake blocks have
\* minted: GetNextProofOfWorkReward never lets miners add to it.
THEOREM SupplyNeverAbove == Spec => []SupplyBounded
<1>1. IInv => SupplyBounded
  <2> SUFFICES ASSUME IInv PROVE SupplyBounded
    OBVIOUS
  <2>1. Tip.nPoWHeight \in 0..MaxBlocks
    BY AmountsAssumption DEF IInv, BranchInv
  <2>2. Scheduled[Tip.nPoWHeight] \in Int
    BY <2>1, ScheduledAssumption
  <2> QED  BY <2>2 DEF IInv, AmountsInv, LedgerBalances, DebtInv, SupplyBounded
<1> QED  BY <1>1, IInvHolds, PTL
-----------------------------------------------------------------------------
(***************************************************************************)
(* The median of the last timestamps.                                      *)
(***************************************************************************)

\* A finite set of integers has a greatest and a least element.
LEMMA Extremes ==
  ASSUME NEW S, IsFiniteSet(S), S \subseteq Int, S # {}
  PROVE  /\ \E x \in S : \A y \in S : y <= x
         /\ \E x \in S : \A y \in S : x <= y
<1>1. PICK m \in Nat : ExistsBijection(1..m, S)
  BY FS_NatBijection
<1>2. PICK f \in [1..m -> S] : \A x \in S : \E i \in 1..m : f[i] = x
  BY <1>1 DEF ExistsBijection, Bijection, Surjection
<1>3. \A i \in 1..m : f[i] \in Int
  BY <1>2
<1> DEFINE Both(k) == /\ \E i \in 1..k : \A j \in 1..k : f[j] <= f[i]
                      /\ \E i \in 1..k : \A j \in 1..k : f[i] <= f[j]
           H == {k \in 0..m : k = 0 \/ Both(k)}
<1>4. 0 \in H
  OBVIOUS
<1>5. ASSUME NEW k \in 0..m, k # m, k \in H PROVE k + 1 \in H
  <2>1. k + 1 \in 1..m /\ k + 1 \in 0..m /\ k \in Nat
    BY <1>5
  <2>2. \A j \in 1..(k + 1) : j \in 1..k \/ j = k + 1
    BY <2>1
  <2>3. \A j \in 1..k : j \in 1..(k + 1) /\ j \in 1..m
    BY <2>1
  <2>4. k + 1 \in 1..(k + 1)
    BY <2>1
  <2>5. f[k + 1] \in Int
    BY <1>3, <2>1
  <2>6. CASE k = 0
    BY <2>1, <2>2, <2>4, <2>5, <2>6
  <2>7. CASE k # 0
    <3>1. PICK g \in 1..k : \A j \in 1..k : f[j] <= f[g]
      BY <1>5, <2>7
    <3>2. PICK l \in 1..k : \A j \in 1..k : f[l] <= f[j]
      BY <1>5, <2>7
    <3>3. \E i \in 1..(k + 1) : \A j \in 1..(k + 1) : f[j] <= f[i]
      <4>1. CASE f[k + 1] <= f[g]
        BY <2>2, <2>3, <3>1, <4>1
      <4>2. CASE ~(f[k + 1] <= f[g])
        <5>1. f[g] \in Int /\ \A j \in 1..k : f[j] \in Int
          BY <1>3, <2>3
        <5>2. \A j \in 1..(k + 1) : f[j] <= f[k + 1]
          BY <2>2, <2>5, <3>1, <4>2, <5>1
        <5> QED BY <2>4, <5>2
      <4> QED BY <4>1, <4>2
    <3>4. \E i \in 1..(k + 1) : \A j \in 1..(k + 1) : f[i] <= f[j]
      <4>1. CASE f[l] <= f[k + 1]
        BY <2>2, <2>3, <3>2, <4>1
      <4>2. CASE ~(f[l] <= f[k + 1])
        <5>1. f[l] \in Int /\ \A j \in 1..k : f[j] \in Int
          BY <1>3, <2>3
        <5>2. \A j \in 1..(k + 1) : f[k + 1] <= f[j]
          BY <2>2, <2>5, <3>2, <4>2, <5>1
        <5> QED BY <2>4, <5>2
      <4> QED BY <4>1, <4>2
    <3> QED BY <2>1, <3>3, <3>4
  <2> QED BY <2>6, <2>7
<1>6. m \in H
  <2> HIDE DEF H, Both
  <2>1. \A k \in 0..m : k \in H
    BY <1>4, <1>5, UpTo, Zenon
  <2> QED BY <2>1
<1>7. m # 0
  <2>1. PICK x \in S : TRUE
    OBVIOUS
  <2>2. PICK i \in 1..m : f[i] = x
    BY <1>2
  <2> QED BY <2>2
<1>8. Both(m)
  BY <1>6, <1>7
<1>9. PICK g \in 1..m, l \in 1..m : \A j \in 1..m : f[j] <= f[g] /\ f[l] <= f[j]
  BY <1>8
<1>10. f[g] \in S /\ f[l] \in S /\ \A y \in S : y <= f[g] /\ f[l] <= y
  <2>1. f[g] \in S /\ f[l] \in S
    BY <1>9
  <2>2. ASSUME NEW y \in S PROVE y <= f[g] /\ f[l] <= y
    <3>1. PICK i \in 1..m : f[i] = y
      BY <1>2
    <3> QED BY <1>9, <3>1
  <2> QED BY <2>1, <2>2
<1> QED
  BY <1>10

\* The positions in W with a timestamp below t, and not above t.
Below(bs, W, t) == {i \in W : bs[i].nTime < t}
UpToTime(bs, W, t) == {i \in W : bs[i].nTime <= t}
Times(bs, W) == {bs[i].nTime : i \in W}

IsMedian(bs, W, k, t) ==
  Cardinality(Below(bs, W, t)) <= k /\ Cardinality(UpToTime(bs, W, t)) > k

\* Among the timestamps of W there is one with at most k below it and more than
\* k not above it.
LEMMA MedianExists ==
  ASSUME NEW bs, NEW W, IsFiniteSet(W), W # {}, \A i \in W : bs[i].nTime \in Int,
         NEW k \in Nat, k < Cardinality(W)
  PROVE  \E t \in Times(bs, W) : IsMedian(bs, W, k, t)
<1> DEFINE T == Times(bs, W)
           G == {t \in T : Cardinality(UpToTime(bs, W, t)) > k}
<1>1. T \subseteq Int /\ T # {} /\ \A i \in W : bs[i].nTime \in T
  BY DEF Times
<1>2. IsFiniteSet(T)
  <2> DEFINE f == [i \in W |-> bs[i].nTime]
  <2>1. f \in Surjection(W, T)
    BY DEF Surjection, Times
  <2> HIDE DEF f
  <2> QED BY <2>1, FS_Surjection
<1>3. \A t \in T : /\ IsFiniteSet(Below(bs, W, t)) /\ IsFiniteSet(UpToTime(bs, W, t))
                   /\ Cardinality(Below(bs, W, t)) \in Nat
                   /\ Cardinality(UpToTime(bs, W, t)) \in Nat
  <2>1. \A t : Below(bs, W, t) \in SUBSET W /\ UpToTime(bs, W, t) \in SUBSET W
    BY DEF Below, UpToTime
  <2> QED BY <2>1, FS_Subset, FS_CardinalityType
<1> HIDE DEF T
<1>4. G # {}
  <2>1. PICK x \in T : \A y \in T : y <= x
    BY <1>1, <1>2, Extremes
  <2>2. UpToTime(bs, W, x) = W
    BY <1>1, <2>1 DEF UpToTime
  <2> QED BY <2>2
<1>5. G \subseteq Int /\ IsFiniteSet(G)
  BY <1>1, <1>2, FS_Subset
<1>6. PICK t \in G : \A y \in G : t <= y
  <2> HIDE DEF G
  <2> QED BY <1>4, <1>5, Extremes
<1>7. Cardinality(Below(bs, W, t)) <= k
  <2> DEFINE B == {u \in T : u < t}
  <2>1. CASE B = {}
    <3>1. Below(bs, W, t) = {}
      BY <1>1, <2>1 DEF Below
    <3> QED BY <3>1, FS_EmptySet
  <2>2. CASE B # {}
    <3>1. B \subseteq Int /\ IsFiniteSet(B)
      BY <1>1, <1>2, FS_Subset
    <3>2. PICK u \in B : \A y \in B : y <= u
      <4> HIDE DEF B
      <4> QED BY <2>2, <3>1, Extremes
    <3>3. u \in T /\ u < t /\ u \in Int /\ t \in Int
      BY <1>1, <3>2
    <3>4. u \notin G
      BY <1>6, <3>3
    <3>5. Cardinality(UpToTime(bs, W, u)) <= k
      BY <1>3, <3>3, <3>4
    <3>6. ASSUME NEW i \in W PROVE bs[i].nTime < t <=> bs[i].nTime <= u
      BY <1>1, <3>2, <3>3
    <3>7. Below(bs, W, t) = UpToTime(bs, W, u)
      BY <3>6 DEF Below, UpToTime
    <3> QED BY <3>5, <3>7
  <2> QED BY <2>1, <2>2
<1> QED
  BY <1>6, <1>7 DEF IsMedian, T

\* The timestamps GetMedianTimePast looks at.
Span(bs) == IF Len(bs) < nMedianTimeSpan THEN Len(bs) ELSE nMedianTimeSpan
Window(bs) == (Len(bs) - Span(bs) + 1)..Len(bs)

\* What GetMedianTimePast returns is one of them, and in their middle.
LEMMA MedianIs ==
  ASSUME NEW bs, Len(bs) \in Nat \ {0}, \A i \in 1..Len(bs) : bs[i].nTime \in Int
  PROVE  LET m == GetMedianTimePast(bs)
         IN m \in Int /\ IsMedian(bs, Window(bs), Span(bs) \div 2, m)
<1> DEFINE W == Window(bs)
           k == Span(bs) \div 2
           m == GetMedianTimePast(bs)
<1>1. Span(bs) \in Nat \ {0} /\ Span(bs) <= Len(bs)
  BY TimesAssumption DEF Span
<1>2. k \in Nat /\ k < Span(bs)
  <2> HIDE DEF Span
  <2> QED BY <1>1
<1>3. W \subseteq 1..Len(bs) /\ W # {} /\ IsFiniteSet(W) /\ Cardinality(W) = Span(bs)
  <2> DEFINE a == Len(bs) - Span(bs) + 1
  <2>1. a \in Int /\ a >= 1 /\ a <= Len(bs) /\ Len(bs) \in Int /\ Len(bs) - a + 1 = Span(bs)
    <3> HIDE DEF Span
    <3> QED BY <1>1
  <2>2. W = a..Len(bs)
    BY DEF Window
  <2> HIDE DEF a, W
  <2>3. IsFiniteSet(a..Len(bs)) /\ Cardinality(a..Len(bs)) = Len(bs) - a + 1
    BY <2>1, FS_Interval
  <2> QED BY <2>1, <2>2, <2>3
<1> HIDE DEF W, k
<1>4. \E t \in Times(bs, W) : IsMedian(bs, W, k, t)
  BY <1>2, <1>3, MedianExists
<1>5. m = CHOOSE t \in Times(bs, W) : IsMedian(bs, W, k, t)
  BY Zenon DEF GetMedianTimePast, Times, IsMedian, Below, UpToTime, Window, Span, W, k
<1> HIDE DEF m
<1>6. m \in Times(bs, W) /\ IsMedian(bs, W, k, m)
  BY <1>4, <1>5
<1>7. m \in Int
  BY <1>3, <1>6 DEF Times
<1> QED
  BY <1>6, <1>7 DEF m, W, k

TimesInv == \A i \in 1..Len(blocks) : blocks[i].nTime \in Int

\* A block whose timestamp is after the median does not bring the median back: the
\* window never shrinks, and every timestamp below the old median was in it before.
LEMMA MedianStep ==
  ASSUME BranchInv, TimesInv, NEW pos, NEW g \in Gap, NEW lost,
         AcceptBlock(pos, Tip.nTime + g, lost)
  PROVE  TimesInv' /\ GetMedianTimePast(blocks') >= GetMedianTimePast(blocks)
<1> DEFINE bits == GetNextTargetRequired(blocks, pos, lost)
           t == Tip.nTime + g
           b == [pos |-> pos, nTime |-> t, nBits |-> bits,
                 nHeight |-> Tip.nHeight + 1, nPoWHeight |-> Tip.nPoWHeight + (IF pos THEN 0 ELSE 1)]
           m == GetMedianTimePast(blocks)
           mm == GetMedianTimePast(blocks')
           L == Len(blocks)
           W == Window(blocks)
           WW == Window(blocks')
           k == Span(blocks) \div 2
           kk == Span(blocks') \div 2
<1>1. blocks' = Append(blocks, b) /\ b.nTime = t /\ t > m
  BY DEF AcceptBlock, TimeAllowed
<1> HIDE DEF b
<1>2. PICK S : blocks \in Seq(S)
  BY DEF BranchInv
<1>3. blocks \in Seq(S \cup {b}) /\ b \in S \cup {b}
  BY <1>2
<1>4. L \in Nat \ {0}
  BY AmountsAssumption DEF BranchInv
<1>5. /\ Len(blocks') = L + 1 /\ blocks'[L + 1] = b
      /\ \A i \in 1..L : blocks'[i] = blocks[i]
  BY <1>1, <1>3, AppendProperties
<1>6. t \in Int
  <2>1. Tip.nTime \in Int
    BY <1>4 DEF TimesInv, Tip
  <2> QED BY <2>1, TimesAssumption
<1> HIDE DEF t
<1>7. \A i \in 1..(L + 1) : i \in 1..L \/ i = L + 1
  BY <1>4
<1>8. TimesInv'
  <2>1. \A i \in 1..Len(blocks') : blocks'[i].nTime \in Int
    BY <1>1, <1>5, <1>6, <1>7 DEF TimesInv
  <2> QED BY <2>1 DEF TimesInv
<1>9. m \in Int /\ IsMedian(blocks, W, k, m)
  BY <1>4, MedianIs DEF TimesInv
<1>10. mm \in Int /\ IsMedian(blocks', WW, kk, mm)
  <2>1. Len(blocks') \in Nat \ {0} /\ \A i \in 1..Len(blocks') : blocks'[i].nTime \in Int
    BY <1>4, <1>5, <1>8 DEF TimesInv
  <2> QED BY <2>1, MedianIs
<1>11. k \in Nat /\ kk \in Nat /\ k <= kk
  <2>1. Span(blocks) \in Nat /\ Span(blocks') \in Nat /\ Span(blocks) <= Span(blocks')
    BY <1>4, <1>5, TimesAssumption DEF Span
  <2> HIDE DEF Span
  <2> QED BY <2>1
<1>12. \A i \in WW : i \in W \/ i = L + 1
  BY <1>4, <1>5, TimesAssumption DEF Window, Span
<1>13. W \subseteq 1..L /\ IsFiniteSet(W)
  <2>1. W \subseteq 1..L
    <3>1. Span(blocks) \in Nat /\ Span(blocks) <= L
      BY <1>4, TimesAssumption DEF Span
    <3> HIDE DEF Span, L
    <3> QED BY <1>4, <3>1 DEF Window, L
  <2>2. IsFiniteSet(1..L)
    BY <1>4, FS_Interval
  <2> QED BY <2>1, <2>2, FS_Subset
<1> HIDE DEF m, mm, W, WW, k, kk, L
<1> SUFFICES ASSUME mm < m PROVE FALSE
  BY <1>8, <1>9, <1>10 DEF m, mm
<1> DEFINE A == UpToTime(blocks', WW, mm)
           B == Below(blocks, W, m)
<1>14. A \subseteq B
  <2> SUFFICES ASSUME NEW i \in A PROVE i \in B
    OBVIOUS
  <2>1. i \in WW /\ blocks'[i].nTime <= mm
    BY DEF UpToTime
  <2>2. i # L + 1
    BY <1>1, <1>5, <1>6, <1>9, <1>10, <2>1
  <2>3. i \in W /\ i \in 1..L /\ blocks'[i] = blocks[i]
    BY <1>5, <1>12, <1>13, <2>1, <2>2
  <2>4. blocks[i].nTime \in Int
    BY <2>3 DEF TimesInv, L
  <2> QED BY <1>9, <1>10, <2>1, <2>3, <2>4 DEF Below
<1>15. IsFiniteSet(B) /\ Cardinality(B) \in Nat
  BY <1>13, FS_Subset, FS_CardinalityType DEF Below
<1> HIDE DEF A, B
<1>16. Cardinality(A) <= Cardinality(B) /\ Cardinality(A) \in Nat
  BY <1>14, <1>15, FS_Subset, FS_CardinalityType
<1>17. Cardinality(B) <= k /\ Cardinality(A) > kk
  BY <1>9, <1>10 DEF IsMedian, A, B
<1> QED
  BY <1>11, <1>15, <1>16, <1>17

\* The median time that GetMedianTimePast compares the next timestamp with never
\* goes back, for every span, every length of the branch and all timestamps, of
\* which many do go back.
THEOREM MedianNeverBack == Spec => MedianAdvances
<1>1. Init => TimesInv
  <2> SUFFICES ASSUME Init PROVE TimesInv
    OBVIOUS
  <2>1. blocks = <<Genesis>> /\ Genesis.nTime = 0
    BY DEF Init, Genesis
  <2> HIDE DEF Genesis
  <2> QED BY <2>1 DEF TimesInv
<1>2. ASSUME IInv, TimesInv, Next
      PROVE  TimesInv' /\ GetMedianTimePast(blocks') >= GetMedianTimePast(blocks)
  <2>1. \E pos : \E g \in Gap : \E lost : AcceptBlock(pos, Tip.nTime + g, lost)
    <3>1. CASE WorkBlock
      BY <3>1, Zenon DEF WorkBlock
    <3>2. CASE StakeBlock
      BY <3>2, Zenon DEF StakeBlock
    <3> QED BY <1>2, <3>1, <3>2 DEF Next
  <2> QED BY <1>2, <2>1, MedianStep DEF IInv
<1>3. IInv /\ TimesInv /\ [Next]_vars =>
        TimesInv' /\ [GetMedianTimePast(blocks') >= GetMedianTimePast(blocks)]_vars
  <2>1. UNCHANGED vars /\ TimesInv => TimesInv'
    BY DEF vars, TimesInv
  <2> QED BY <1>2, <2>1, Zenon
<1> QED  BY <1>1, <1>3, IInvHolds, PTL DEF Spec, MedianAdvances
=============================================================================
