-------------------------- MODULE ThermalGuardProofs --------------------------
(***************************************************************************)
(* Proofs about ThermalGuard, for every window, sensor range and set of    *)
(* configurations.                                                         *)
(***************************************************************************)
EXTENDS ThermalGuard, FiniteSetTheorems, SequenceTheorems, WellFoundedInduction, TLAPS

(* TripSuspends is inductive once the latch is known to be a Boolean.      *)
LatchInv == tripped \in BOOLEAN /\ TripSuspends

LEMMA InitLatch == Init => LatchInv
  BY DEF Init, LatchInv, TripSuspends

(* Each branch of update_state leaves latch, state and clamp in agreement, *)
(* whatever temperature it judges and whatever thresholds it reads.        *)
LEMMA BranchLatch ==
  ASSUME LatchInv, NEW t,
         Critical(t) \/ Recovered(t) \/ Latched(t) \/ Warned(t) \/ Cool(t)
  PROVE  LatchInv'
<1>1. CASE Critical(t)
  BY <1>1 DEF Critical, LatchInv, TripSuspends
<1>2. CASE Recovered(t)
  BY <1>2 DEF Recovered, LatchInv, TripSuspends
<1>3. CASE Latched(t)
  BY <1>3 DEF Latched, LatchInv, TripSuspends
<1>4. CASE Warned(t)
  BY <1>4 DEF Warned, LatchInv, TripSuspends
<1>5. CASE Cool(t)
  BY <1>5 DEF Cool, LatchInv, TripSuspends
<1> QED BY <1>1, <1>2, <1>3, <1>4, <1>5

LEMMA UpdateLatch == ASSUME LatchInv, Update PROVE LatchInv'
<1> DEFINE t == Poll(die', readable').twice
<1>1. Critical(t) \/ Recovered(t) \/ Latched(t) \/ Warned(t) \/ Cool(t)
  BY DEF Update
<1> HIDE DEF t
<1> QED BY <1>1, BranchLatch

(* RECONFIGURE touches no guard state.                                     *)
LEMMA StoreLatch ==
  ASSUME LatchInv, BeginReconfigure \/ StoreLimit \/ StoreRecover \/ UNCHANGED vars
  PROVE  LatchInv'
  BY DEF LatchInv, TripSuspends, BeginReconfigure, StoreLimit, StoreRecover,
         vars, guardVars

(* A tripped guard always suspends the boost and reports so, also between  *)
(* the three stores of RECONFIGURE.                                        *)
THEOREM TrippedMeansSuspended == Spec => []TripSuspends
<1>1. LatchInv /\ [Next]_vars => LatchInv'
  BY UpdateLatch, StoreLatch DEF Next
<1>2. LatchInv => TripSuspends
  BY DEF LatchInv
<1> QED BY InitLatch, <1>1, <1>2, PTL DEF Spec

-----------------------------------------------------------------------------
(* How many samples of a history are on either side of a value.            *)
Below(h, v) == {i \in DOMAIN h : h[i] < v}
UpTo(h, v) == {i \in DOMAIN h : h[i] <= v}
Above(h, v) == {i \in DOMAIN h : h[i] > v}

LEMMA CountsType ==
  ASSUME NEW h \in Seq(Int), NEW v
  PROVE  /\ IsFiniteSet(DOMAIN h) /\ Cardinality(DOMAIN h) = Len(h)
         /\ IsFiniteSet(Below(h, v)) /\ Cardinality(Below(h, v)) \in Nat
         /\ IsFiniteSet(UpTo(h, v)) /\ Cardinality(UpTo(h, v)) \in Nat
         /\ IsFiniteSet(Above(h, v)) /\ Cardinality(Above(h, v)) \in Nat
         /\ Cardinality(UpTo(h, v)) <= Len(h)
<1>1. DOMAIN h = 1..Len(h) /\ Len(h) \in Nat
  OBVIOUS
<1>2. IsFiniteSet(DOMAIN h) /\ Cardinality(DOMAIN h) = Len(h)
  BY <1>1, FS_Interval
<1>3. /\ Below(h, v) \in SUBSET DOMAIN h
      /\ UpTo(h, v) \in SUBSET DOMAIN h
      /\ Above(h, v) \in SUBSET DOMAIN h
  BY DEF Below, UpTo, Above
<1> QED BY <1>2, <1>3, FS_Subset, FS_CardinalityType

(* A sample is not above a value, or above it.                             *)
LEMMA CountsAdd ==
  ASSUME NEW h \in Seq(Int), NEW v \in Int
  PROVE  Cardinality(UpTo(h, v)) + Cardinality(Above(h, v)) = Len(h)
<1>1. \A i \in DOMAIN h : h[i] \in Int
  OBVIOUS
<1>2. UpTo(h, v) \cup Above(h, v) = DOMAIN h /\ UpTo(h, v) \cap Above(h, v) = {}
  <2>1. \A i \in DOMAIN h : (h[i] <= v \/ h[i] > v) /\ ~(h[i] <= v /\ h[i] > v)
    BY <1>1
  <2> QED BY <2>1 DEF UpTo, Above
<1>3. Cardinality({}) = 0
  BY FS_EmptySet
<1>4. Cardinality(UpTo(h, v) \cup Above(h, v))
        = Cardinality(UpTo(h, v)) + Cardinality(Above(h, v)) - Cardinality(UpTo(h, v) \cap Above(h, v))
  BY CountsType, FS_Union
<1>5. Len(h) = Cardinality(UpTo(h, v)) + Cardinality(Above(h, v)) - 0
  <2>1. Cardinality(DOMAIN h) = Len(h)
    BY CountsType
  <2> QED BY <1>2, <1>3, <1>4, <2>1, Zenon
<1>6. Cardinality(UpTo(h, v)) \in Nat /\ Cardinality(Above(h, v)) \in Nat
  BY CountsType
<1> QED BY <1>5, <1>6

LEMMA LargerHasMore ==
  ASSUME NEW h \in Seq(Int), NEW i \in DOMAIN h, NEW j \in DOMAIN h, h[i] < h[j]
  PROVE  Cardinality(UpTo(h, h[i])) < Cardinality(UpTo(h, h[j]))
<1>1. \A n \in DOMAIN h : h[n] \in Int
  OBVIOUS
<1>2. UpTo(h, h[i]) \in SUBSET UpTo(h, h[j]) /\ j \in UpTo(h, h[j]) /\ j \notin UpTo(h, h[i])
  BY <1>1 DEF UpTo
<1> QED BY <1>2, CountsType, FS_Subset

LEMMA SmallestOf ==
  ASSUME NEW T \in SUBSET Nat, T # {}
  PROVE  \E x \in T : \A y \in T : x <= y
<1>1. PICK x \in T : \A y \in T : ~(<<y, x>> \in OpToRel(<, Nat))
  BY NatLessThanWellFounded, WFMin
<1>2. \A y \in T : ~(y < x)
  BY <1>1 DEF OpToRel
<1> QED BY <1>2

(* The largest sample is the one that fewest are above.                    *)
LEMMA LargestSample ==
  ASSUME NEW h \in Seq(Int), NEW I \in SUBSET DOMAIN h, I # {}
  PROVE  \E i \in I : \A j \in I : h[j] <= h[i]
<1> DEFINE rest(i) == Len(h) - Cardinality(UpTo(h, h[i]))
           T == {rest(i) : i \in I}
<1>1. T \in SUBSET Nat /\ T # {}
  BY CountsType
<1>2. PICK i \in I : \A j \in I : rest(i) <= rest(j)
  <2>1. PICK x \in T : \A y \in T : x <= y
    <3> HIDE DEF T
    <3> QED BY <1>1, SmallestOf
  <2> QED BY <2>1
<1>3. \A j \in I : ~(h[i] < h[j])
  BY <1>2, CountsType, LargerHasMore
<1>4. \A j \in I : h[j] \in Int
  OBVIOUS
<1> QED BY <1>3, <1>4

(* A history has a k-th smallest sample: fewer than k are below it, and at *)
(* least k not above.                                                      *)
LEMMA OrderStatisticIs ==
  ASSUME NEW h \in Seq(Int), NEW k \in 1..Len(h)
  PROVE  /\ OrderStatistic(h, k) \in Int
         /\ Cardinality(Below(h, OrderStatistic(h, k))) < k
         /\ k <= Cardinality(UpTo(h, OrderStatistic(h, k)))
<1> DEFINE I == {i \in DOMAIN h : k <= Cardinality(UpTo(h, h[i]))}
           T == {Cardinality(UpTo(h, h[i])) : i \in I}
<1>0. k \in Nat /\ k >= 1 /\ k <= Len(h) /\ DOMAIN h = 1..Len(h) /\ \A i \in DOMAIN h : h[i] \in Int
  OBVIOUS
<1>1. T \in SUBSET Nat
  BY CountsType
<1>2. I # {}
  <2>1. DOMAIN h # {}
    BY <1>0
  <2>2. PICK m \in DOMAIN h : \A j \in DOMAIN h : h[j] <= h[m]
    BY <2>1, LargestSample
  <2>3. UpTo(h, h[m]) = DOMAIN h
    BY <2>2 DEF UpTo
  <2> QED BY <2>3, <1>0, CountsType
<1>3. PICK i \in I : \A j \in I : Cardinality(UpTo(h, h[i])) <= Cardinality(UpTo(h, h[j]))
  <2>1. PICK x \in T : \A y \in T : x <= y
    <3>1. T # {}
      BY <1>2
    <3> HIDE DEF T
    <3> QED BY <1>1, <3>1, SmallestOf
  <2> QED BY <2>1
<1>4. Cardinality(Below(h, h[i])) < k
  <2> SUFFICES ASSUME k <= Cardinality(Below(h, h[i])) PROVE FALSE
    BY <1>0, CountsType
  <2>1. Below(h, h[i]) # {} /\ Below(h, h[i]) \in SUBSET DOMAIN h
    <3>1. Cardinality({}) = 0
      BY FS_EmptySet
    <3>2. Cardinality(Below(h, h[i])) # 0
      BY <1>0, CountsType
    <3>3. Below(h, h[i]) # {}
      BY <3>1, <3>2, Zenon
    <3> QED BY <3>3 DEF Below
  <2>2. PICK m \in Below(h, h[i]) : \A j \in Below(h, h[i]) : h[j] <= h[m]
    BY <2>1, LargestSample
  <2>3. m \in DOMAIN h /\ h[m] < h[i]
    BY <2>2 DEF Below
  <2>4. Below(h, h[i]) \in SUBSET UpTo(h, h[m])
    BY <2>2 DEF Below, UpTo
  <2>5. k <= Cardinality(UpTo(h, h[m]))
    BY <2>4, <1>0, CountsType, FS_Subset
  <2>6. Cardinality(UpTo(h, h[m])) < Cardinality(UpTo(h, h[i]))
    BY <2>3, LargerHasMore
  <2> QED BY <2>3, <2>5, <2>6, <1>3, CountsType
<1>5. \E v \in {h[j] : j \in DOMAIN h} : Cardinality(Below(h, v)) < k /\ k <= Cardinality(UpTo(h, v))
  BY <1>3, <1>4
<1>6. OrderStatistic(h, k) =
        CHOOSE v \in {h[j] : j \in DOMAIN h} : Cardinality(Below(h, v)) < k /\ k <= Cardinality(UpTo(h, v))
  BY DEF OrderStatistic, Below, UpTo
<1>7. /\ OrderStatistic(h, k) \in {h[j] : j \in DOMAIN h}
      /\ Cardinality(Below(h, OrderStatistic(h, k))) < k
      /\ k <= Cardinality(UpTo(h, OrderStatistic(h, k)))
  BY <1>5, <1>6
<1> QED BY <1>7, <1>0

(* A k-th smallest sample above r has all but k - 1 samples above r with   *)
(* it; one that is not has at least k on its side.                         *)
LEMMA HighStatistic ==
  ASSUME NEW h \in Seq(Int), NEW k \in 1..Len(h), NEW r \in Int, OrderStatistic(h, k) > r
  PROVE  Cardinality(Above(h, r)) > Len(h) - k
<1> DEFINE v == OrderStatistic(h, k)
<1>1. v \in Int /\ Cardinality(Below(h, v)) < k
  BY OrderStatisticIs
<1>2. UpTo(h, r) \in SUBSET Below(h, v)
  BY <1>1 DEF UpTo, Below
<1>3. Cardinality(UpTo(h, r)) <= Cardinality(Below(h, v))
  BY <1>2, CountsType, FS_Subset
<1>4. Cardinality(UpTo(h, r)) + Cardinality(Above(h, r)) = Len(h)
  BY CountsAdd
<1>5. /\ Cardinality(UpTo(h, r)) \in Nat /\ Cardinality(Above(h, r)) \in Nat
      /\ Cardinality(Below(h, v)) \in Nat
  BY CountsType
<1>6. k \in Nat /\ Len(h) \in Nat
  OBVIOUS
<1> HIDE DEF v
<1> QED BY <1>1, <1>3, <1>4, <1>5, <1>6

LEMMA LowStatistic ==
  ASSUME NEW h \in Seq(Int), NEW k \in 1..Len(h), NEW r \in Int, OrderStatistic(h, k) <= r
  PROVE  Cardinality(Above(h, r)) <= Len(h) - k
<1> DEFINE v == OrderStatistic(h, k)
<1>1. v \in Int /\ k <= Cardinality(UpTo(h, v))
  BY OrderStatisticIs
<1>2. UpTo(h, v) \in SUBSET UpTo(h, r)
  BY <1>1 DEF UpTo
<1>3. Cardinality(UpTo(h, v)) <= Cardinality(UpTo(h, r))
  BY <1>2, CountsType, FS_Subset
<1>4. Cardinality(UpTo(h, r)) + Cardinality(Above(h, r)) = Len(h)
  BY CountsAdd
<1>5. /\ Cardinality(UpTo(h, r)) \in Nat /\ Cardinality(Above(h, r)) \in Nat
      /\ Cardinality(UpTo(h, v)) \in Nat
  BY CountsType
<1>6. k \in Nat /\ Len(h) \in Nat
  OBVIOUS
<1> HIDE DEF v
<1> QED BY <1>1, <1>3, <1>4, <1>5, <1>6

(* A median above r has half of the samples above r, one that is not has   *)
(* at most half of them there.                                             *)
LEMMA HighMedian ==
  ASSUME NEW h \in Seq(Int), h # <<>>, NEW r \in Int, TwiceMedian(h) > 2 * r
  PROVE  2 * Cardinality(Above(h, r)) >= Len(h)
<1> DEFINE low == (Len(h) + 1) \div 2
           high == Len(h) \div 2 + 1
<1>1. Len(h) \in Nat /\ Len(h) >= 1
  OBVIOUS
<1>2. low \in 1..Len(h) /\ high \in 1..Len(h) /\ low <= high /\ 2 * high <= Len(h) + 2
  BY <1>1
<1>3. TwiceMedian(h) = OrderStatistic(h, low) + OrderStatistic(h, high)
  BY DEF TwiceMedian
<1> HIDE DEF low, high
<1>4. OrderStatistic(h, low) > r \/ OrderStatistic(h, high) > r
  BY <1>2, <1>3, OrderStatisticIs
<1>5. Cardinality(Above(h, r)) > Len(h) - low \/ Cardinality(Above(h, r)) > Len(h) - high
  BY <1>2, <1>4, HighStatistic
<1> QED BY <1>1, <1>2, <1>5, CountsType

LEMMA LowMedian ==
  ASSUME NEW h \in Seq(Int), h # <<>>, NEW r \in Int, TwiceMedian(h) <= 2 * r
  PROVE  2 * Cardinality(Above(h, r)) <= Len(h)
<1> DEFINE low == (Len(h) + 1) \div 2
           high == Len(h) \div 2 + 1
<1>1. Len(h) \in Nat /\ Len(h) >= 1
  OBVIOUS
<1>2. low \in 1..Len(h) /\ high \in 1..Len(h) /\ low <= high /\ 2 * low >= Len(h)
  BY <1>1
<1>3. TwiceMedian(h) = OrderStatistic(h, low) + OrderStatistic(h, high)
  BY DEF TwiceMedian
<1> HIDE DEF low, high
<1>4. OrderStatistic(h, low) <= r \/ OrderStatistic(h, high) <= r
  BY <1>2, <1>3, OrderStatisticIs
<1>5. Cardinality(Above(h, r)) <= Len(h) - low \/ Cardinality(Above(h, r)) <= Len(h) - high
  BY <1>2, <1>4, LowStatistic
<1> QED BY <1>1, <1>2, <1>5, CountsType

(* A new sample above r adds one to them, and the oldest that leaves takes *)
(* at most one away.                                                       *)
LEMMA AboveAppend ==
  ASSUME NEW h \in Seq(Int), NEW r \in Int, NEW x \in Int, x > r
  PROVE  Cardinality(Above(Append(h, x), r)) = Cardinality(Above(h, r)) + 1
<1>1. Above(Append(h, x), r) = Above(h, r) \cup {Len(h) + 1}
  BY DEF Above
<1>2. Len(h) + 1 \notin Above(h, r)
  BY DEF Above
<1> QED BY <1>1, <1>2, CountsType, FS_AddElement

LEMMA AboveTail ==
  ASSUME NEW h \in Seq(Int), h # <<>>, NEW r \in Int
  PROVE  Cardinality(Above(h, r)) <= Cardinality(Above(Tail(h), r)) + 1
<1> DEFINE S == Above(Tail(h), r)
           T == Above(h, r) \ {1}
           f == [i \in S |-> i + 1]
<1>1. /\ Tail(h) \in Seq(Int) /\ Len(Tail(h)) = Len(h) - 1 /\ Len(h) \in Nat
      /\ \A i \in 1..(Len(h) - 1) : Tail(h)[i] = h[i + 1]
  BY HeadTailProperties
<1>2. \A i : i \in S <=> i \in 1..(Len(h) - 1) /\ h[i + 1] > r
  BY <1>1 DEF Above
<1>3. \A i : i \in T <=> i \in 2..Len(h) /\ h[i] > r
  BY DEF Above
<1> HIDE DEF S, T
<1>4. f \in [S -> T]
  BY <1>2, <1>3, <1>1
<1>5. \A j \in T : j - 1 \in S /\ f[j - 1] = j
  BY <1>2, <1>3, <1>1
<1>6. f \in Surjection(S, T)
  BY <1>4, <1>5 DEF Surjection
<1>7. IsFiniteSet(S) /\ Cardinality(S) \in Nat
  BY <1>1, CountsType DEF S
<1> HIDE DEF f
<1>8. Cardinality(T) <= Cardinality(S)
  BY <1>6, <1>7, FS_Surjection
<1>9. /\ IsFiniteSet(Above(h, r)) /\ Cardinality(Above(h, r)) \in Nat
      /\ Cardinality(T) = IF 1 \in Above(h, r) THEN Cardinality(Above(h, r)) - 1
                          ELSE Cardinality(Above(h, r))
  BY CountsType, FS_RemoveElement DEF T
<1>10. Cardinality(S) = Cardinality(Above(Tail(h), r))
  BY DEF S
<1> QED BY <1>7, <1>8, <1>9, <1>10

-----------------------------------------------------------------------------
(* The window is never longer than its size, and the thresholds are        *)
(* numbers also while they are half stored.                                *)
WindowInv ==
  /\ history \in Seq(FilterRange) /\ Len(history) <= Window
  /\ thr \in Thresholds /\ config \in Configs

LEMMA FilterInt == FilterRange \subseteq Int /\ Seq(FilterRange) \subseteq Seq(Int)
  BY DieAssumption, SeqMonotonic

LEMMA ConfigType == \A c \in Configs : c \in Thresholds
  BY ConfigAssumption

LEMMA KeepType ==
  ASSUME NEW h \in Seq(FilterRange), Len(h) <= Window, NEW x \in FilterRange
  PROVE  LET a == Append(h, x)
         IN  /\ a \in Seq(FilterRange) /\ a # <<>> /\ Len(a) = Len(h) + 1
             /\ Keep(a) \in Seq(FilterRange) /\ Keep(a) # <<>> /\ Len(Keep(a)) <= Window
             /\ Len(h) < Window => Keep(a) = a
             /\ Len(h) = Window => Keep(a) = Tail(a) /\ Len(Keep(a)) = Window
<1> DEFINE a == Append(h, x)
<1>1. a \in Seq(FilterRange) /\ a # <<>> /\ Len(a) = Len(h) + 1 /\ Len(h) \in Nat
  BY AppendProperties
<1>2. Tail(a) \in Seq(FilterRange) /\ Len(Tail(a)) = Len(a) - 1
  BY <1>1, HeadTailProperties
<1>3. Window \in Nat /\ Window >= 1
  BY WindowAssumption
<1> HIDE DEF a
<1>4. Len(h) < Window => Keep(a) = a
  BY <1>1, <1>3 DEF Keep
<1>5. Len(h) = Window => Keep(a) = Tail(a) /\ Len(Tail(a)) = Window
  BY <1>1, <1>2, <1>3 DEF Keep
<1>6. CASE Len(h) < Window
  BY <1>1, <1>3, <1>4, <1>6 DEF a
<1>7. CASE Len(h) = Window
  <2>1. Tail(a) # <<>>
    <3>1. Len(Tail(a)) # 0
      BY <1>3, <1>5, <1>7
    <3>2. Len(<<>>) = 0
      OBVIOUS
    <3> QED BY <3>1, <3>2, Zenon
  <2> QED BY <1>1, <1>2, <1>3, <1>5, <1>7, <2>1 DEF a
<1> QED BY <1>1, <1>3, <1>6, <1>7

LEMMA InitWindow == Init => WindowInv
<1> SUFFICES ASSUME Init PROVE WindowInv
  OBVIOUS
<1>1. history = <<>> /\ thr \in Configs /\ config \in Configs
  BY DEF Init
<1>2. Window \in Nat
  BY WindowAssumption
<1> QED BY <1>1, <1>2, ConfigType DEF WindowInv

LEMMA WindowNext == ASSUME WindowInv, [Next]_vars PROVE WindowInv'
<1> USE DEF WindowInv
<1>1. CASE Update
  <2>1. history' = Poll(die', readable').history /\ UNCHANGED <<thr, config>>
    BY <1>1 DEF Update, daemonVars
  <2>2. history' = history
        \/ \E x \in FilterRange : history' = Keep(Append(history, x))
    BY <2>1 DEF Poll, AddSample
  <2> QED BY <2>1, <2>2, KeepType
<1>2. CASE BeginReconfigure
  BY <1>2, ConfigType DEF BeginReconfigure, guardVars, Thresholds
<1>3. CASE StoreLimit \/ StoreRecover
  BY <1>3, ConfigType DEF StoreLimit, StoreRecover, guardVars, Thresholds
<1>4. CASE UNCHANGED vars
  BY <1>4 DEF vars, guardVars, daemonVars
<1> QED BY <1>1, <1>2, <1>3, <1>4 DEF Next

(* What one turn of the monitor does with a sample the filter accepts.     *)
LEMMA AcceptedSample ==
  ASSUME Update, readable', die' \in FilterRange
  PROVE  /\ history' = Keep(Append(history, die'))
         /\ temp' = TwiceMedian(history')
         /\ thr' = thr
         /\ tripped /\ ~tripped' => temp' <= 2 * thr.recover
         /\ ~tripped /\ tripped' => temp' >= 2 * thr.limit
<1>1. die' \in SensorRange
  BY DieAssumption
<1>2. /\ Poll(die', readable').history = Keep(Append(history, die'))
      /\ Poll(die', readable').twice = TwiceMedian(Keep(Append(history, die')))
  BY <1>1 DEF Poll, AddSample
<1>3. /\ history' = Keep(Append(history, die')) /\ temp' = TwiceMedian(history') /\ thr' = thr
      /\ \/ Critical(temp') \/ Recovered(temp') \/ Latched(temp') \/ Warned(temp') \/ Cool(temp')
  BY <1>2 DEF Update, daemonVars
<1> QED BY <1>3 DEF Critical, Recovered, Latched, Warned, Cool

(* Between two filtered readings the latch opens only on a sample at or    *)
(* below the recovery threshold, although the guard compares the median:   *)
(* most of the old window is above it (thermal.py:103-115, 498).           *)
THEOREM LatchOpensOnlyWhenCool == Spec => OpensOnlyWhenCool
<1>1. ASSUME WindowInv, [Next]_vars
      PROVE  [tripped /\ ~tripped' /\ InRange /\ Filtered => die' <= thr.recover]_vars
  <2> SUFFICES ASSUME Next, tripped, ~tripped', readable', die' \in FilterRange, Filtered,
                      die' > thr.recover
               PROVE  FALSE
    <3>1. die' \in FilterRange => die' \in Int
      BY DieAssumption
    <3>2. thr.recover \in Int
      BY <1>1 DEF WindowInv, Thresholds
    <3> QED BY <1>1, <3>1, <3>2 DEF InRange
  <2>1. Update
    BY DEF Next, BeginReconfigure, StoreLimit, StoreRecover, guardVars
  <2> DEFINE h == history
             x == die'
             r == thr.recover
             a == Append(h, x)
             n == Cardinality(Above(h, r))
             m == Cardinality(Above(Keep(a), r))
  <2>2. /\ h \in Seq(FilterRange) /\ Len(h) <= Window /\ h # <<>>
        /\ x \in FilterRange /\ r \in Int /\ x > r
        /\ TwiceMedian(h) > 2 * r /\ TwiceMedian(Keep(a)) <= 2 * r
    BY <2>1, <1>1, AcceptedSample DEF WindowInv, Filtered, Thresholds
  <2> HIDE DEF h, x, r
  <2>3. h \in Seq(Int) /\ x \in Int /\ Len(h) \in Nat /\ Seq(FilterRange) \subseteq Seq(Int)
    BY <2>2, FilterInt
  <2>4. /\ a \in Seq(Int) /\ a # <<>> /\ Len(a) = Len(h) + 1
        /\ Keep(a) \in Seq(Int) /\ Keep(a) # <<>>
        /\ Len(h) < Window => Keep(a) = a
        /\ Len(h) = Window => Keep(a) = Tail(a) /\ Len(Keep(a)) = Window
    BY <2>2, <2>3, KeepType
  <2>5. 2 * n >= Len(h) /\ 2 * m <= Len(Keep(a)) /\ n \in Nat /\ m \in Nat
    BY <2>2, <2>3, <2>4, HighMedian, LowMedian, CountsType
  <2>6. Cardinality(Above(a, r)) = n + 1
    BY <2>2, <2>3, AboveAppend
  <2>7. Window \in Nat /\ Window % 2 = 1
    BY WindowAssumption, OddAssumption
  <2>8. CASE Len(h) < Window
    <3>1. m = n + 1 /\ Len(Keep(a)) = Len(h) + 1
      BY <2>4, <2>6, <2>8
    <3> HIDE DEF n, m
    <3> QED BY <3>1, <2>3, <2>5
  <2>9. CASE Len(h) = Window
    <3>1. n + 1 <= m + 1
      BY <2>2, <2>4, <2>6, <2>9, AboveTail
    <3>2. Len(Keep(a)) = Len(h)
      BY <2>4, <2>9
    <3> HIDE DEF n, m
    <3>3. 2 * n = Window
      BY <3>1, <3>2, <2>3, <2>5, <2>9
    <3> QED BY <3>3, <2>5, <2>7
  <2> QED BY <2>2, <2>3, <2>7, <2>8, <2>9
<1> QED BY InitWindow, WindowNext, <1>1, PTL DEF Spec, OpensOnlyWhenCool

(* A full window trips the guard only when most of its samples are at or   *)
(* above the limit in force (thermal.py:88, 482).                          *)
THEOREM SpikesDoNotTrip == Spec => SpikeDoesNotTrip
<1>1. ASSUME WindowInv, WindowInv', [Next]_vars
      PROVE  [~tripped /\ tripped' /\ InRange /\ Len(history') = Window =>
                2 * Cardinality({i \in 1..Window : history'[i] >= thr.limit}) > Window]_vars
  <2> DEFINE h == history'
             l == thr.limit
             n == Cardinality(Above(h, l - 1))
  <2> SUFFICES ASSUME Next, ~tripped, tripped', readable', die' \in FilterRange, Len(h) = Window
               PROVE  2 * Cardinality({i \in 1..Window : h[i] >= l}) > Window
    BY <1>1 DEF InRange
  <2>1. Update
    BY DEF Next, BeginReconfigure, StoreLimit, StoreRecover, guardVars
  <2>2. h \in Seq(Int) /\ l \in Int /\ TwiceMedian(h) >= 2 * l
    <3>1. Seq(FilterRange) \subseteq Seq(Int)
      BY FilterInt
    <3> QED BY <3>1, <2>1, <1>1, AcceptedSample DEF WindowInv, Thresholds
  <2>3. Window \in Nat /\ Window >= 1 /\ Window % 2 = 1
    BY WindowAssumption, OddAssumption
  <2> HIDE DEF h, l
  <2>4. h # <<>> /\ l - 1 \in Int
    BY <2>2, <2>3
  <2>5. TwiceMedian(h) > 2 * (l - 1)
    <3>1. TwiceMedian(h) \in Int
      <4>1. Len(h) \in Nat /\ Len(h) >= 1
        BY <2>3
      <4>2. (Len(h) + 1) \div 2 \in 1..Len(h) /\ Len(h) \div 2 + 1 \in 1..Len(h)
        BY <4>1
      <4> QED BY <4>2, <2>2, OrderStatisticIs DEF TwiceMedian
    <3> QED BY <3>1, <2>2
  <2>6. 2 * n >= Window /\ n \in Nat
    BY <2>2, <2>4, <2>5, HighMedian, CountsType
  <2>7. Above(h, l - 1) = {i \in 1..Window : h[i] >= l}
    <3>1. DOMAIN h = 1..Window /\ \A i \in DOMAIN h : h[i] \in Int
      BY <2>2
    <3> QED BY <3>1, <2>2 DEF Above
  <2>8. Cardinality({i \in 1..Window : h[i] >= l}) = n
    BY <2>7, Zenon
  <2> HIDE DEF n
  <2>9. 2 * n # Window
    BY <2>3, <2>6
  <2> QED BY <2>3, <2>6, <2>8, <2>9
<1> QED BY InitWindow, WindowNext, <1>1, PTL DEF Spec, SpikeDoesNotTrip
=============================================================================
