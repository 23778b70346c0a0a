---------------------------- MODULE RotationProofs ----------------------------
(***************************************************************************)
(* Proofs about Rotation, for any base network, any numbers of nodes,      *)
(* peers, cycles, clean-ups, migrations, disconnections and                *)
(* synchronisations.                                                       *)
(***************************************************************************)
EXTENDS Rotation, FiniteSetTheorems, SequenceTheorems, WellFoundedInduction,
        TLAPS

-----------------------------------------------------------------------------
(***************************************************************************)
(* Numbers.                                                                *)
(***************************************************************************)

\* A non-empty set of natural numbers has a least element (Min picks it).
LEMMA Least ==
  ASSUME NEW T, T \subseteq Nat, T # {}
  PROVE  Min(T) \in T /\ \A k \in T : Min(T) <= k
  <1>1. PICK m \in T : \A k \in T : ~(<<k, m>> \in OpToRel(<, Nat))
    BY NatLessThanWellFounded, WFMin
  <1>2. \A k \in T : ~(k < m)
    BY <1>1 DEF OpToRel
  <1>3. \A k \in T : m =< k
    BY <1>2
  <1> QED BY <1>3 DEF Min

\* A finite one has a greatest element (Max picks it): the node with the
\* highest number, which a rotation cycle looks at first.
LEMMA Greatest ==
  ASSUME NEW T, T \subseteq Nat, T # {}, IsFiniteSet(T)
  PROVE  Max(T) \in T /\ \A k \in T : k <= Max(T)
  <1> DEFINE Top(U) == \E x \in U : \A y \in U : x >= y
             Bad == {U \in SUBSET T : U # {} /\ ~ Top(U)}
             Sizes == {Cardinality(U) : U \in Bad}
  <1>1. \A U \in Bad : IsFiniteSet(U) /\ Cardinality(U) \in Nat
    BY FS_Subset, FS_CardinalityType
  <1>2. Bad = {}
    <2> SUFFICES ASSUME Bad # {} PROVE FALSE
      OBVIOUS
    <2>1. Sizes \subseteq Nat /\ Sizes # {}
      BY <1>1
    <2>2. PICK U \in Bad : \A V \in Bad : Cardinality(U) <= Cardinality(V)
      <3>1. Min(Sizes) \in Sizes /\ \A k \in Sizes : Min(Sizes) <= k
        <4> HIDE DEF Sizes
        <4> QED BY <2>1, Least
      <3>2. PICK U \in Bad : Min(Sizes) = Cardinality(U)
        BY <3>1
      <3> HIDE DEF Bad
      <3> QED BY <3>1, <3>2
    <2>3. PICK x \in U : TRUE
      OBVIOUS
    <2>4. /\ IsFiniteSet(U \ {x}) /\ Cardinality(U \ {x}) \in Nat
          /\ Cardinality(U \ {x}) = Cardinality(U) - 1
      BY <1>1, FS_RemoveElement, FS_CardinalityType
    <2>5. U \ {x} \notin Bad
      <3> HIDE DEF Bad
      <3> QED BY <1>1, <2>2, <2>4
    <2>6. CASE U \ {x} = {}
      <3>1. \A y \in U : x >= y
        BY <2>6
      <3> QED BY <3>1
    <2>7. CASE U \ {x} # {}
      <3>1. PICK y \in U \ {x} : \A z \in U \ {x} : y >= z
        BY <2>5, <2>7
      <3>2. CASE x >= y
        <4>1. \A z \in U : x >= z
          BY <3>1, <3>2
        <4> QED BY <4>1
      <3>3. CASE y > x
        <4>1. \A z \in U : y >= z
          BY <3>1, <3>3
        <4> QED BY <4>1
      <3> QED BY <3>2, <3>3
    <2> QED BY <2>6, <2>7
  <1>3. PICK x \in T : \A y \in T : x >= y
    BY <1>2
  <1>4. Max(T) \in T /\ \A y \in T : Max(T) >= y
    BY <1>3 DEF Max
  <1> QED BY <1>4

\* Products keep the order.
LEMMA Monotone ==
  ASSUME NEW a \in Nat, NEW b \in Nat, NEW c \in Nat, a <= b
  PROVE  a * c <= b * c
  OBVIOUS

\* A multiple.
LEMMA Multiple ==
  ASSUME NEW a \in Nat, NEW m \in Nat \ {0}
  PROVE  /\ (a * m) % m = 0
         /\ a < m => a % m = a
         /\ a % m = 0 => \E k \in Nat : a = k * m
  OBVIOUS
-----------------------------------------------------------------------------
(***************************************************************************)
(* Subnets and addresses.                                                  *)
(***************************************************************************)

\* The networks that can be generated: the number of the subnet decides.
Network(i) == BaseNetwork + i * SubnetSize
Indices == 0 .. MaxSubnets - 1

\* The shift by whole subnets never leaves the base network, so it never
\* wraps (GenerateSubnetCIDR).
LEMMA NetworkFits ==
  ASSUME NEW i \in Indices
  PROVE  /\ GenerateSubnetCIDR(i) = Network(i)
         /\ Network(i) \in Nat
         /\ Network(i) + SubnetSize <= SpaceSize
         /\ Network(i) % SubnetSize = 0
         /\ InNetwork(BaseNetwork, BlockSize, Network(i))
  <1> USE NetworkAssumption, PowersAssumption DEF Indices
  <1>0. /\ SubnetSize \in Nat \ {0} /\ MaxSubnets \in Nat \ {0}
        /\ 2 ^ BaseMask \in Nat \ {0} /\ i \in Nat /\ i + 1 <= MaxSubnets
    OBVIOUS
  <1> HIDE DEF Indices
  <1>1. /\ BlockSize \in Nat \ {0} /\ SpaceSize \in Nat /\ BaseNetwork \in Nat
        /\ BaseNetwork < SpaceSize
    <2>1. \A a, b \in Nat \ {0} : a * b \in Nat \ {0}
      OBVIOUS
    <2>2. BlockSize \in Nat \ {0}
      BY <1>0, <2>1
    <2>3. SpaceSize \in Nat
      BY <1>0, <2>1, <2>2
    <2> QED BY <2>2, <2>3
  <1>2. PICK k \in Nat : BaseNetwork = k * BlockSize
    <2>1. BaseNetwork % BlockSize = 0
      OBVIOUS
    <2> QED BY <1>1, <2>1, Multiple, Zenon
  <1>3. k < 2 ^ BaseMask
    <2> SUFFICES ASSUME 2 ^ BaseMask <= k PROVE FALSE
      BY <1>0
    <2>1. 2 ^ BaseMask * BlockSize <= k * BlockSize
      BY <1>0, <1>1, Monotone
    <2> QED BY <1>1, <1>2, <2>1
  <1>4. BaseNetwork + BlockSize <= SpaceSize
    <2>1. (k + 1) * BlockSize <= 2 ^ BaseMask * BlockSize
      BY <1>0, <1>1, <1>3, Monotone
    <2>2. (k + 1) * BlockSize = k * BlockSize + BlockSize
      BY <1>1
    <2> QED BY <1>1, <1>2, <2>1, <2>2
  <1>5. i * SubnetSize + SubnetSize <= BlockSize /\ i * SubnetSize \in Nat
    <2>1. (i + 1) * SubnetSize <= MaxSubnets * SubnetSize
      BY <1>0, Monotone
    <2>2. (i + 1) * SubnetSize = i * SubnetSize + SubnetSize
      BY <1>0
    <2>3. i * SubnetSize \in Nat
      BY <1>0
    <2> QED BY <2>1, <2>2, <2>3
  <1>6. /\ Network(i) \in Nat /\ Network(i) + SubnetSize <= SpaceSize
        /\ Network(i) < BaseNetwork + BlockSize
    BY <1>0, <1>1, <1>4, <1>5 DEF Network
  <1>7. GenerateSubnetCIDR(i) = Network(i)
    BY <1>0, <1>1, <1>6, Multiple DEF GenerateSubnetCIDR, Network
  <1>8. Network(i) % SubnetSize = 0
    <2>1. k * (MaxSubnets * SubnetSize) = (k * MaxSubnets) * SubnetSize
      BY <1>0
    <2>2. (k * MaxSubnets) * SubnetSize + i * SubnetSize
             = (k * MaxSubnets + i) * SubnetSize
      BY <1>0
    <2>3. k * MaxSubnets + i \in Nat
      BY <1>0
    <2>4. Network(i) = (k * MaxSubnets + i) * SubnetSize
      BY <1>2, <2>1, <2>2 DEF Network
    <2> QED BY <1>0, <2>3, <2>4, Multiple
  <1>9. InNetwork(BaseNetwork, BlockSize, Network(i))
    BY <1>1, <1>5, <1>6 DEF InNetwork, Network
  <1> QED BY <1>6, <1>7, <1>8, <1>9

\* Subnets of different numbers share no address.
LEMMA NetworksApart ==
  ASSUME NEW i \in Indices, NEW j \in Indices, i # j
  PROVE  \/ Network(i) + SubnetSize <= Network(j)
         \/ Network(j) + SubnetSize <= Network(i)
  <1>1. \A a, b \in Indices : a < b => Network(a) + SubnetSize <= Network(b)
    <2> SUFFICES ASSUME NEW a \in Indices, NEW b \in Indices, a < b
                 PROVE  Network(a) + SubnetSize <= Network(b)
      OBVIOUS
    <2>0. /\ a \in Nat /\ b \in Nat /\ a + 1 <= b /\ SubnetSize \in Nat
          /\ BaseNetwork \in Int
      BY PowersAssumption, NetworkAssumption DEF Indices
    <2>1. (a + 1) * SubnetSize <= b * SubnetSize
      BY <2>0, Monotone
    <2>2. (a + 1) * SubnetSize = a * SubnetSize + SubnetSize
      BY <2>0
    <2> QED BY <2>0, <2>1, <2>2 DEF Network
  <1>2. i < j \/ j < i
    BY PowersAssumption DEF Indices
  <1> QED BY <1>1, <1>2

\* What a subnet in the table is: one of those generated.
Generated(s) == \E i \in Indices : s = NewSubnet(Network(i))

\* The search gives a subnet that nobody has, or none.
LEMMA NextSubnet ==
  ASSUME NEW used
  PROVE  LET s == FindNextAvailableSubnet(used) IN
         s # NoSubnet => Generated(s) /\ s.network \notin used
  <1> DEFINE free == {i \in 0 .. MaxSubnets - 1 : GenerateSubnetCIDR(i) \notin used}
             least == CHOOSE i \in free : \A j \in free : i <= j
  <1> SUFFICES ASSUME FindNextAvailableSubnet(used) # NoSubnet
               PROVE  /\ Generated(FindNextAvailableSubnet(used))
                      /\ FindNextAvailableSubnet(used).network \notin used
    OBVIOUS
  <1>1. /\ free # {}
        /\ FindNextAvailableSubnet(used) = NewSubnet(GenerateSubnetCIDR(least))
    BY DEF FindNextAvailableSubnet
  <1>2. least \in free
    <2>1. free \subseteq Nat
      BY PowersAssumption
    <2> HIDE DEF free
    <2> QED BY <1>1, <2>1, Least
  <1>3. least \in Indices /\ GenerateSubnetCIDR(least) = Network(least)
    <2>1. least \in Indices
      BY <1>2 DEF Indices
    <2> HIDE DEF least
    <2> QED BY <2>1, NetworkFits
  <1>4. FindNextAvailableSubnet(used) = NewSubnet(Network(least))
    BY <1>1, <1>3
  <1>5. Network(least) \notin used
    BY <1>2, <1>3
  <1> HIDE DEF least
  <1> QED BY <1>3, <1>4, <1>5 DEF Generated, NewSubnet

\* A generated subnet, its gateway and its range of client addresses.
LEMMA SubnetShape ==
  ASSUME NEW s, Generated(s)
  PROVE  /\ s \in Subnet /\ ValidateSubnetAllocation(s) /\ s # NoSubnet
         /\ s.network \in Nat /\ s.gateway = s.network + 1
         /\ s.start = s.network + 2 /\ s.end = s.network + SubnetSize - 2
         /\ s.start <= s.end /\ s.start .. s.end \subseteq Addresses
  <1>1. PICK i \in Indices : s = NewSubnet(Network(i))
    BY DEF Generated
  <1>2. /\ s.network = Network(i) /\ s.gateway = s.network + 1
        /\ s.start = s.network + 2 /\ s.end = Broadcast(s.network) - 1
    BY <1>1 DEF NewSubnet
  <1>3. /\ SubnetSize \in Nat /\ SubnetSize >= 4
        /\ s.network \in Nat /\ s.network + SubnetSize <= SpaceSize
    BY <1>2, NetworkFits, PowersAssumption
  <1>10. s.end = s.network + SubnetSize - 2
    BY <1>2, <1>3 DEF Broadcast
  <1>4. SpaceSize \in Int
    <2>1. \A a, b \in Nat : a * b \in Nat
      OBVIOUS
    <2>2. BlockSize \in Nat
      BY <2>1, PowersAssumption
    <2> QED BY <2>1, <2>2, PowersAssumption
  <1>5. s \in Subnet
    BY <1>1, <1>2, <1>3, <1>4 DEF Subnet, Addresses
  <1>6. ValidateSubnetAllocation(s)
    BY <1>2, NetworkFits DEF ValidateSubnetAllocation
  <1>7. s # NoSubnet
    BY <1>3 DEF NoSubnet
  <1>8. s.start .. s.end \subseteq Addresses
    BY <1>2, <1>3, <1>4, <1>10 DEF Addresses
  <1> QED BY <1>2, <1>3, <1>5, <1>6, <1>7, <1>8, <1>10

\* The walk finds the lowest free client address of a subnet, and none only
\* when there is none (FindNextAvailableIP).
LEMMA NextAddress ==
  ASSUME NEW s, Generated(s), NEW used
  PROVE  LET free == (s.start .. s.end) \ used
             i == FindNextAvailableIP(s, used)
         IN  IF free = {} THEN i = NoAddress
             ELSE i \in free /\ \A j \in free : i <= j
  <1> DEFINE R == s.start .. s.end
             Ends(a) == ~InNetwork(s.network, SubnetSize, a + 1) \/ a + 1 > s.end
             Is(W) == W = [a \in R |-> IF a \notin used THEN a
                                       ELSE IF Ends(a) THEN NoAddress ELSE W[a + 1]]
             From(a) == (a .. s.end) \ used
             V == [a \in R |-> IF From(a) = {} THEN NoAddress ELSE Min(From(a))]
             Walk == CHOOSE W : Is(W)
  <1>1. /\ s.network \in Nat /\ s.start = s.network + 2
        /\ s.end = s.network + SubnetSize - 2 /\ SubnetSize \in Nat
        /\ s.start \in Nat /\ s.end \in Nat /\ s.start <= s.end
    BY SubnetShape, PowersAssumption
  <1>2. \A a \in R : Ends(a) <=> a = s.end
    BY <1>1 DEF InNetwork
  <1>3. \A a \in R : From(a) # {} => Min(From(a)) \in From(a)
                                     /\ \A j \in From(a) : Min(From(a)) <= j
    <2> TAKE a \in R
    <2>1. From(a) \subseteq Nat
      BY <1>1
    <2> HIDE DEF From
    <2> QED BY <2>1, Least
  <1>4. \A a \in R : V[a] = IF a \notin used THEN a
                            ELSE IF a = s.end THEN NoAddress ELSE V[a + 1]
    <2> TAKE a \in R
    <2>0. a \in Nat /\ s.start <= a /\ a <= s.end
      BY <1>1
    <2>1. CASE a \notin used
      <3>1. a \in From(a)
        BY <2>0, <2>1
      <3>2. Min(From(a)) \in From(a) /\ Min(From(a)) <= a
        BY <1>3, <3>1
      <3>3. Min(From(a)) = a
        BY <2>0, <3>2
      <3> QED BY <2>1, <3>1, <3>3
    <2>2. CASE a \in used /\ a = s.end
      <3>1. From(a) = {}
        BY <2>0, <2>2
      <3> QED BY <2>2, <3>1
    <2>3. CASE a \in used /\ a # s.end
      <3>1. From(a) = From(a + 1) /\ a + 1 \in R
        BY <1>1, <2>0, <2>3
      <3> HIDE DEF From
      <3> QED BY <2>3, <3>1
    <2> QED BY <2>1, <2>2, <2>3
  <1> HIDE DEF From
  <1>5. Is(V)
    <2>1. V = [a \in R |-> V[a]]
      OBVIOUS
    <2>2. \A a \in R : V[a] = IF a \notin used THEN a
                              ELSE IF Ends(a) THEN NoAddress ELSE V[a + 1]
      BY <1>2, <1>4
    <2> HIDE DEF V, R, Ends
    <2>3. [a \in R |-> V[a]] = [a \in R |-> IF a \notin used THEN a
                              ELSE IF Ends(a) THEN NoAddress ELSE V[a + 1]]
      BY <2>2
    <2> QED BY <2>1, <2>3
  <1>6. Is(Walk)
    <2> HIDE DEF Is, V
    <2> QED BY <1>5
  <1>7. FindNextAvailableIP(s, used) = Walk[s.start]
    BY DEF FindNextAvailableIP
  <1> HIDE DEF Walk
  <1>8. \A a \in R : Walk[a] = IF a \notin used THEN a
                               ELSE IF a = s.end THEN NoAddress ELSE Walk[a + 1]
    <2> TAKE a \in R
    <2>1. Walk[a] = IF a \notin used THEN a
                    ELSE IF Ends(a) THEN NoAddress ELSE Walk[a + 1]
      <3> HIDE DEF Ends, R
      <3> QED BY <1>6
    <2> HIDE DEF Ends
    <2> QED BY <1>2, <2>1
  <1>9. \A a \in R : Walk[a] = V[a]
    <2> DEFINE Bad == {a \in R : Walk[a] # V[a]}
    <2> SUFFICES ASSUME Bad # {} PROVE FALSE
      OBVIOUS
    <2>1. PICK a \in Bad : \A b \in Bad : b <= a
      <3>0. s.start \in Int /\ s.end \in Int
        BY <1>1
      <3>1. IsFiniteSet(R)
        <4> HIDE DEF Bad, V, Is
        <4> QED BY <3>0, FS_Interval
      <3>3. R \subseteq Nat
        BY <1>1
      <3>2. IsFiniteSet(Bad) /\ Bad \subseteq Nat
        BY <3>1, <3>3, FS_Subset
      <3> HIDE DEF Bad
      <3> QED BY <3>2, Greatest
    <2>2. a \in R /\ Walk[a] # V[a] /\ a \in Nat /\ s.start <= a /\ a <= s.end
      BY <1>1, <2>1
    <2> HIDE DEF V
    <2>3. a \in used /\ a # s.end
      BY <1>4, <1>8, <2>2
    <2>4. a + 1 \in R /\ a + 1 \notin Bad
      BY <1>1, <2>1, <2>2, <2>3
    <2>5. Walk[a + 1] = V[a + 1]
      BY <2>4
    <2> QED BY <1>4, <1>8, <2>2, <2>3, <2>5
  <1>10. s.start \in R
    BY <1>1
  <1>11. FindNextAvailableIP(s, used) = IF From(s.start) = {} THEN NoAddress
                                        ELSE Min(From(s.start))
    BY <1>7, <1>9, <1>10
  <1> QED BY <1>3, <1>10, <1>11 DEF From

\* There are as many free addresses as GetAvailableIPCount says, as long as
\* only client addresses are in use.
LEMMA FreeAddresses ==
  ASSUME NEW s, Generated(s), NEW used, used \subseteq s.start .. s.end
  PROVE  AvailableIPs(Cardinality(used)) = Cardinality((s.start .. s.end) \ used)
  <1> DEFINE R == s.start .. s.end
  <1>1. /\ s.start \in Int /\ s.end \in Int /\ s.start <= s.end
        /\ s.end - s.start + 1 = SubnetSize - 3 /\ SubnetSize \in Nat
    BY SubnetShape, PowersAssumption
  <1>2. IsFiniteSet(R) /\ Cardinality(R) = SubnetSize - 3
    BY <1>1, FS_Interval
  <1>3. IsFiniteSet(used) /\ Cardinality(used) \in Nat
        /\ Cardinality(used) <= Cardinality(R)
    BY <1>2, FS_Subset, FS_CardinalityType
  <1>4. Cardinality(R \ used) = Cardinality(R) - Cardinality(R \cap used)
    BY <1>2, FS_Difference
  <1>5. R \cap used = used
    OBVIOUS
  <1> HIDE DEF R
  <1>6. AvailableIPs(Cardinality(used)) = SubnetSize - 3 - Cardinality(used)
    BY <1>1, <1>2, <1>3 DEF AvailableIPs, TotalIPs
  <1> QED BY <1>1, <1>2, <1>4, <1>5, <1>6 DEF R
-----------------------------------------------------------------------------
(***************************************************************************)
(* The order of rotation.                                                  *)
(***************************************************************************)

\* A pass of the outer loop exchanges two entries or none.
LEMMA PassTyped ==
  ASSUME NEW S, NEW s \in Seq(S), NEW i \in 1 .. Len(s)
  PROVE  /\ Pass(s, i, Len(s)) \in Seq(S)
         /\ Len(Pass(s, i, Len(s))) = Len(s)
  <1> DEFINE later == {j \in i + 1 .. Len(s) : s[j].priority < s[i].priority}
  <1>1. CASE later = {}
    BY <1>1 DEF Pass
  <1>2. CASE later # {}
    <2>1. later \subseteq Nat
      OBVIOUS
    <2>2. Min(later) \in later
      <3> HIDE DEF later
      <3> QED BY <1>2, <2>1, Least
    <2>3. Min(later) \in 1 .. Len(s)
      BY <2>2
    <2>4. Pass(s, i, Len(s)) = [s EXCEPT ![i] = s[Min(later)], ![Min(later)] = s[i]]
      BY <1>2 DEF Pass
    <2> HIDE DEF later
    <2> QED BY <2>3, <2>4
  <1> QED BY <1>1, <1>2

\* Sorting gives a list of the same kind and length.
LEMMA SortTyped ==
  ASSUME NEW S, NEW s \in Seq(S)
  PROVE  SortByPriority(s) \in Seq(S) /\ Len(SortByPriority(s)) = Len(s)
  <1> DEFINE last == Len(s)
             Good == {t \in Seq(S) : Len(t) = last}
             Is(A, k) == A = [i \in 0 .. k |-> IF i = 0 THEN s ELSE Pass(A[i - 1], i, last)]
             After == CHOOSE A : Is(A, last)
             Bad == {k \in 0 .. last : ~ \E A \in [0 .. k -> Good] : Is(A, k)}
  <1>0. last \in Nat
    OBVIOUS
  <1>1. \A t \in Good : \A i \in 1 .. last : Pass(t, i, last) \in Good
    BY PassTyped
  <1>2. Bad = {}
    <2> SUFFICES ASSUME Bad # {} PROVE FALSE
      OBVIOUS
    <2>1. PICK k \in Bad : \A j \in Bad : k <= j
      <3>1. Bad \subseteq Nat
        OBVIOUS
      <3> HIDE DEF Bad
      <3> QED BY <3>1, Least
    <2>2. CASE k = 0
      <3> DEFINE A == [i \in 0 .. 0 |-> s]
      <3>1. A \in [0 .. 0 -> Good]
        OBVIOUS
      <3>2. Is(A, 0)
        OBVIOUS
      <3> HIDE DEF A, Is, Good
      <3> QED BY <2>1, <2>2, <3>1, <3>2
    <2>3. CASE k # 0
      <3>0. k \in 1 .. last /\ k - 1 \in 0 .. last /\ k - 1 \notin Bad
        <4>1. k \in 0 .. last
          BY <2>1
        <4> HIDE DEF Bad, last
        <4> QED BY <1>0, <2>1, <2>3, <4>1
      <3>1. PICK B \in [0 .. k - 1 -> Good] : Is(B, k - 1)
        <4> HIDE DEF Is, Good
        <4> QED BY <3>0
      <3> DEFINE A == [i \in 0 .. k |-> IF i = k THEN Pass(B[k - 1], k, last) ELSE B[i]]
      <3>2. Pass(B[k - 1], k, last) \in Good
        <4> HIDE DEF Good
        <4> QED BY <1>1, <3>0, <3>1
      <3>3. A \in [0 .. k -> Good]
        <4> HIDE DEF Good, Is
        <4> QED BY <3>0, <3>1, <3>2
      <3>4. \A i \in 0 .. k : A[i] = IF i = 0 THEN s ELSE Pass(A[i - 1], i, last)
        <4> TAKE i \in 0 .. k
        <4>1. CASE i = k
          BY <3>0, <4>1
        <4>2. CASE i # k
          <5>1. i \in 0 .. k - 1
            BY <3>0, <4>2
          <5>2. B[i] = IF i = 0 THEN s ELSE Pass(B[i - 1], i, last)
            BY <3>1, <5>1
          <5>3. A[i] = B[i] /\ (i # 0 => A[i - 1] = B[i - 1])
            BY <3>0, <4>2, <5>1
          <5> HIDE DEF A
          <5> QED BY <5>2, <5>3
        <4> QED BY <4>1, <4>2
      <3>5. Is(A, k)
        <4>1. A = [i \in 0 .. k |-> A[i]]
          OBVIOUS
        <4> HIDE DEF A
        <4>2. [i \in 0 .. k |-> A[i]]
                 = [i \in 0 .. k |-> IF i = 0 THEN s ELSE Pass(A[i - 1], i, last)]
          BY <3>4
        <4> QED BY <4>1, <4>2
      <3> HIDE DEF A, Is, Good
      <3> QED BY <2>1, <3>3, <3>5
    <2> QED BY <2>2, <2>3
  <1>3. \E A : Is(A, last)
    <2>1. last \in 0 .. last /\ last \notin Bad
      <3> HIDE DEF Bad, last
      <3> QED BY <1>0, <1>2
    <2> HIDE DEF Is, Good
    <2> QED BY <2>1
  <1>4. Is(After, last)
    <2> HIDE DEF Is
    <2> QED BY <1>3
  <1>5. SortByPriority(s) = After[last]
    BY DEF SortByPriority, Loops
  <1> HIDE DEF After
  <1>6. \A i \in 0 .. last : After[i] = IF i = 0 THEN s ELSE Pass(After[i - 1], i, last)
    BY <1>4
  <1>7. \A i \in 0 .. last : After[i] \in Good
    <2> DEFINE Wrong == {i \in 0 .. last : After[i] \notin Good}
    <2> SUFFICES ASSUME Wrong # {} PROVE FALSE
      OBVIOUS
    <2>1. PICK k \in Wrong : \A j \in Wrong : k <= j
      <3>1. Wrong \subseteq Nat
        OBVIOUS
      <3> HIDE DEF Wrong
      <3> QED BY <3>1, Least
    <2>2. CASE k = 0
      <3>1. After[0] = s
        BY <1>0, <1>6
      <3> QED BY <2>1, <2>2, <3>1
    <2>3. CASE k # 0
      <3>1. k \in 1 .. last /\ k - 1 \in 0 .. last /\ k - 1 \notin Wrong
        BY <1>0, <2>1, <2>3
      <3>2. After[k] = Pass(After[k - 1], k, last)
        BY <1>6, <3>1
      <3>3. After[k - 1] \in Good
        BY <3>1
      <3> HIDE DEF Good
      <3> QED BY <1>1, <2>1, <3>1, <3>2, <3>3
    <2> QED BY <2>2, <2>3
  <1> QED BY <1>0, <1>5, <1>7
-----------------------------------------------------------------------------

(***************************************************************************)
(* The inductive invariant, in four parts; each may rely on the earlier.   *)
(***************************************************************************)

\* Frames and calls fit together.
InHand == {"check", "update", "getTarget", "add", "getSource", "remove"}
Commands == {"look", "unset", "save", "show", "write"} \cup Returned

Adding(f, n, p, i) ==
  /\ f.node = n /\ f.peer = p /\ f.ip = i /\ f.after \in Returned
  /\ f.pc \in Commands \cup {"list", "set", "verify"}
  /\ f.pc \in {"list", "set", "verify"} => f.after = "ok"
  /\ f.pc \in {"look", "unset"} => f.after = "failed"

Removing(f, n, p) ==
  f.node = n /\ f.peer = p /\ f.after = "ok" /\ f.pc \in Commands

CallOK(c) ==
  LET f == call[c] IN
  /\ f.pc = "idle" => f = NoCall
  /\ f.pc # "idle" => f.node \in Nodes /\ f.peer \in Peers
  /\ f.pc \in {"list", "set", "verify"} \/ f.after = "list" => f.ip \in Addresses
  /\ f.pc = "write" => f.text \in Config

MigOK(m) ==
  LET f == mig[m] IN
  /\ f.pc # "idle" => m \in scene
  /\ f.pc \in InHand => f.peer \in Peers /\ f.ip \in Addresses
  /\ f.pc = "add" => Adding(call[m], Route[m].target, f.peer, f.ip)
  /\ f.pc = "remove" => Removing(call[m], Route[m].source, f.peer)
  /\ f.pc \notin {"add", "remove"} => call[m] = NoCall

DiscOK(d) ==
  LET f == disc[d] IN
  /\ f.pc # "idle" => d \in scene /\ f.peer \in Peers /\ f.node \in Nodes
  /\ f.pc = "remove" => Removing(call[d], f.node, f.peer)
  /\ f.pc # "remove" => call[d] = NoCall

SyncOK(s) ==
  LET f == sync[s] IN
  /\ f.pc # "idle" => s \in scene
  /\ f.pc # "run" => call[s] = NoCall
  /\ \A p \in f.change \cup f.add : f.desired[p] \in Addresses

CycleOK(c) ==
  /\ cycle[c].pc # "idle" => c \in scene
  /\ cycle[c].pc = "publish" => cycle[c].chosen # <<>>

CleanOK(k) ==
  /\ clean[k].pc # "idle" => k \in scene
  /\ clean[k].pc = "delete" => clean[k].todo # {}

FramesOK ==
  /\ \A c \in Callers : CallOK(c)
  /\ \A m \in Migrations : MigOK(m)
  /\ \A d \in Disconnects : DiscOK(d)
  /\ \A s \in Syncs : SyncOK(s)
  /\ \A c \in Cycles : CycleOK(c)
  /\ \A k \in Cleaners : CleanOK(k)
  /\ scene \cap Cleaners = {} => \A n \in Nodes : Standing(n)

\* The tables: which subnets there are, and where a migration has looked.
SubnetsOK ==
  \A n \in Nodes :
     /\ subnets[n] = NoSubnet \/ Generated(subnets[n])
     /\ subnets[n] # NoSubnet => HasRow(n)
     /\ \A m \in Nodes \ {n} : subnets[n] # NoSubnet =>
           subnets[m].network # subnets[n].network

RangeOK(m) ==
  LET s == subnets[Route[m].target] IN
  mig[m].pc \in {"check", "update"} =>
     /\ status[Route[m].target] # "none"
     /\ s # NoSubnet => mig[m].ip \in s.start .. s.end

TablesInv ==
  /\ SubnetsOK
  /\ AddressesSound
  /\ \A m \in Migrations : RangeOK(m)

\* Migrations: where a peer's row and its entries are.
Leaves(m, p) == Route[m].source = Home[p]

PlaceOK(p) ==
  Present(p) => \/ peers[p].node = Home[p]
                \/ \E m \in Migrations \cap scene :
                      Leaves(m, p) /\ peers[p].node = Route[m].target

SetsOK(m) ==
  LET f == mig[m] IN
  /\ \A p \in f.todo \cup f.moved \cup f.errors : Leaves(m, p)
  /\ f.todo \cap f.moved = {} /\ f.todo \cap f.errors = {}
  /\ f.moved \cap f.errors = {} /\ f.warned \subseteq f.moved
  /\ f.pc \in InHand =>
        Leaves(m, f.peer) /\ f.peer \notin f.todo \cup f.moved \cup f.errors
  /\ f.pc \notin InHand => f.peer = "none"
  /\ f.pc = "idle" => f.todo \cup f.moved \cup f.errors = {}

\* The address a migration is about to set is nobody else's on the target.
Only(m) == \A l \in Migrations \cap scene : Route[l].target = Route[m].target => l = m
Reserved(m) ==
  LET f == mig[m] IN
  f.pc \in {"getTarget", "add"} \/ (f.pc \in {"check", "update"} /\ Only(m)) =>
     \A q \in Peers \ {f.peer} :
        Present(q) /\ peers[q].node = Route[m].target => peers[q].ip # f.ip

Before(m, p) ==
  p \in mig[m].todo \/ (p = mig[m].peer /\ mig[m].pc \in {"check", "update"})
Half(m, p) ==
  p \in mig[m].errors \/ (p = mig[m].peer /\ mig[m].pc \in {"getTarget", "add"})
After(m, p) ==
  p \in mig[m].moved \/ (p = mig[m].peer /\ mig[m].pc \in {"getSource", "remove"})

Served(p) ==
  LET h == Home[p] IN
  /\ ~Present(p) => \A n \in Nodes : wg[n][p] = Absent
  /\ Present(p) /\ peers[p].node = h =>
        /\ wg[h][p] = peers[p].ip
        /\ \A n \in Nodes \ {h} : wg[n][p] = Absent
  /\ \A m \in Migrations : Leaves(m, p) =>
        LET t == Route[m].target IN
        /\ Before(m, p) => peers[p].node = h
        /\ p = mig[m].peer /\ mig[m].pc \in {"getTarget", "add"} =>
              peers[p].node = t /\ peers[p].ip = mig[m].ip
        /\ After(m, p) => peers[p].node = t
        /\ peers[p].node = t =>
              /\ Half(m, p) \/ After(m, p)
              /\ \A n \in Nodes \ {h, t} : wg[n][p] = Absent
              /\ Half(m, p) => wg[h][p] \in Addresses
              /\ After(m, p) => wg[t][p] = peers[p].ip
              /\ p \in mig[m].moved \ mig[m].warned => wg[h][p] = Absent

Effect(m) ==
  LET f == mig[m]
      g == call[m] IN
  f.peer \notin Disconnected =>
     /\ f.pc = "add" /\ (g.pc \in {"verify", "ok"}
                         \/ (g.pc \in {"save", "show", "write"} /\ g.after = "ok")) =>
           wg[Route[m].target][f.peer] = f.ip
     /\ f.pc = "remove" /\ g.pc \in {"save", "show", "write", "ok"} =>
           wg[Route[m].source][f.peer] = Absent

MovingInv ==
  /\ \A d \in Disconnects : disc[d].pc = "idle" => disc[d].peer = "none"
  /\ \A p \in Peers : PlaceOK(p)
  /\ \A m \in Migrations : SetsOK(m) /\ Reserved(m)
  /\ Moving => \A p \in Peers \ Disconnected : Served(p)
  /\ \A m \in Migrations : Effect(m)

\* The interface and its file.
Pending(n, g) ==
  g.node = n /\ (g.pc = "save" \/ (g.pc = "verify" /\ wg[n][g.peer] # Absent))
FileInv ==
  faults = 0 =>
     /\ \A c \in Callers : call[c].pc \notin {"show", "write"}
     /\ \A n \in Nodes : Standing(n) =>
           file[n] = wg[n] \/ \E c \in Callers : Pending(n, call[c])

Wanted(f) == {p \in Peers : f.desired[p] # Absent}
Open(f, g) == f.drop \cup f.change \cup f.add \cup {g.peer}

\* The plan of a synchronisation, and its call.
PlanOK(f) ==
  /\ \A p \in Wanted(f) : f.desired[p] \in Addresses
  /\ \A p, q \in Wanted(f) : f.desired[p] = f.desired[q] => p = q
  /\ f.drop \cap Wanted(f) = {} /\ f.change \cup f.add \cup f.kept \subseteq Wanted(f)
  /\ f.change \cap f.add = {} /\ f.kept \cap (f.change \cup f.add) = {}

CallOfPlan(f, g) ==
  g # NoCall =>
     /\ g.node = SyncNode /\ g.peer \in Peers
     /\ g.peer \notin f.drop \cup f.change \cup f.add \cup f.kept
     /\ g.peer \in Wanted(f) => f.drop = {}
     /\ g.pc \in {"list", "set", "verify"} \/ g.after = "list" =>
           g.peer \in Wanted(f) /\ g.ip = f.desired[g.peer]

\* The peer in hand, when nothing fails.
Midway(f, g) ==
  LET i == wg[SyncNode][g.peer]
      wanted == f.desired[g.peer] IN
  /\ g.peer \notin Wanted(f) =>
        /\ g.after = "ok" /\ g.pc \in {"look", "unset", "save", "ok"}
        /\ g.pc \in {"save", "ok"} => i = Absent
  /\ g.peer \in Wanted(f) =>
        /\ g.pc \in {"look", "unset"} => g.after = "list"
        /\ g.pc \in {"list", "set", "verify"} => g.after = "ok"
        /\ g.pc \in {"list", "set"} \/ (g.pc = "save" /\ g.after = "list") => i = Absent
        /\ g.pc = "set" => \A q \in Peers : wg[SyncNode][q] # wanted
        /\ g.pc = "save" => g.after \in {"ok", "list"}
        /\ g.pc \in {"verify", "ok"} \/ (g.pc = "save" /\ g.after = "ok") => i = wanted
        /\ g.pc = "failed" => i = Absent /\ g.peer \in f.clash

Reached(f, g) ==
  /\ \A p \in Peers \ Wanted(f) : p \notin Open(f, g) => wg[SyncNode][p] = Absent
  /\ \A p \in Wanted(f) : p \notin Open(f, g) =>
        \/ wg[SyncNode][p] = f.desired[p]
        \/ p \in f.clash /\ wg[SyncNode][p] = Absent
  /\ \A p \in f.add : wg[SyncNode][p] = Absent
  /\ \A p \in f.change : \A q \in Wanted(f) \ {p} :
        wg[SyncNode][p] = f.desired[q] => q \in f.clash
  /\ g # NoCall => Midway(f, g)

SyncInv(s) ==
  LET f == sync[s]
      g == call[s] IN
  /\ PlanOK(f)
  /\ f.pc = "run" => CallOfPlan(f, g) /\ \A p \in f.kept : wg[SyncNode][p] = f.desired[p]
  /\ f.pc \in {"run", "done"} /\ faults = 0 => Reached(f, g)
  /\ f.pc = "done" => f.drop \cup f.change \cup f.add = {}

InterfaceInv == FileInv /\ \A s \in Syncs : SyncInv(s)

-----------------------------------------------------------------------------

(***************************************************************************)
(* The commands of a call.                                                 *)
(***************************************************************************)

\* Every failure is counted.
LEMMA FaultsCount ==
  ASSUME faults \in 0 .. MaxFaults, NEW k, Sound \/ Fault(k)
  PROVE  faults' \in 0 .. MaxFaults
  BY CallsAssumption DEF Sound, Fault

\* A configuration with one entry changed.
LEMMA SetTyped ==
  ASSUME wg \in [Nodes -> Config], NEW n \in Nodes, NEW p \in Peers
  PROVE  /\ \A i \in Addresses : Set(n, p, i) => wg' \in [Nodes -> Config]
         /\ Unset(n, p) => wg' \in [Nodes -> Config]
  <1>0. wg[n] \in Config
    OBVIOUS
  <1>1. ASSUME NEW i \in Addresses, Set(n, p, i)
        PROVE  wg' \in [Nodes -> Config]
    <2> DEFINE w == [q \in Peers |-> IF q = p THEN i
                                     ELSE IF wg[n][q] = i THEN NoIP ELSE wg[n][q]]
    <2>1. w \in Config
      BY <1>0 DEF Config
    <2>2. wg' = [wg EXCEPT ![n] = w]
      BY <1>1 DEF Set
    <2> HIDE DEF w
    <2> QED BY <2>1, <2>2
  <1>2. ASSUME Unset(n, p) PROVE wg' \in [Nodes -> Config]
    <2>1. [wg[n] EXCEPT ![p] = Absent] \in Config
      BY <1>0 DEF Config
    <2>2. wg' = [wg EXCEPT ![n] = [wg[n] EXCEPT ![p] = Absent]]
      BY <1>2 DEF Unset
    <2> QED BY <2>1, <2>2
  <1> QED BY <1>1, <1>2

\* What a command does to the frame of its call.
Follows(f, g) ==
  /\ f.pc \in {"list", "set", "verify", "look", "unset", "save", "show", "write"}
  /\ g.node = f.node /\ g.peer = f.peer /\ g.ip = f.ip
  /\ \/ /\ f.pc = "list" /\ g = [f EXCEPT !.pc = g.pc] /\ g.pc \in {"set", "failed"}
     \/ /\ f.pc = "set" /\ g = [f EXCEPT !.pc = g.pc] /\ g.pc \in {"verify", "failed"}
     \/ /\ f.pc = "verify" /\ g = [f EXCEPT !.pc = "save"]
     \/ /\ f.pc = "verify" /\ g = [f EXCEPT !.pc = "look", !.after = "failed"]
     \/ /\ f.pc = "look" /\ g = [f EXCEPT !.pc = "unset"]
     \/ /\ f.pc = "unset" /\ g = [f EXCEPT !.pc = "save"]
     \/ /\ f.pc = "unset" /\ f.after # "list" /\ g = [f EXCEPT !.pc = "failed"]
     \/ /\ f.pc = "save" /\ g = [f EXCEPT !.pc = "show"]
     \/ /\ f.pc = "show" /\ g = [f EXCEPT !.pc = "write", !.text = wg[f.node]]
     \/ /\ \/ f.pc \in {"look", "save", "show", "write"}
           \/ f.pc = "unset" /\ f.after = "list"
        /\ g = [f EXCEPT !.pc = f.after, !.after = "ok", !.text = <<>>]

\* A command moves one call on.
LEMMA CommandFollows ==
  ASSUME CallsTypeOK, NEW c \in Callers, CallStep(c)
  PROVE  /\ Follows(call[c], call'[c])
         /\ call' = [call EXCEPT ![c] = call'[c]]
         /\ faults' \in 0 .. MaxFaults
  <1> DEFINE f == call[c]
  <1>0. f \in Frame /\ call \in [Callers -> Frame] /\ faults \in 0 .. MaxFaults
    BY DEF CallsTypeOK
  <1>1. \A pc : Goto(c, pc) => /\ call'[c] = [f EXCEPT !.pc = pc]
                               /\ call' = [call EXCEPT ![c] = call'[c]]
    BY <1>0 DEF Goto
  <1>2. Return(c) => /\ call'[c] = [f EXCEPT !.pc = f.after, !.after = "ok", !.text = <<>>]
                     /\ call' = [call EXCEPT ![c] = call'[c]]
    BY <1>0 DEF Return
  <1>3. faults' \in 0 .. MaxFaults
    BY <1>0, FaultsCount
       DEF CallStep, ListForAdd, SetPeer, Verify, LookForPeer, UnsetPeer,
           SaveConfig, ShowConf, WriteConf
  <1>4. CASE ListForAdd(c)
    <2>1. PICK pc \in {"set", "failed"} : Goto(c, pc)
      BY <1>4 DEF ListForAdd
    <2>2. f.pc = "list"
      BY <1>4 DEF ListForAdd
    <2>3. call'[c] = [f EXCEPT !.pc = pc] /\ call'[c].pc = pc
      BY <1>0, <1>1, <2>1 DEF Frame
    <2>4. /\ call'[c].node = f.node /\ call'[c].peer = f.peer
          /\ call'[c].ip = f.ip
      BY <1>0, <2>3 DEF Frame
    <2> QED BY <1>1, <1>3, <2>1, <2>2, <2>3, <2>4 DEF Follows
  <1>5. CASE SetPeer(c)
    <2>1. PICK pc \in {"verify", "failed"} : Goto(c, pc)
      BY <1>5 DEF SetPeer
    <2>2. f.pc = "set"
      BY <1>5 DEF SetPeer
    <2>3. call'[c] = [f EXCEPT !.pc = pc] /\ call'[c].pc = pc
      BY <1>0, <1>1, <2>1 DEF Frame
    <2>4. /\ call'[c].node = f.node /\ call'[c].peer = f.peer
          /\ call'[c].ip = f.ip
      BY <1>0, <2>3 DEF Frame
    <2> QED BY <1>1, <1>3, <2>1, <2>2, <2>3, <2>4 DEF Follows
  <1>6. CASE Verify(c)
    <2>1. \/ Goto(c, "save")
          \/ call' = [call EXCEPT ![c].pc = "look", ![c].after = "failed"]
      BY <1>6 DEF Verify
    <2>2. f.pc = "verify"
      BY <1>6 DEF Verify
    <2>3. CASE Goto(c, "save")
      BY <1>0, <1>1, <1>3, <2>2, <2>3 DEF Follows, Frame
    <2>4. CASE call' = [call EXCEPT ![c].pc = "look", ![c].after = "failed"]
      BY <1>0, <1>3, <2>2, <2>4 DEF Follows, Frame
    <2> QED BY <2>1, <2>3, <2>4
  <1>7. CASE LookForPeer(c)
    <2>1. Return(c) \/ Goto(c, "unset")
      BY <1>7 DEF LookForPeer
    <2>2. f.pc = "look"
      BY <1>7 DEF LookForPeer
    <2>3. CASE Return(c)
      BY <1>0, <1>2, <1>3, <2>2, <2>3 DEF Follows, Frame
    <2>4. CASE Goto(c, "unset")
      BY <1>0, <1>1, <1>3, <2>2, <2>4 DEF Follows, Frame
    <2> QED BY <2>1, <2>3, <2>4
  <1>8. CASE UnsetPeer(c)
    <2>1. \/ Goto(c, "save")
          \/ f.after = "list" /\ Return(c)
          \/ f.after # "list" /\ Goto(c, "failed")
      BY <1>8 DEF UnsetPeer, RemovalFailed
    <2>2. f.pc = "unset"
      BY <1>8 DEF UnsetPeer
    <2>3. CASE f.after = "list" /\ Return(c)
      BY <1>0, <1>2, <1>3, <2>2, <2>3 DEF Follows, Frame
    <2>4. CASE Goto(c, "save")
      BY <1>0, <1>1, <1>3, <2>2, <2>4 DEF Follows, Frame
    <2>5. CASE f.after # "list" /\ Goto(c, "failed")
      BY <1>0, <1>1, <1>3, <2>2, <2>5 DEF Follows, Frame
    <2> QED BY <2>1, <2>3, <2>4, <2>5
  <1>9. CASE SaveConfig(c)
    <2>1. Return(c) \/ Goto(c, "show")
      BY <1>9 DEF SaveConfig
    <2>2. f.pc = "save"
      BY <1>9 DEF SaveConfig
    <2> QED BY <1>0, <1>1, <1>2, <1>3, <2>1, <2>2 DEF Follows, Frame
  <1>10. CASE ShowConf(c)
    <2>1. \/ Return(c)
          \/ call' = [call EXCEPT ![c].pc = "write", ![c].text = wg[f.node]]
      BY <1>10 DEF ShowConf
    <2>2. f.pc = "show"
      BY <1>10 DEF ShowConf
    <2>3. CASE Return(c)
      BY <1>0, <1>2, <1>3, <2>2, <2>3 DEF Follows, Frame
    <2>4. CASE call' = [call EXCEPT ![c].pc = "write", ![c].text = wg[f.node]]
      BY <1>0, <1>3, <2>2, <2>4 DEF Follows, Frame
    <2> QED BY <2>1, <2>3, <2>4
  <1>11. CASE WriteConf(c)
    <2>1. Return(c)
      BY <1>11 DEF WriteConf
    <2>2. f.pc = "write"
      BY <1>11 DEF WriteConf
    <2> QED BY <1>0, <1>2, <1>3, <2>1, <2>2 DEF Follows, Frame
  <1> QED BY <1>4, <1>5, <1>6, <1>7, <1>8, <1>9, <1>10, <1>11 DEF CallStep

\* The kind of a call stays what it was.
LEMMA FollowsKind ==
  ASSUME NEW f \in Frame, NEW g, Follows(f, g), NEW n, NEW p, NEW i
  PROVE  /\ Adding(f, n, p, i) => Adding(g, n, p, i)
         /\ Removing(f, n, p) => Removing(g, n, p)
  BY DEF Follows, Frame, Adding, Removing, Commands, Returned

\* A command leaves calls, interfaces and files well formed.
LEMMA CommandTyped ==
  ASSUME CallsTypeOK, NEW c \in Callers, CallOK(c), CallStep(c)
  PROVE  CallsTypeOK' /\ CallOK(c)'
  <1> DEFINE f == call[c]
             g == call'[c]
  <1>1. /\ Follows(f, g) /\ call' = [call EXCEPT ![c] = g]
        /\ faults' \in 0 .. MaxFaults
    BY CommandFollows
  <1>2. /\ f \in Frame /\ f.node \in Nodes /\ f.peer \in Peers
        /\ f.pc = "set" => f.ip \in Addresses
        /\ f.pc = "write" => f.text \in Config
        /\ wg \in [Nodes -> Config] /\ file \in [Nodes -> Config]
        /\ call \in [Callers -> Frame]
    BY <1>1 DEF CallsTypeOK, CallOK, Follows
  <1>3. g \in Frame
    <2>1. wg[f.node] \in Config
      BY <1>2
    <2> HIDE DEF f, g
    <2>2. CASE f.pc = "show" /\ g = [f EXCEPT !.pc = "write", !.text = wg[f.node]]
      BY <1>2, <2>1, <2>2 DEF Frame
    <2>3. CASE g = [f EXCEPT !.pc = f.after, !.after = "ok", !.text = <<>>]
      BY <1>2, <2>3 DEF Frame, Returned
    <2>4. CASE g = [f EXCEPT !.pc = "look", !.after = "failed"]
      BY <1>2, <2>4 DEF Frame, Returned
    <2>5. CASE \E pc \in {"set", "verify", "unset", "save", "show", "failed"} :
                  g = [f EXCEPT !.pc = pc]
      BY <1>2, <2>5 DEF Frame, Returned
    <2> QED BY <1>1, <2>2, <2>3, <2>4, <2>5 DEF Follows
  <1>4. wg' \in [Nodes -> Config]
    BY <1>2, SetTyped
       DEF CallStep, ListForAdd, SetPeer, Verify, LookForPeer, UnsetPeer,
           SaveConfig, ShowConf, WriteConf
  <1>5. file' \in [Nodes -> Config]
    BY <1>2 DEF CallStep, ListForAdd, SetPeer, Verify, LookForPeer, UnsetPeer,
                SaveConfig, ShowConf, WriteConf
  <1>6. CallOK(c)'
    <2>1. g.pc # "idle" /\ g.node \in Nodes /\ g.peer \in Peers
      BY <1>1, <1>2 DEF Follows, Frame, Returned
    <2>2. g.pc \in {"list", "set", "verify"} \/ g.after = "list" => g.ip \in Addresses
      <3>1. f.pc \in {"list", "set", "verify"} \/ f.after = "list" => f.ip \in Addresses
        BY DEF CallOK
      <3>2. g.ip = f.ip /\ (g.pc \in {"list", "set", "verify"} \/ g.after = "list" =>
                             f.pc \in {"list", "set", "verify"} \/ f.after = "list")
        BY <1>1, <1>2 DEF Follows, Frame, Returned
      <3> QED BY <3>1, <3>2
    <2>3. g.pc = "write" => g.text \in Config
      BY <1>1, <1>2 DEF Follows, Frame, Returned
    <2> QED BY <2>1, <2>2, <2>3 DEF CallOK
  <1> QED BY <1>1, <1>2, <1>3, <1>4, <1>5, <1>6 DEF CallsTypeOK
-----------------------------------------------------------------------------

(***************************************************************************)
(* How a call begins and ends.                                             *)
(***************************************************************************)

\* A caller without a call is typed.
LEMMA NoCallTyped == NoCall \in Frame
  BY DEF NoCall, Frame, Returned

\* What a call starts with, and that it touches no other call.
LEMMA CallBegins ==
  ASSUME call \in [Callers -> Frame], NEW c \in Callers,
         NEW n \in Nodes, NEW p \in Peers
  PROVE  /\ \A i \in Addresses : AddPeer(c, n, p, i) =>
               /\ Adding(call'[c], n, p, i) /\ call'[c].pc = "list"
               /\ call'[c] \in Frame /\ CallOK(c)'
         /\ RemovePeer(c, n, p) =>
               /\ Removing(call'[c], n, p) /\ call'[c].pc = "look"
               /\ call'[c] \in Frame /\ CallOK(c)'
         /\ \A i \in Addresses : UpdatePeer(c, n, p, i) =>
               /\ call'[c].node = n /\ call'[c].peer = p /\ call'[c].ip = i
               /\ call'[c].pc = "look" /\ call'[c].after = "list"
               /\ call'[c] \in Frame /\ CallOK(c)'
  <1> DEFINE P == {"list", "look"}
             I == Addresses \cup {NoAddress}
             T == Returned \cup {"list"}
  <1>1. NoCall.text = <<>> /\ NoCall \in Frame
    BY NoCallTyped DEF NoCall
  <1>2. ASSUME NEW first \in P, NEW i \in I, NEW after \in T,
               Calling(c, first, n, p, i, after)
        PROVE  /\ call'[c].pc = first /\ call'[c].node = n /\ call'[c].peer = p
               /\ call'[c].ip = i /\ call'[c].after = after
               /\ call'[c].text = <<>> /\ call'[c] \in Frame
    <2>1. call'[c] = [NoCall EXCEPT !.pc = first, !.node = n, !.peer = p,
                                    !.ip = i, !.after = after]
      BY <1>2 DEF Calling
    <2>2. [NoCall EXCEPT !.pc = first, !.node = n, !.peer = p, !.ip = i,
                         !.after = after] \in Frame
      BY <1>1 DEF Frame
    <2> HIDE DEF P, I, T
    <2> QED BY <1>1, <2>1, <2>2 DEF NoCall
  <1>3. ASSUME NEW i \in Addresses, AddPeer(c, n, p, i)
        PROVE  /\ Adding(call'[c], n, p, i) /\ call'[c].pc = "list"
               /\ call'[c] \in Frame /\ CallOK(c)'
    BY <1>2, <1>3 DEF AddPeer, Adding, CallOK, Commands, Returned
  <1>4. ASSUME RemovePeer(c, n, p)
        PROVE  /\ Removing(call'[c], n, p) /\ call'[c].pc = "look"
               /\ call'[c] \in Frame /\ CallOK(c)'
    BY <1>2, <1>4 DEF RemovePeer, Removing, CallOK, Commands, Returned
  <1>5. ASSUME NEW i \in Addresses, UpdatePeer(c, n, p, i)
        PROVE  /\ call'[c].node = n /\ call'[c].peer = p /\ call'[c].ip = i
               /\ call'[c].pc = "look" /\ call'[c].after = "list"
               /\ call'[c] \in Frame /\ CallOK(c)'
    BY <1>2, <1>5 DEF UpdatePeer, CallOK, Returned
  <1> QED BY <1>3, <1>4, <1>5

\* Only the caller's own call changes.
LEMMA CallAlone ==
  ASSUME call \in [Callers -> Frame], NEW c \in Callers, NEW n, NEW p, NEW i,
         \/ AddPeer(c, n, p, i) \/ RemovePeer(c, n, p) \/ UpdatePeer(c, n, p, i)
         \/ NoneFor(c) \/ UNCHANGED call
  PROVE  /\ \A b \in Callers \ {c} : call'[b] = call[b]
         /\ call'[c] \in Frame => call' \in [Callers -> Frame]
         /\ NoneFor(c) => call'[c] = NoCall /\ call'[c] \in Frame /\ CallOK(c)'
  BY NoCallTyped
     DEF AddPeer, RemovePeer, UpdatePeer, Calling, NoneFor, CallOK, NoCall, Returned

\* The frames of those that do nothing stay as they are.
LEMMA FramesKept ==
  ASSUME FramesOK, UNCHANGED scene,
         \A c \in Callers : call'[c] = call[c] \/ CallOK(c)',
         \A m \in Migrations : (mig'[m] = mig[m] /\ call'[m] = call[m]) \/ MigOK(m)',
         \A d \in Disconnects : (disc'[d] = disc[d] /\ call'[d] = call[d]) \/ DiscOK(d)',
         \A s \in Syncs : (sync'[s] = sync[s] /\ call'[s] = call[s]) \/ SyncOK(s)',
         \A c \in Cycles : cycle'[c] = cycle[c] \/ CycleOK(c)',
         \A k \in Cleaners : clean'[k] = clean[k] \/ CleanOK(k)',
         scene \cap Cleaners = {} => \A n \in Nodes : Standing(n)'
  PROVE  FramesOK'
  <1>1. \A c \in Callers : CallOK(c)'
    BY DEF FramesOK, CallOK
  <1>2. \A m \in Migrations : MigOK(m)'
    BY DEF FramesOK, MigOK
  <1>3. \A d \in Disconnects : DiscOK(d)'
    BY DEF FramesOK, DiscOK
  <1>4. \A s \in Syncs : SyncOK(s)'
    BY DEF FramesOK, SyncOK
  <1>5. \A c \in Cycles : CycleOK(c)'
    BY DEF FramesOK, CycleOK
  <1>6. \A k \in Cleaners : CleanOK(k)'
    BY DEF FramesOK, CleanOK
  <1> QED BY <1>1, <1>2, <1>3, <1>4, <1>5, <1>6 DEF FramesOK

(***************************************************************************)
(* A remote command is carried out, or the server is gone.                 *)
(***************************************************************************)
Answered(c) == CallStep(c) /\ UNCHANGED <<scene, tables, requests, clean, frames>>
Unanswered(c) == Unreachable(c) /\ UNCHANGED <<scene, tables, requests, clean, frames>>

LEMMA RemoteSteps ==
  ASSUME NEW c \in Callers, RemoteStep(c)
  PROVE  Answered(c) \/ Unanswered(c)
  BY DEF RemoteStep, Answered, Unanswered

\* A command that is not answered ends its call, on a node that is being
\* destroyed, and does nothing else.
LEMMA UnansweredEnds ==
  ASSUME CallsTypeOK, NEW c \in Callers, Unanswered(c)
  PROVE  /\ call[c].pc \notin Returned \cup {"idle"} /\ ~Standing(call[c].node)
         /\ \E r \in Returned : call'[c] = [call[c] EXCEPT !.pc = r]
         /\ \A b \in Callers \ {c} : call'[b] = call[b]
         /\ call' \in [Callers -> Frame]
         /\ UNCHANGED <<scene, tables, requests, clean, frames, wg, file, faults>>
  <1>1. call \in [Callers -> Frame] /\ call[c] \in Frame
    BY DEF CallsTypeOK
  <1>2. PICK r \in Returned : call' = [call EXCEPT ![c] = [call[c] EXCEPT !.pc = r]]
    BY DEF Unanswered, Unreachable, Goto, Returned
  <1>3. [call[c] EXCEPT !.pc = r] \in Frame
    BY <1>1 DEF Frame
  <1> QED BY <1>1, <1>2, <1>3 DEF Unanswered, Unreachable

\* A step of a command keeps every frame.
LEMMA CommandKeepsFrames ==
  ASSUME TypeOK, FramesOK, NEW c \in Callers, Answered(c)
  PROVE  TypeOK' /\ FramesOK'
  <1>1. /\ CallsTypeOK /\ CallOK(c) /\ CallStep(c)
        /\ UNCHANGED <<scene, tables, requests, clean, frames>>
    BY DEF TypeOK, FramesOK, Answered
  <1>2. CallsTypeOK' /\ CallOK(c)'
    BY <1>1, CommandTyped
  <1>3. /\ Follows(call[c], call'[c]) /\ call[c] \in Frame
        /\ \A b \in Callers \ {c} : call'[b] = call[b]
    BY <1>1, CommandFollows DEF CallsTypeOK
  <1>4. call[c] # NoCall
    BY <1>3 DEF Follows, NoCall
  <1>5. TypeOK'
    BY <1>1, <1>2 DEF TypeOK, tables, frames
  <1>6. \A m \in Migrations : c = m => MigOK(m)'
    <2> SUFFICES ASSUME c \in Migrations PROVE MigOK(c)'
      OBVIOUS
    <2>1. MigOK(c)
      BY DEF FramesOK
    <2>2. mig[c].pc = "add" => Adding(call'[c], Route[c].target, mig[c].peer, mig[c].ip)
      BY <1>3, <2>1, FollowsKind DEF MigOK
    <2>3. mig[c].pc = "remove" => Removing(call'[c], Route[c].source, mig[c].peer)
      BY <1>3, <2>1, FollowsKind DEF MigOK
    <2> QED BY <1>1, <1>4, <2>1, <2>2, <2>3 DEF MigOK, frames
  <1>7. \A d \in Disconnects : c = d => DiscOK(d)'
    <2> SUFFICES ASSUME c \in Disconnects PROVE DiscOK(c)'
      OBVIOUS
    <2>1. DiscOK(c)
      BY DEF FramesOK
    <2>2. disc[c].pc = "remove" => Removing(call'[c], disc[c].node, disc[c].peer)
      BY <1>3, <2>1, FollowsKind DEF DiscOK
    <2> QED BY <1>1, <1>4, <2>1, <2>2 DEF DiscOK, frames
  <1>8. \A s \in Syncs : c = s => SyncOK(s)'
    BY <1>1, <1>4 DEF FramesOK, SyncOK, frames
  <1>9. /\ UNCHANGED <<scene, mig, disc, sync, cycle, clean, status>>
    BY <1>1 DEF frames, tables
  <1>10. Migrations \subseteq Callers /\ Disconnects \subseteq Callers /\ Syncs \subseteq Callers
    BY ScenesAssumption
  <1>11. FramesOK'
    <2>1. \A b \in Callers : call'[b] = call[b] \/ CallOK(b)'
      BY <1>2, <1>3
    <2>2. \A m \in Migrations : (mig'[m] = mig[m] /\ call'[m] = call[m]) \/ MigOK(m)'
      BY <1>3, <1>6, <1>9, <1>10
    <2>3. \A d \in Disconnects : (disc'[d] = disc[d] /\ call'[d] = call[d]) \/ DiscOK(d)'
      BY <1>3, <1>7, <1>9, <1>10
    <2>4. \A s \in Syncs : (sync'[s] = sync[s] /\ call'[s] = call[s]) \/ SyncOK(s)'
      BY <1>3, <1>8, <1>9, <1>10
    <2>5. scene \cap Cleaners = {} => \A n \in Nodes : Standing(n)'
      BY <1>9 DEF FramesOK, Standing
    <2> QED BY <1>9, <2>1, <2>2, <2>3, <2>4, <2>5, FramesKept
  <1> QED BY <1>5, <1>11
-----------------------------------------------------------------------------

(***************************************************************************)
(* What every step keeps, whoever takes it: the rows, the frames and the   *)
(* tables.                                                                 *)
(***************************************************************************)
Core == TypeOK /\ FramesOK /\ TablesInv

\* A step of one caller that leaves the nodes alone.
LEMMA CallerKeeps ==
  ASSUME Core, NEW c \in Callers,
         UNCHANGED <<scene, status, subnets, requests, clean, cycle>>,
         CallsTypeOK', \A b \in Callers \ {c} : call'[b] = call[b], CallOK(c)',
         peers' \in [Peers -> PeerRow \cup {NoPeer}], AddressesSound',
         mig' \in [Migrations -> Mig], disc' \in [Disconnects -> Disc],
         sync' \in [Syncs -> Sync],
         \A m \in Migrations : m # c => mig'[m] = mig[m],
         \A d \in Disconnects : d # c => disc'[d] = disc[d],
         \A s \in Syncs : s # c => sync'[s] = sync[s],
         c \in Migrations => MigOK(c)' /\ RangeOK(c)',
         c \in Disconnects => DiscOK(c)',
         c \in Syncs => SyncOK(c)'
  PROVE  Core'
  <1>1. /\ Migrations \subseteq Callers /\ Disconnects \subseteq Callers
        /\ Syncs \subseteq Callers
    BY ScenesAssumption
  <1>2. TypeOK'
    BY DEF Core, TypeOK
  <1>3. FramesOK'
    <2>1. FramesOK /\ UNCHANGED <<scene, cycle, clean, status>>
      BY DEF Core
    <2>2. \A b \in Callers : call'[b] = call[b] \/ CallOK(b)'
      OBVIOUS
    <2>3. \A m \in Migrations : (mig'[m] = mig[m] /\ call'[m] = call[m]) \/ MigOK(m)'
      BY <1>1
    <2>4. \A d \in Disconnects : (disc'[d] = disc[d] /\ call'[d] = call[d]) \/ DiscOK(d)'
      BY <1>1
    <2>5. \A s \in Syncs : (sync'[s] = sync[s] /\ call'[s] = call[s]) \/ SyncOK(s)'
      BY <1>1
    <2>6. scene \cap Cleaners = {} => \A n \in Nodes : Standing(n)'
      BY <2>1 DEF FramesOK, Standing
    <2>7. \A b \in Cycles : cycle'[b] = cycle[b]
      BY <2>1
    <2> QED BY <2>1, <2>2, <2>3, <2>4, <2>5, <2>6, <2>7, FramesKept
  <1>4. TablesInv'
    <2>1. SubnetsOK'
      BY DEF Core, TablesInv, SubnetsOK, HasRow
    <2>2. \A m \in Migrations : m # c => RangeOK(m)'
      BY DEF Core, TablesInv, RangeOK
    <2>3. \A m \in Migrations : RangeOK(m)'
      BY <2>2
    <2> QED BY <2>1, <2>3 DEF TablesInv
  <1> QED BY <1>2, <1>3, <1>4 DEF Core

\* A command that is not answered.
LEMMA UnansweredKeeps ==
  ASSUME Core, NEW c \in Callers, Unanswered(c)
  PROVE  Core'
  <1> DEFINE f == call[c]
  <1>1. /\ CallsTypeOK /\ FramesOK /\ TypeOK /\ CallOK(c) /\ f \in Frame
        /\ AddressesSound
    BY DEF Core, FramesOK, TypeOK, CallsTypeOK, TablesInv
  <1>2. /\ f.pc \notin Returned \cup {"idle"}
        /\ UNCHANGED <<scene, status, subnets, requests, clean, cycle, peers, mig, disc,
                       sync, wg, file, faults>>
        /\ call' \in [Callers -> Frame] /\ \A b \in Callers \ {c} : call'[b] = call[b]
    BY <1>1, UnansweredEnds DEF tables, frames
  <1>3. PICK r \in Returned : call'[c] = [f EXCEPT !.pc = r]
    BY <1>1, UnansweredEnds
  <1>4. /\ call'[c].pc = r /\ call'[c].node = f.node /\ call'[c].peer = f.peer
        /\ call'[c].ip = f.ip /\ call'[c].after = f.after
    BY <1>1, <1>3 DEF Frame
  <1>5. r \in {"ok", "failed"}
    BY DEF Returned
  <1> HIDE DEF f
  <1>6. CallOK(c)'
    BY <1>1, <1>2, <1>4, <1>5 DEF CallOK, f
  <1>7. CallsTypeOK'
    BY <1>1, <1>2 DEF CallsTypeOK
  <1>8. c \in Migrations => MigOK(c)'
    <2> SUFFICES ASSUME c \in Migrations PROVE MigOK(c)'
      OBVIOUS
    <2>1. MigOK(c) /\ f # NoCall
      BY <1>1, <1>2 DEF FramesOK, NoCall
    <2>2. \A n, p, i : Adding(f, n, p, i) => Adding(call'[c], n, p, i)
      BY <1>4, <1>5 DEF Adding, Commands, Returned
    <2>3. \A n, p : Removing(f, n, p) => Removing(call'[c], n, p)
      BY <1>4, <1>5 DEF Removing, Commands, Returned
    <2> QED BY <1>2, <2>1, <2>2, <2>3 DEF MigOK, f
  <1>9. c \in Disconnects => DiscOK(c)'
    <2> SUFFICES ASSUME c \in Disconnects PROVE DiscOK(c)'
      OBVIOUS
    <2>1. DiscOK(c) /\ f # NoCall
      BY <1>1, <1>2 DEF FramesOK, NoCall
    <2>2. \A n, p : Removing(f, n, p) => Removing(call'[c], n, p)
      BY <1>4, <1>5 DEF Removing, Commands, Returned
    <2> QED BY <1>2, <2>1, <2>2 DEF DiscOK, f
  <1>10. c \in Syncs => SyncOK(c)'
    <2> SUFFICES ASSUME c \in Syncs PROVE SyncOK(c)'
      OBVIOUS
    <2>1. SyncOK(c) /\ f # NoCall
      BY <1>1, <1>2 DEF FramesOK, NoCall
    <2> QED BY <1>2, <2>1 DEF SyncOK, f
  <1>11. AddressesSound' /\ (c \in Migrations => RangeOK(c)')
    BY <1>1, <1>2 DEF Core, TablesInv, AddressesSound, Present, HasRow, RangeOK
  <1>12. /\ peers' \in [Peers -> PeerRow \cup {NoPeer}] /\ mig' \in [Migrations -> Mig]
         /\ disc' \in [Disconnects -> Disc] /\ sync' \in [Syncs -> Sync]
    BY <1>1, <1>2 DEF TypeOK
  <1> QED BY <1>2, <1>6, <1>7, <1>8, <1>9, <1>10, <1>11, <1>12, CallerKeeps

\* A command of a call.
LEMMA CommandKeeps ==
  ASSUME Core, NEW c \in Callers, Answered(c)
  PROVE  Core'
  <1>1. TypeOK' /\ FramesOK'
    BY CommandKeepsFrames DEF Core
  <1>2. TablesInv'
    <2>1. UNCHANGED <<status, subnets, peers, mig>>
      BY DEF Answered, tables, frames
    <2>2. SubnetsOK'
      BY <2>1 DEF Core, TablesInv, SubnetsOK, HasRow
    <2>3. AddressesSound'
      BY <2>1 DEF Core, TablesInv, AddressesSound, Present, HasRow
    <2>4. \A m \in Migrations : RangeOK(m)'
      BY <2>1 DEF Core, TablesInv, RangeOK
    <2> QED BY <2>2, <2>3, <2>4 DEF TablesInv
  <1> QED BY <1>1, <1>2 DEF Core
-----------------------------------------------------------------------------

(***************************************************************************)
(* The steps of a migration.                                               *)
(***************************************************************************)

\* The frame of m after a step; no other migration's changes.
MigBecomes(m, pc, todo, p, i, moved, errors, warned) ==
  /\ mig' \in [Migrations -> Mig]
  /\ \A l \in Migrations : l # m => mig'[l] = mig[l]
  /\ mig'[m].pc = pc /\ mig'[m].todo = todo /\ mig'[m].peer = p /\ mig'[m].ip = i
  /\ mig'[m].moved = moved /\ mig'[m].errors = errors /\ mig'[m].warned = warned

\* What the assignments of migrateSinglePeer and its caller make of a frame.
LEMMA MigFields ==
  ASSUME mig \in [Migrations -> Mig], NEW m \in Migrations
  PROVE  LET f == mig[m] IN
         /\ \A pc \in {"idle", "capacity", "next", "check", "update", "getTarget",
                       "add", "getSource", "remove", "ok", "failed"} :
               MigGoto(m, pc) =>
                  MigBecomes(m, pc, f.todo, f.peer, f.ip, f.moved, f.errors, f.warned)
         /\ \A p \in Peers : MigrationError(m, p) =>
               MigBecomes(m, "next", f.todo, "none", NoAddress, f.moved,
                          f.errors \cup {p}, f.warned)
         /\ \A w \in SUBSET Peers : MigrationDone(m, w) /\ f.peer \in Peers =>
               MigBecomes(m, "next", f.todo, "none", NoAddress,
                          f.moved \cup {f.peer}, f.errors, f.warned \cup w)
         /\ \A pc \in {"ok", "capacity"} : \A new \in SUBSET Peers :
               mig' = [mig EXCEPT ![m].todo = new, ![m].pc = pc] =>
                  MigBecomes(m, pc, new, f.peer, f.ip, f.moved, f.errors, f.warned)
         /\ \A rest \in SUBSET Peers : \A p \in Peers : \A i \in Addresses :
               mig' = [mig EXCEPT ![m].pc = "check", ![m].todo = rest,
                                  ![m].peer = p, ![m].ip = i] =>
                  MigBecomes(m, "check", rest, p, i, f.moved, f.errors, f.warned)
         /\ \A rest \in SUBSET Peers : \A p \in Peers :
               mig' = [mig EXCEPT ![m].todo = rest, ![m].errors = @ \cup {p}] =>
                  MigBecomes(m, f.pc, rest, f.peer, f.ip, f.moved,
                             f.errors \cup {p}, f.warned)
  <1> DEFINE f == mig[m]
  <1>0. f \in Mig
    OBVIOUS
  <1>1. ASSUME NEW g \in Mig, mig' = [mig EXCEPT ![m] = g]
        PROVE  MigBecomes(m, g.pc, g.todo, g.peer, g.ip, g.moved, g.errors, g.warned)
    BY <1>1 DEF MigBecomes
  <1>2. ASSUME NEW pc \in {"idle", "capacity", "next", "check", "update", "getTarget",
                           "add", "getSource", "remove", "ok", "failed"},
               MigGoto(m, pc)
        PROVE  MigBecomes(m, pc, f.todo, f.peer, f.ip, f.moved, f.errors, f.warned)
    <2> DEFINE g == [f EXCEPT !.pc = pc]
    <2>1. g \in Mig /\ mig' = [mig EXCEPT ![m] = g]
      BY <1>0, <1>2 DEF Mig, MigGoto
    <2>2. /\ g.pc = pc /\ g.todo = f.todo /\ g.peer = f.peer /\ g.ip = f.ip
          /\ g.moved = f.moved /\ g.errors = f.errors /\ g.warned = f.warned
      BY <1>0 DEF Mig
    <2> HIDE DEF g, f
    <2> QED BY <1>1, <2>1, <2>2
  <1>3. ASSUME NEW p \in Peers, MigrationError(m, p)
        PROVE  MigBecomes(m, "next", f.todo, "none", NoAddress, f.moved,
                          f.errors \cup {p}, f.warned)
    <2> DEFINE g == [f EXCEPT !.pc = "next", !.peer = "none", !.ip = NoAddress,
                              !.errors = f.errors \cup {p}]
    <2>1. g \in Mig /\ mig' = [mig EXCEPT ![m] = g]
      BY <1>0, <1>3 DEF Mig, MigrationError
    <2>2. /\ g.pc = "next" /\ g.todo = f.todo /\ g.peer = "none" /\ g.ip = NoAddress
          /\ g.moved = f.moved /\ g.errors = f.errors \cup {p} /\ g.warned = f.warned
      BY <1>0 DEF Mig
    <2> HIDE DEF g, f
    <2> QED BY <1>1, <2>1, <2>2
  <1>4. ASSUME NEW w \in SUBSET Peers, MigrationDone(m, w), f.peer \in Peers
        PROVE  MigBecomes(m, "next", f.todo, "none", NoAddress,
                          f.moved \cup {f.peer}, f.errors, f.warned \cup w)
    <2> DEFINE g == [f EXCEPT !.pc = "next", !.peer = "none", !.ip = NoAddress,
                        !.moved = f.moved \cup {f.peer}, !.warned = f.warned \cup w]
    <2>1. g \in Mig /\ mig' = [mig EXCEPT ![m] = g]
      BY <1>0, <1>4 DEF Mig, MigrationDone
    <2>2. /\ g.pc = "next" /\ g.todo = f.todo /\ g.peer = "none" /\ g.ip = NoAddress
          /\ g.moved = f.moved \cup {f.peer} /\ g.errors = f.errors
          /\ g.warned = f.warned \cup w
      BY <1>0 DEF Mig
    <2> HIDE DEF g, f
    <2> QED BY <1>1, <2>1, <2>2
  <1>5. ASSUME NEW pc \in {"ok", "capacity"}, NEW new \in SUBSET Peers,
               mig' = [mig EXCEPT ![m].todo = new, ![m].pc = pc]
        PROVE  MigBecomes(m, pc, new, f.peer, f.ip, f.moved, f.errors, f.warned)
    <2> DEFINE g == [f EXCEPT !.todo = new, !.pc = pc]
    <2>1. g \in Mig /\ mig' = [mig EXCEPT ![m] = g]
      BY <1>0, <1>5 DEF Mig
    <2>2. /\ g.pc = pc /\ g.todo = new /\ g.peer = f.peer /\ g.ip = f.ip
          /\ g.moved = f.moved /\ g.errors = f.errors /\ g.warned = f.warned
      BY <1>0 DEF Mig
    <2> HIDE DEF g, f
    <2> QED BY <1>1, <2>1, <2>2
  <1>6. ASSUME NEW rest \in SUBSET Peers, NEW p \in Peers, NEW i \in Addresses,
               mig' = [mig EXCEPT ![m].pc = "check", ![m].todo = rest,
                                  ![m].peer = p, ![m].ip = i]
        PROVE  MigBecomes(m, "check", rest, p, i, f.moved, f.errors, f.warned)
    <2> DEFINE g == [f EXCEPT !.pc = "check", !.todo = rest, !.peer = p, !.ip = i]
    <2>1. g \in Mig /\ mig' = [mig EXCEPT ![m] = g]
      BY <1>0, <1>6 DEF Mig
    <2>2. /\ g.pc = "check" /\ g.todo = rest /\ g.peer = p /\ g.ip = i
          /\ g.moved = f.moved /\ g.errors = f.errors /\ g.warned = f.warned
      BY <1>0 DEF Mig
    <2> HIDE DEF g, f
    <2> QED BY <1>1, <2>1, <2>2
  <1>7. ASSUME NEW rest \in SUBSET Peers, NEW p \in Peers,
               mig' = [mig EXCEPT ![m].todo = rest, ![m].errors = @ \cup {p}]
        PROVE  MigBecomes(m, f.pc, rest, f.peer, f.ip, f.moved,
                          f.errors \cup {p}, f.warned)
    <2> DEFINE g == [f EXCEPT !.todo = rest, !.errors = f.errors \cup {p}]
    <2>1. g \in Mig /\ mig' = [mig EXCEPT ![m] = g]
      BY <1>0, <1>7 DEF Mig
    <2>2. /\ g.pc = f.pc /\ g.todo = rest /\ g.peer = f.peer /\ g.ip = f.ip
          /\ g.moved = f.moved /\ g.errors = f.errors \cup {p} /\ g.warned = f.warned
      BY <1>0 DEF Mig
    <2> HIDE DEF g, f
    <2> QED BY <1>1, <2>1, <2>2
  <1> HIDE DEF f
  <1> QED BY <1>2, <1>3, <1>4, <1>5, <1>6, <1>7 DEF f
-----------------------------------------------------------------------------

\* The step of a migration, with the parts of the state it may change.
MigrationMove(m) == MigratePeersFromNode(m) \/ MigrationStep(m)

\* A migration touches its own frame, its call and the rows, and of the rows
\* only with UpdateNode.
LEMMA MigrationTouches ==
  ASSUME TypeOK, NEW m \in Migrations, MigrationMove(m)
  PROVE  /\ UNCHANGED <<scene, status, subnets, requests, clean, cycle,
                        disc, sync, wg, file>>
         /\ faults' \in 0 .. MaxFaults
         /\ UpdateNode(m) \/ UNCHANGED peers
         /\ \/ AddToTarget(m) \/ AddReturned(m) \/ RemoveFromSource(m)
            \/ RemoveReturned(m) \/ UNCHANGED call
  <1> USE DEF MigrationMove, MigrationStep, MigratePeersFromNode,
              ValidateNodeCapacity, AllocateClientIP, CheckIPConflict, UpdateNode,
              AddToTarget, AddReturned, RemoveFromSource, RemoveReturned,
              EndMigration, tables, calls
  <1>1. UNCHANGED <<scene, status, subnets, requests, clean, cycle,
                    disc, sync, wg, file>>
    OBVIOUS
  <1>2. UpdateNode(m) \/ UNCHANGED peers
    OBVIOUS
  <1>3. \/ AddToTarget(m) \/ AddReturned(m) \/ RemoveFromSource(m)
        \/ RemoveReturned(m) \/ UNCHANGED call
    OBVIOUS
  <1>4. Sound \/ Fault("db")
    BY DEF Sound, Db
  <1>5. faults \in 0 .. MaxFaults
    BY DEF TypeOK, CallsTypeOK
  <1> QED BY <1>1, <1>2, <1>3, <1>4, <1>5, FaultsCount

\* UpdatePeerNode keeps the addresses apart: the UNIQUE constraint.
LEMMA RowsMoved ==
  ASSUME Core, NEW m \in Migrations, UpdateNode(m)
  PROVE  /\ peers' \in [Peers -> PeerRow \cup {NoPeer}]
         /\ AddressesSound'
  <1> DEFINE f == mig[m]
             t == Route[m].target
  <1>0. /\ peers \in [Peers -> PeerRow \cup {NoPeer}] /\ AddressesSound
        /\ mig[m].pc = "update" /\ UNCHANGED <<status, subnets>>
        /\ f.peer \in Peers /\ f.ip \in Addresses
        /\ subnets[t] # NoSubnet => f.ip \in subnets[t].start .. subnets[t].end
        /\ t \in Nodes
    BY RotationAssumption
       DEF Core, TypeOK, FramesOK, TablesInv, MigOK, RangeOK, UpdateNode, InHand
  <1>1. CASE UNCHANGED peers
    BY <1>0, <1>1 DEF AddressesSound, Present, HasRow
  <1>2. CASE /\ ~ (Present(f.peer) /\ (IPTaken(f.ip) \/ ~HasRow(t)))
             /\ peers' = Moved(f.peer, [peers[f.peer] EXCEPT !.node = t, !.ip = f.ip])
    <2>1. CASE ~ Present(f.peer)
      BY <1>1, <1>2, <2>1 DEF Moved
    <2>2. CASE Present(f.peer)
      <3> DEFINE row == [peers[f.peer] EXCEPT !.node = t, !.ip = f.ip]
      <3>1. peers[f.peer] \in PeerRow
        BY <1>0, <2>2 DEF Present
      <3>2. row \in PeerRow /\ row.node = t /\ row.ip = f.ip
        BY <1>0, <3>1 DEF PeerRow
      <3>3. peers' = [peers EXCEPT ![f.peer] = row]
        BY <1>2, <2>2 DEF Moved
      <3> HIDE DEF row, f, t
      <3>4. /\ peers' \in [Peers -> PeerRow \cup {NoPeer}]
            /\ peers'[f.peer] = row
            /\ \A p \in Peers \ {f.peer} : peers'[p] = peers[p] /\ peers[p].ip # f.ip
        BY <1>0, <1>2, <2>2, <3>2, <3>3 DEF IPTaken
      <3>5. AddressesSound'
        <4> SUFFICES ASSUME NEW p \in Peers, Present(p)'
                     PROVE  /\ HasRow(peers'[p].node)
                            /\ subnets[peers'[p].node] # NoSubnet =>
                                  peers'[p].ip \in subnets[peers'[p].node].start
                                                   .. subnets[peers'[p].node].end
                            /\ \A q \in Peers : Present(q)'
                                 /\ peers'[q].ip = peers'[p].ip => q = p
          BY <1>0 DEF AddressesSound, HasRow
        <4>1. CASE p = f.peer
          BY <1>0, <1>2, <2>2, <3>2, <3>4, <4>1
        <4>2. CASE p # f.peer
          <5>1. Present(p) /\ peers'[p] = peers[p]
            BY <3>4, <4>2 DEF Present
          <5>2. \A q \in Peers : Present(q)' /\ peers'[q].ip = peers'[p].ip => q = p
            BY <1>0, <3>2, <3>4, <4>2, <5>1 DEF AddressesSound, Present
          <5> QED BY <1>0, <5>1, <5>2 DEF AddressesSound
        <4> QED BY <4>1, <4>2
      <3> QED BY <3>4, <3>5
    <2> QED BY <2>1, <2>2
  <1> QED BY <1>1, <1>2 DEF UpdateNode
-----------------------------------------------------------------------------

\* A migration keeps the rows, the frames and the tables.
LEMMA MigrationKeeps ==
  ASSUME Core, NEW m \in Migrations, MigrationMove(m)
  PROVE  Core'
  <1> DEFINE f == mig[m]
             g == mig'[m]
             t == Route[m].target
  <1>0. /\ m \in Callers /\ m \notin Disconnects /\ m \notin Syncs
        /\ TypeOK /\ CallsTypeOK /\ call \in [Callers -> Frame]
        /\ mig \in [Migrations -> Mig] /\ f \in Mig
        /\ MigOK(m) /\ CallOK(m) /\ RangeOK(m)
        /\ Route[m].source \in Nodes /\ t \in Nodes
    BY ScenesAssumption, RotationAssumption
       DEF Core, TypeOK, CallsTypeOK, FramesOK, TablesInv
  <1>1. /\ UNCHANGED <<scene, status, subnets, requests, clean, cycle,
                       disc, sync, wg, file>>
        /\ faults' \in 0 .. MaxFaults
        /\ UpdateNode(m) \/ UNCHANGED peers
        /\ \/ AddToTarget(m) \/ AddReturned(m) \/ RemoveFromSource(m)
           \/ RemoveReturned(m) \/ UNCHANGED call
    BY <1>0, MigrationTouches
  <1>2. peers' \in [Peers -> PeerRow \cup {NoPeer}] /\ AddressesSound'
    <2>1. CASE UpdateNode(m)
      BY <2>1, RowsMoved
    <2>2. CASE UNCHANGED peers
      BY <1>1, <2>2 DEF Core, TypeOK, TablesInv, AddressesSound, Present, HasRow
    <2> QED BY <1>1, <2>1, <2>2
  <1>3. ASSUME NEW pc, NEW todo, NEW p, NEW i, NEW moved, NEW errors, NEW warned,
               MigBecomes(m, pc, todo, p, i, moved, errors, warned),
               call' \in [Callers -> Frame], CallOK(m)',
               \A b \in Callers : b # m => call'[b] = call[b],
               MigOK(m)', RangeOK(m)'
        PROVE  Core'
    <2>1. CallsTypeOK'
      BY <1>0, <1>1, <1>3 DEF CallsTypeOK
    <2>2. /\ disc' \in [Disconnects -> Disc] /\ sync' \in [Syncs -> Sync]
          /\ \A d \in Disconnects : disc'[d] = disc[d]
          /\ \A s \in Syncs : sync'[s] = sync[s]
      BY <1>0, <1>1 DEF TypeOK
    <2> QED BY <1>0, <1>1, <1>2, <1>3, <2>1, <2>2, CallerKeeps DEF MigBecomes
  <1>4. UNCHANGED call => /\ call' \in [Callers -> Frame] /\ CallOK(m)'
                          /\ \A b \in Callers : b # m => call'[b] = call[b]
    BY <1>0 DEF CallOK
  <1>5. CASE MigratePeersFromNode(m)
    <2>0. /\ m \in scene /\ f.pc = "idle" /\ UNCHANGED call
          /\ GetActiveByNode(Route[m].source) \subseteq Peers
      BY <1>5 DEF MigratePeersFromNode, GetActiveByNode
    <2>1. PICK pc \in {"ok", "capacity", "failed"}, todo \in SUBSET Peers :
             MigBecomes(m, pc, todo, f.peer, f.ip, f.moved, f.errors, f.warned)
      <3>1. CASE MigGoto(m, "failed")
        BY <1>0, <3>1, MigFields DEF Mig
      <3>2. CASE ~ MigGoto(m, "failed")
        BY <1>0, <1>5, <2>0, <3>2, MigFields DEF MigratePeersFromNode
      <3> QED BY <3>1, <3>2
    <2>2. MigOK(m)' /\ RangeOK(m)'
      BY <1>0, <1>1, <2>0, <2>1 DEF MigBecomes, MigOK, RangeOK, InHand
    <2> QED BY <1>3, <1>4, <2>0, <2>1, <2>2
  <1>6. CASE ValidateNodeCapacity(m) \/ EndMigration(m)
    <2>0. f.pc \in {"capacity", "next"} /\ UNCHANGED call
      BY <1>6 DEF ValidateNodeCapacity, EndMigration, calls
    <2>1. PICK pc \in {"next", "failed", "ok"} : MigGoto(m, pc)
      BY <1>6 DEF ValidateNodeCapacity, EndMigration
    <2>2. MigBecomes(m, pc, f.todo, f.peer, f.ip, f.moved, f.errors, f.warned)
      BY <1>0, <2>1, MigFields
    <2>3. MigOK(m)' /\ RangeOK(m)'
      BY <1>0, <1>1, <2>0, <2>1, <2>2 DEF MigBecomes, MigOK, RangeOK, InHand
    <2> QED BY <1>3, <1>4, <2>0, <2>2, <2>3
  <1>7. CASE AllocateClientIP(m)
    <2> DEFINE i == FindNextAvailableIP(subnets[t], AllocatedIPs(t))
    <2>0. f.pc = "next" /\ UNCHANGED call
      BY <1>7 DEF AllocateClientIP
    <2>1. PICK p \in f.todo :
             \/ /\ subnets[t] # NoSubnet /\ i # NoAddress
                /\ mig' = [mig EXCEPT ![m].pc = "check", ![m].todo = f.todo \ {p},
                                      ![m].peer = p, ![m].ip = i]
             \/ mig' = [mig EXCEPT ![m].todo = f.todo \ {p}, ![m].errors = @ \cup {p}]
      BY <1>7 DEF AllocateClientIP
    <2>2. p \in Peers /\ f.todo \ {p} \in SUBSET Peers
      BY <1>0 DEF Mig
    <2>3. CASE /\ subnets[t] # NoSubnet /\ i # NoAddress
               /\ mig' = [mig EXCEPT ![m].pc = "check", ![m].todo = f.todo \ {p},
                                     ![m].peer = p, ![m].ip = i]
      <3>1. Generated(subnets[t]) /\ status[t] # "none"
        BY <1>0, <2>3 DEF Core, TablesInv, SubnetsOK, HasRow, Status
      <3>2. i \in subnets[t].start .. subnets[t].end
        BY <2>3, <3>1, NextAddress
      <3>3. i \in Addresses
        BY <3>1, <3>2, SubnetShape
      <3> HIDE DEF i
      <3>4. MigBecomes(m, "check", f.todo \ {p}, p, i, f.moved, f.errors, f.warned)
        BY <1>0, <2>2, <2>3, <3>3, MigFields
      <3>5. MigOK(m)'
        BY <1>0, <1>1, <2>0, <2>2, <3>3, <3>4 DEF MigBecomes, MigOK, InHand
      <3>6. RangeOK(m)'
        BY <1>0, <1>1, <2>3, <3>1, <3>2, <3>4 DEF MigBecomes, RangeOK
      <3> QED BY <1>3, <1>4, <2>0, <3>4, <3>5, <3>6
    <2>4. CASE mig' = [mig EXCEPT ![m].todo = f.todo \ {p}, ![m].errors = @ \cup {p}]
      <3>1. MigBecomes(m, f.pc, f.todo \ {p}, f.peer, f.ip, f.moved,
                       f.errors \cup {p}, f.warned)
        BY <1>0, <2>2, <2>4, MigFields
      <3>2. MigOK(m)' /\ RangeOK(m)'
        BY <1>0, <1>1, <2>0, <3>1 DEF MigBecomes, MigOK, RangeOK, InHand
      <3> QED BY <1>3, <1>4, <2>0, <3>1, <3>2
    <2> QED BY <2>1, <2>3, <2>4
  <1>8. CASE CheckIPConflict(m) \/ UpdateNode(m)
    <2>0. /\ f.pc \in {"check", "update"} /\ UNCHANGED call
          /\ f.peer \in Peers /\ f.ip \in Addresses
      BY <1>0, <1>8 DEF CheckIPConflict, UpdateNode, MigOK, InHand
    <2>1. \/ f.pc = "check" /\ MigGoto(m, "update")
          \/ MigGoto(m, "getTarget")
          \/ MigrationError(m, f.peer)
      BY <1>8 DEF CheckIPConflict, UpdateNode
    <2>2. CASE f.pc = "check" /\ MigGoto(m, "update")
      <3>1. MigBecomes(m, "update", f.todo, f.peer, f.ip, f.moved, f.errors, f.warned)
        BY <1>0, <2>2, MigFields
      <3>2. MigOK(m)' /\ RangeOK(m)'
        BY <1>0, <1>1, <2>0, <2>2, <3>1 DEF MigBecomes, MigOK, RangeOK, InHand
      <3> QED BY <1>3, <1>4, <2>0, <3>1, <3>2
    <2>3. CASE MigGoto(m, "getTarget")
      <3>1. MigBecomes(m, "getTarget", f.todo, f.peer, f.ip, f.moved, f.errors, f.warned)
        BY <1>0, <2>3, MigFields
      <3>2. MigOK(m)' /\ RangeOK(m)'
        BY <1>0, <1>1, <2>0, <3>1 DEF MigBecomes, MigOK, RangeOK, InHand
      <3> QED BY <1>3, <1>4, <2>0, <3>1, <3>2
    <2>4. CASE MigrationError(m, f.peer)
      <3>1. MigBecomes(m, "next", f.todo, "none", NoAddress, f.moved,
                       f.errors \cup {f.peer}, f.warned)
        BY <1>0, <2>0, <2>4, MigFields
      <3>2. MigOK(m)' /\ RangeOK(m)'
        BY <1>0, <1>1, <2>0, <3>1 DEF MigBecomes, MigOK, RangeOK, InHand
      <3> QED BY <1>3, <1>4, <2>0, <3>1, <3>2
    <2> QED BY <2>1, <2>2, <2>3, <2>4
  <1>9. CASE AddToTarget(m)
    <2>0. f.pc = "getTarget" /\ f.peer \in Peers /\ f.ip \in Addresses
      BY <1>0, <1>9 DEF AddToTarget, MigOK, InHand
    <2>1. CASE AddPeer(m, t, f.peer, f.ip) /\ MigGoto(m, "add")
      <3>1. MigBecomes(m, "add", f.todo, f.peer, f.ip, f.moved, f.errors, f.warned)
        BY <1>0, <2>1, MigFields
      <3>2. /\ Adding(call'[m], t, f.peer, f.ip)
            /\ call'[m] \in Frame /\ CallOK(m)'
        BY <1>0, <2>0, <2>1, CallBegins
      <3>3. /\ call' \in [Callers -> Frame]
            /\ \A b \in Callers : b # m => call'[b] = call[b]
        BY <1>0, <2>1, <3>2, CallAlone
      <3>4. MigOK(m)' /\ RangeOK(m)'
        BY <1>0, <1>1, <2>0, <3>1, <3>2 DEF MigBecomes, MigOK, RangeOK, InHand
      <3> QED BY <1>3, <3>1, <3>2, <3>3, <3>4
    <2>2. CASE MigrationError(m, f.peer) /\ UNCHANGED call
      <3>1. MigBecomes(m, "next", f.todo, "none", NoAddress, f.moved,
                       f.errors \cup {f.peer}, f.warned)
        BY <1>0, <2>0, <2>2, MigFields
      <3>2. MigOK(m)' /\ RangeOK(m)'
        BY <1>0, <1>1, <2>0, <2>2, <3>1 DEF MigBecomes, MigOK, RangeOK, InHand
      <3> QED BY <1>3, <1>4, <2>2, <3>1, <3>2
    <2> QED BY <1>9, <2>1, <2>2 DEF AddToTarget
  <1>10. CASE RemoveFromSource(m)
    <2>0. f.pc = "getSource" /\ f.peer \in Peers
      BY <1>0, <1>10 DEF RemoveFromSource, MigOK, InHand
    <2>1. CASE RemovePeer(m, Route[m].source, f.peer) /\ MigGoto(m, "remove")
      <3>1. MigBecomes(m, "remove", f.todo, f.peer, f.ip, f.moved, f.errors, f.warned)
        BY <1>0, <2>1, MigFields
      <3>2. /\ Removing(call'[m], Route[m].source, f.peer)
            /\ call'[m] \in Frame /\ CallOK(m)'
        BY <1>0, <2>0, <2>1, CallBegins
      <3>3. /\ call' \in [Callers -> Frame]
            /\ \A b \in Callers : b # m => call'[b] = call[b]
        BY <1>0, <2>1, <3>2, CallAlone
      <3>4. MigOK(m)' /\ RangeOK(m)'
        BY <1>0, <1>1, <2>0, <3>1, <3>2 DEF MigBecomes, MigOK, RangeOK, InHand
      <3> QED BY <1>3, <3>1, <3>2, <3>3, <3>4
    <2>2. CASE MigrationDone(m, {f.peer}) /\ UNCHANGED call
      <3>0. {f.peer} \in SUBSET Peers
        BY <2>0
      <3>1. MigBecomes(m, "next", f.todo, "none", NoAddress, f.moved \cup {f.peer},
                       f.errors, f.warned \cup {f.peer})
        BY <1>0, <2>0, <2>2, <3>0, MigFields
      <3>2. MigOK(m)' /\ RangeOK(m)'
        BY <1>0, <1>1, <2>0, <2>2, <3>1 DEF MigBecomes, MigOK, RangeOK, InHand
      <3> QED BY <1>3, <1>4, <2>2, <3>1, <3>2
    <2> QED BY <1>10, <2>1, <2>2 DEF RemoveFromSource
  <1>11. CASE AddReturned(m) \/ RemoveReturned(m)
    <2>0. f.pc \in {"add", "remove"} /\ f.peer \in Peers /\ NoneFor(m)
          /\ f.ip \in Addresses
      BY <1>0, <1>11 DEF AddReturned, RemoveReturned, MigOK, InHand
    <2>1. call'[m] = NoCall /\ call'[m] \in Frame /\ CallOK(m)'
      BY <1>0, <2>0, CallAlone
    <2>2. /\ call' \in [Callers -> Frame]
          /\ \A b \in Callers : b # m => call'[b] = call[b]
      BY <1>0, <2>0, <2>1, CallAlone
    <2>3. CASE MigGoto(m, "getSource")
      <3>1. MigBecomes(m, "getSource", f.todo, f.peer, f.ip, f.moved, f.errors, f.warned)
        BY <1>0, <2>3, MigFields
      <3>2. MigOK(m)' /\ RangeOK(m)'
        BY <1>0, <1>1, <2>0, <2>1, <3>1 DEF MigBecomes, MigOK, RangeOK, InHand
      <3> QED BY <1>3, <2>1, <2>2, <3>1, <3>2
    <2>4. CASE MigrationError(m, f.peer)
      <3>1. MigBecomes(m, "next", f.todo, "none", NoAddress, f.moved,
                       f.errors \cup {f.peer}, f.warned)
        BY <1>0, <2>0, <2>4, MigFields
      <3>2. MigOK(m)' /\ RangeOK(m)'
        BY <1>0, <1>1, <2>0, <2>1, <3>1 DEF MigBecomes, MigOK, RangeOK, InHand
      <3> QED BY <1>3, <2>1, <2>2, <3>1, <3>2
    <2>5. CASE \E w \in SUBSET {f.peer} : MigrationDone(m, w)
      <3>0. PICK w \in SUBSET Peers : MigrationDone(m, w)
        BY <2>0, <2>5
      <3>1. MigBecomes(m, "next", f.todo, "none", NoAddress, f.moved \cup {f.peer},
                       f.errors, f.warned \cup w)
        BY <1>0, <2>0, <3>0, MigFields
      <3>2. MigOK(m)' /\ RangeOK(m)'
        BY <1>0, <1>1, <2>0, <2>1, <3>1 DEF MigBecomes, MigOK, RangeOK, InHand
      <3> QED BY <1>3, <2>1, <2>2, <3>1, <3>2
    <2> QED BY <1>11, <2>3, <2>4, <2>5 DEF AddReturned, RemoveReturned
  <1> QED BY <1>5, <1>6, <1>7, <1>8, <1>9, <1>10, <1>11 DEF MigrationMove, MigrationStep
-----------------------------------------------------------------------------

\* A disconnection keeps them too.
DisconnectMove(d) == (\E p \in Peers : DisconnectPeer(d, p)) \/ DisconnectStep(d)

\* A disconnection that goes on keeps the peer and the node it found.
LEMMA DiscGotoFields ==
  ASSUME disc \in [Disconnects -> Disc], NEW d \in Disconnects,
         NEW pc \in {"idle", "getNode", "remove", "mark", "delete", "done"},
         DiscGoto(d, pc)
  PROVE  /\ disc' \in [Disconnects -> Disc]
         /\ \A e \in Disconnects : e # d => disc'[e] = disc[e]
         /\ disc'[d].pc = pc /\ disc'[d].peer = disc[d].peer
         /\ disc'[d].node = disc[d].node
  <1>1. disc[d] \in Disc
    OBVIOUS
  <1>2. [disc[d] EXCEPT !.pc = pc] \in Disc
    BY <1>1 DEF Disc
  <1>3. disc' = [disc EXCEPT ![d] = [disc[d] EXCEPT !.pc = pc]]
    BY DEF DiscGoto
  <1> QED BY <1>1, <1>2, <1>3 DEF Disc

\* A disconnection touches its own frame, its call and the rows, and the
\* rows only with the two statements of peer.Service.Remove.
LEMMA DisconnectTouches ==
  ASSUME TypeOK, NEW d \in Disconnects, DisconnectMove(d)
  PROVE  /\ UNCHANGED <<scene, status, subnets, requests, clean, cycle,
                        mig, sync, wg, file>>
         /\ faults' \in 0 .. MaxFaults
         /\ MarkRemoving(d) \/ DeletePeer(d) \/ UNCHANGED peers
         /\ RemoveFromNode(d) \/ RemovedFromNode(d) \/ UNCHANGED call
  <1> USE DEF DisconnectMove, DisconnectStep, DisconnectPeer, RemoveFromNode,
              RemovedFromNode, MarkRemoving, DeletePeer, tables, calls
  <1>1. UNCHANGED <<scene, status, subnets, requests, clean, cycle,
                    mig, sync, wg, file>>
    OBVIOUS
  <1>2. MarkRemoving(d) \/ DeletePeer(d) \/ UNCHANGED peers
    OBVIOUS
  <1>3. RemoveFromNode(d) \/ RemovedFromNode(d) \/ UNCHANGED call
    OBVIOUS
  <1>4. Sound \/ Fault("db")
    BY DEF Sound, Db
  <1>5. faults \in 0 .. MaxFaults
    BY DEF TypeOK, CallsTypeOK
  <1> QED BY <1>1, <1>2, <1>3, <1>4, <1>5, FaultsCount

\* A row that is marked or deleted takes no address.
LEMMA RowsRemoved ==
  ASSUME Core, NEW p \in Peers, UNCHANGED <<status, subnets>>,
         \/ UNCHANGED peers
         \/ Present(p) /\ peers' = [peers EXCEPT ![p].status = "removing"]
         \/ peers' = [peers EXCEPT ![p] = NoPeer]
  PROVE  /\ peers' \in [Peers -> PeerRow \cup {NoPeer}]
         /\ AddressesSound'
         /\ \A q \in Peers : Present(q)' => /\ Present(q)
                                            /\ peers'[q].node = peers[q].node
                                            /\ peers'[q].ip = peers[q].ip
  <1>0. peers \in [Peers -> PeerRow \cup {NoPeer}] /\ AddressesSound
    BY DEF Core, TypeOK, TablesInv
  <1>1. /\ peers' \in [Peers -> PeerRow \cup {NoPeer}]
        /\ \A q \in Peers : Present(q)' => /\ Present(q)
                                           /\ peers'[q].node = peers[q].node
                                           /\ peers'[q].ip = peers[q].ip
    <2>1. CASE UNCHANGED peers
      BY <1>0, <2>1 DEF Present
    <2>2. CASE Present(p) /\ peers' = [peers EXCEPT ![p].status = "removing"]
      <3> DEFINE row == [peers[p] EXCEPT !.status = "removing"]
      <3>1. peers[p] \in PeerRow
        BY <1>0, <2>2 DEF Present
      <3>2. row \in PeerRow /\ row.node = peers[p].node /\ row.ip = peers[p].ip
        BY <3>1 DEF PeerRow
      <3>3. peers' = [peers EXCEPT ![p] = row]
        BY <2>2
      <3> HIDE DEF row
      <3> QED BY <1>0, <2>2, <3>2, <3>3 DEF Present
    <2>3. CASE peers' = [peers EXCEPT ![p] = NoPeer]
      BY <1>0, <2>3 DEF Present
    <2> QED BY <2>1, <2>2, <2>3
  <1>2. AddressesSound'
    BY <1>0, <1>1 DEF AddressesSound, HasRow
  <1> QED BY <1>1, <1>2

\* A disconnection keeps the types, the frames and the tables.
LEMMA DisconnectKeeps ==
  ASSUME Core, NEW d \in Disconnects, DisconnectMove(d)
  PROVE  Core'
  <1> DEFINE f == disc[d]
  <1>0. /\ d \in Callers /\ d \notin Migrations /\ d \notin Syncs
        /\ TypeOK /\ CallsTypeOK /\ call \in [Callers -> Frame]
        /\ disc \in [Disconnects -> Disc] /\ f \in Disc
        /\ DiscOK(d) /\ CallOK(d)
        /\ peers \in [Peers -> PeerRow \cup {NoPeer}]
    BY ScenesAssumption DEF Core, TypeOK, CallsTypeOK, FramesOK
  <1>1. /\ UNCHANGED <<scene, status, subnets, requests, clean, cycle,
                       mig, sync, wg, file>>
        /\ faults' \in 0 .. MaxFaults
        /\ MarkRemoving(d) \/ DeletePeer(d) \/ UNCHANGED peers
        /\ RemoveFromNode(d) \/ RemovedFromNode(d) \/ UNCHANGED call
    BY <1>0, DisconnectTouches
  <1>2. peers' \in [Peers -> PeerRow \cup {NoPeer}] /\ AddressesSound'
    <2>1. CASE MarkRemoving(d) \/ DeletePeer(d)
      <3>1. f.peer \in Peers
        BY <1>0, <2>1 DEF MarkRemoving, DeletePeer, DiscOK
      <3>2. \/ UNCHANGED peers
            \/ Present(f.peer) /\ peers' = [peers EXCEPT ![f.peer].status = "removing"]
            \/ peers' = [peers EXCEPT ![f.peer] = NoPeer]
        BY <2>1 DEF MarkRemoving, DeletePeer
      <3> QED BY <1>1, <3>1, <3>2, RowsRemoved
    <2>2. CASE UNCHANGED peers
      BY <1>1, <2>2 DEF Core, TypeOK, TablesInv, AddressesSound, Present, HasRow
    <2> QED BY <1>1, <2>1, <2>2
  <1>3. ASSUME disc' \in [Disconnects -> Disc], DiscOK(d)',
               \A e \in Disconnects : e # d => disc'[e] = disc[e],
               call' \in [Callers -> Frame], CallOK(d)',
               \A b \in Callers : b # d => call'[b] = call[b]
        PROVE  Core'
    <2>1. CallsTypeOK'
      BY <1>0, <1>1, <1>3 DEF CallsTypeOK
    <2>2. /\ mig' \in [Migrations -> Mig] /\ sync' \in [Syncs -> Sync]
          /\ \A m \in Migrations : mig'[m] = mig[m]
          /\ \A s \in Syncs : sync'[s] = sync[s]
      BY <1>0, <1>1 DEF TypeOK
    <2> QED BY <1>0, <1>1, <1>2, <1>3, <2>1, <2>2, CallerKeeps
  <1>4. UNCHANGED call => /\ call' \in [Callers -> Frame] /\ CallOK(d)'
                          /\ \A b \in Callers : b # d => call'[b] = call[b]
    BY <1>0 DEF CallOK
  <1>5. ASSUME NEW p \in Peers, DisconnectPeer(d, p) PROVE Core'
    <2> DEFINE g == [pc |-> "getNode", peer |-> p, node |-> peers[p].node]
    <2>1. d \in scene /\ f.pc = "idle" /\ UNCHANGED call /\ peers[p] \in PeerRow
      BY <1>0, <1>5 DEF DisconnectPeer, calls, Present
    <2>2. g \in Disc /\ peers[p].node \in Nodes
      BY <2>1 DEF Disc, PeerRow
    <2>3. disc' = [disc EXCEPT ![d] = g]
      BY <1>5 DEF DisconnectPeer
    <2>4. disc' \in [Disconnects -> Disc] /\ disc'[d] = g
          /\ \A e \in Disconnects : e # d => disc'[e] = disc[e]
      <3> HIDE DEF g
      <3> QED BY <1>0, <2>2, <2>3
    <2>5. DiscOK(d)'
      BY <1>0, <1>1, <2>1, <2>2, <2>4 DEF DiscOK
    <2> HIDE DEF g
    <2> QED BY <1>3, <1>4, <2>1, <2>4, <2>5
  <1>6. CASE RemoveFromNode(d)
    <2>0. f.pc = "getNode" /\ f.peer \in Peers /\ f.node \in Nodes
      BY <1>0, <1>6 DEF RemoveFromNode, DiscOK
    <2>1. CASE RemovePeer(d, f.node, f.peer) /\ DiscGoto(d, "remove")
      <3>1. /\ Removing(call'[d], f.node, f.peer)
            /\ call'[d] \in Frame /\ CallOK(d)'
        BY <1>0, <2>0, <2>1, CallBegins
      <3>2. /\ call' \in [Callers -> Frame]
            /\ \A b \in Callers : b # d => call'[b] = call[b]
        BY <1>0, <2>1, <3>1, CallAlone
      <3>3. DiscOK(d)'
        BY <1>0, <1>1, <2>0, <2>1, <3>1, DiscGotoFields DEF DiscOK
      <3> QED BY <1>0, <1>3, <2>1, <3>1, <3>2, <3>3, DiscGotoFields
    <2>2. CASE DiscGoto(d, "mark") /\ UNCHANGED call
      <3>1. DiscOK(d)'
        BY <1>0, <1>1, <2>0, <2>2, DiscGotoFields DEF DiscOK
      <3> QED BY <1>0, <1>3, <1>4, <2>2, <3>1, DiscGotoFields
    <2> QED BY <1>6, <2>1, <2>2 DEF RemoveFromNode
  <1>7. CASE RemovedFromNode(d)
    <2>0. f.pc = "remove" /\ NoneFor(d) /\ DiscGoto(d, "mark")
      BY <1>7 DEF RemovedFromNode
    <2>1. call'[d] = NoCall /\ call'[d] \in Frame /\ CallOK(d)'
      BY <1>0, <2>0, CallAlone
    <2>2. /\ call' \in [Callers -> Frame]
          /\ \A b \in Callers : b # d => call'[b] = call[b]
      BY <1>0, <2>0, <2>1, CallAlone
    <2>3. DiscOK(d)'
      BY <1>0, <1>1, <2>0, <2>1, DiscGotoFields DEF DiscOK
    <2> QED BY <1>0, <1>3, <2>0, <2>1, <2>2, <2>3, DiscGotoFields
  <1>8. CASE MarkRemoving(d) \/ DeletePeer(d)
    <2>0. f.pc \in {"mark", "delete"} /\ UNCHANGED call
      BY <1>8 DEF MarkRemoving, DeletePeer
    <2>1. PICK pc \in {"delete", "done"} : DiscGoto(d, pc)
      BY <1>8 DEF MarkRemoving, DeletePeer
    <2>2. DiscOK(d)'
      BY <1>0, <1>1, <2>0, <2>1, DiscGotoFields DEF DiscOK
    <2> QED BY <1>0, <1>3, <1>4, <2>0, <2>1, <2>2, DiscGotoFields
  <1> QED BY <1>5, <1>6, <1>7, <1>8 DEF DisconnectMove, DisconnectStep
-----------------------------------------------------------------------------

(***************************************************************************)
(* The steps of a synchronisation.                                         *)
(***************************************************************************)

SyncMove(s) == SyncPeers(s) \/ SyncStep(s) \/ RestartWireGuard(s)

\* The frame of s after a step; no other synchronisation's changes.
SyncBecomes(s, pc, desired, drop, change, add, kept, clash) ==
  /\ sync' \in [Syncs -> Sync]
  /\ \A r \in Syncs : r # s => sync'[r] = sync[r]
  /\ sync'[s].pc = pc /\ sync'[s].desired = desired
  /\ sync'[s].drop = drop /\ sync'[s].change = change /\ sync'[s].add = add
  /\ sync'[s].kept = kept /\ sync'[s].clash = clash

\* What the assignments of SyncPeers make of a frame.
LEMMA SyncFields ==
  ASSUME sync \in [Syncs -> Sync], NEW s \in Syncs
  PROVE  LET f == sync[s] IN
         /\ \A pc \in {"done", "failed"} :
               sync' = [sync EXCEPT ![s].pc = pc] =>
                  SyncBecomes(s, pc, f.desired, f.drop, f.change, f.add, f.kept, f.clash)
         /\ \A x \in SUBSET Peers :
               /\ sync' = [sync EXCEPT ![s].drop = x] =>
                    SyncBecomes(s, f.pc, f.desired, x, f.change, f.add, f.kept, f.clash)
               /\ sync' = [sync EXCEPT ![s].change = x] =>
                    SyncBecomes(s, f.pc, f.desired, f.drop, x, f.add, f.kept, f.clash)
               /\ sync' = [sync EXCEPT ![s].add = x] =>
                    SyncBecomes(s, f.pc, f.desired, f.drop, f.change, x, f.kept, f.clash)
  <1> DEFINE f == sync[s]
  <1>0. f \in Sync
    OBVIOUS
  <1>1. ASSUME NEW g \in Sync, sync' = [sync EXCEPT ![s] = g]
        PROVE  SyncBecomes(s, g.pc, g.desired, g.drop, g.change, g.add, g.kept, g.clash)
    BY <1>1 DEF SyncBecomes
  <1>2. ASSUME NEW pc \in {"done", "failed"}, sync' = [sync EXCEPT ![s].pc = pc]
        PROVE  SyncBecomes(s, pc, f.desired, f.drop, f.change, f.add, f.kept, f.clash)
    <2> DEFINE g == [f EXCEPT !.pc = pc]
    <2>1. /\ g \in Sync /\ sync' = [sync EXCEPT ![s] = g]
          /\ g.pc = pc /\ g.desired = f.desired /\ g.drop = f.drop
          /\ g.change = f.change /\ g.add = f.add /\ g.kept = f.kept /\ g.clash = f.clash
      BY <1>0, <1>2 DEF Sync
    <2> HIDE DEF g, f
    <2> QED BY <1>1, <2>1
  <1>3. ASSUME NEW x \in SUBSET Peers, sync' = [sync EXCEPT ![s].drop = x]
        PROVE  SyncBecomes(s, f.pc, f.desired, x, f.change, f.add, f.kept, f.clash)
    <2> DEFINE g == [f EXCEPT !.drop = x]
    <2>1. /\ g \in Sync /\ sync' = [sync EXCEPT ![s] = g]
          /\ g.pc = f.pc /\ g.desired = f.desired /\ g.drop = x
          /\ g.change = f.change /\ g.add = f.add /\ g.kept = f.kept /\ g.clash = f.clash
      BY <1>0, <1>3 DEF Sync
    <2> HIDE DEF g, f
    <2> QED BY <1>1, <2>1
  <1>4. ASSUME NEW x \in SUBSET Peers, sync' = [sync EXCEPT ![s].change = x]
        PROVE  SyncBecomes(s, f.pc, f.desired, f.drop, x, f.add, f.kept, f.clash)
    <2> DEFINE g == [f EXCEPT !.change = x]
    <2>1. /\ g \in Sync /\ sync' = [sync EXCEPT ![s] = g]
          /\ g.pc = f.pc /\ g.desired = f.desired /\ g.drop = f.drop
          /\ g.change = x /\ g.add = f.add /\ g.kept = f.kept /\ g.clash = f.clash
      BY <1>0, <1>4 DEF Sync
    <2> HIDE DEF g, f
    <2> QED BY <1>1, <2>1
  <1>5. ASSUME NEW x \in SUBSET Peers, sync' = [sync EXCEPT ![s].add = x]
        PROVE  SyncBecomes(s, f.pc, f.desired, f.drop, f.change, x, f.kept, f.clash)
    <2> DEFINE g == [f EXCEPT !.add = x]
    <2>1. /\ g \in Sync /\ sync' = [sync EXCEPT ![s] = g]
          /\ g.pc = f.pc /\ g.desired = f.desired /\ g.drop = f.drop
          /\ g.change = f.change /\ g.add = x /\ g.kept = f.kept /\ g.clash = f.clash
      BY <1>0, <1>5 DEF Sync
    <2> HIDE DEF g, f
    <2> QED BY <1>1, <2>1
  <1> HIDE DEF f
  <1> QED BY <1>2, <1>3, <1>4, <1>5 DEF f

\* The rows of a node make a configuration.
LEMMA RowsTyped ==
  ASSUME peers \in [Peers -> PeerRow \cup {NoPeer}], NEW n
  PROVE  /\ Rows(n) \in Config
         /\ \A p \in Peers : Rows(n)[p] # Absent =>
               /\ Present(p) /\ peers[p].node = n
               /\ Rows(n)[p] = peers[p].ip /\ Rows(n)[p] \in Addresses
         /\ \A p \in Peers : Present(p) /\ peers[p].node = n => Rows(n)[p] = peers[p].ip
         /\ \A p \in Peers : ~ (Present(p) /\ peers[p].node = n) => Rows(n)[p] = Absent
  <1>1. \A p \in Peers : Present(p) => peers[p] \in PeerRow /\ peers[p].ip \in Addresses
    BY DEF Present, PeerRow
  <1> QED BY <1>1 DEF Rows, Config

\* What a synchronisation starts with.
LEMMA SyncPeersStarts ==
  ASSUME TypeOK, NEW s \in Syncs, SyncPeers(s)
  PROVE  /\ s \in scene /\ sync[s].pc = "idle"
         /\ UNCHANGED <<scene, tables, requests, clean, cycle, mig, disc, wg, file, call>>
         /\ faults' \in 0 .. MaxFaults
         /\ LET f == sync[s]
                current == {p \in Peers : wg[SyncNode][p] # Absent}
                desired == Rows(SyncNode)
                wanted == {p \in Peers : desired[p] # Absent}
            IN \/ \E change \in SUBSET (current \cap wanted) :
                    /\ \A p \in (current \cap wanted) \ change :
                          wg[SyncNode][p] = desired[p]
                    /\ SyncBecomes(s, "run", desired, current \ wanted, change,
                          wanted \ current, (current \cap wanted) \ change,
                          {p \in wanted : \E q \in wanted \ {p} :
                              wg[SyncNode][q] = desired[p]})
               \/ SyncBecomes(s, "failed", f.desired, f.drop, f.change, f.add,
                              f.kept, f.clash)
  <1> DEFINE f == sync[s]
             current == {p \in Peers : wg[SyncNode][p] # Absent}
             desired == Rows(SyncNode)
             wanted == {p \in Peers : desired[p] # Absent}
             clash == {p \in wanted : \E q \in wanted \ {p} : wg[SyncNode][q] = desired[p]}
  <1>0. /\ sync \in [Syncs -> Sync] /\ peers \in [Peers -> PeerRow \cup {NoPeer}]
        /\ faults \in 0 .. MaxFaults
    BY DEF TypeOK, CallsTypeOK
  <1>1. /\ s \in scene /\ sync[s].pc = "idle"
        /\ UNCHANGED <<scene, tables, requests, clean, cycle, mig, disc, wg, file, call>>
    BY DEF SyncPeers
  <1>2. Sound \/ Fault("ssh")
    BY DEF SyncPeers
  <1>3. faults' \in 0 .. MaxFaults
    BY <1>0, <1>2, FaultsCount
  <1>4. CASE sync' = [sync EXCEPT ![s].pc = "failed"]
    BY <1>0, <1>1, <1>3, <1>4, SyncFields
  <1>5. ASSUME NEW live \in SUBSET current, NEW change,
               change = {p \in current \cap wanted : peerNeedsUpdate(desired, live, p)},
               sync' = [sync EXCEPT ![s] = [pc |-> "run", desired |-> desired,
                   drop |-> current \ wanted, change |-> change,
                   add |-> wanted \ current,
                   kept |-> (current \cap wanted) \ change, clash |-> clash]]
        PROVE  /\ change \in SUBSET (current \cap wanted)
               /\ \A p \in (current \cap wanted) \ change : wg[SyncNode][p] = desired[p]
               /\ SyncBecomes(s, "run", desired, current \ wanted, change,
                          wanted \ current, (current \cap wanted) \ change, clash)
    <2>1. /\ change \in SUBSET (current \cap wanted)
          /\ \A p \in (current \cap wanted) \ change : wg[SyncNode][p] = desired[p]
      BY <1>5 DEF peerNeedsUpdate
    <2> DEFINE g == [pc |-> "run", desired |-> desired,
                     drop |-> current \ wanted, change |-> change,
                     add |-> wanted \ current,
                     kept |-> (current \cap wanted) \ change, clash |-> clash]
    <2>2. desired \in Config /\ current \subseteq Peers /\ wanted \subseteq Peers
          /\ clash \subseteq Peers
      BY <1>0, RowsTyped
    <2> HIDE DEF desired, current, wanted, clash
    <2>3. g \in Sync
      BY <2>1, <2>2 DEF Sync
    <2>4. sync' = [sync EXCEPT ![s] = g]
      BY <1>5
    <2>5. /\ g.pc = "run" /\ g.desired = desired /\ g.drop = current \ wanted
          /\ g.change = change /\ g.add = wanted \ current
          /\ g.kept = (current \cap wanted) \ change /\ g.clash = clash
      OBVIOUS
    <2> HIDE DEF g
    <2>6. SyncBecomes(s, "run", desired, current \ wanted, change, wanted \ current,
                      (current \cap wanted) \ change, clash)
      BY <1>0, <2>3, <2>4, <2>5 DEF SyncBecomes
    <2> QED BY <2>1, <2>6
  <1>6. CASE sync' # [sync EXCEPT ![s].pc = "failed"]
    <2>1. PICK live \in SUBSET current :
             sync' = [sync EXCEPT ![s] = [pc |-> "run", desired |-> desired,
                   drop |-> current \ wanted,
                   change |-> {p \in current \cap wanted : peerNeedsUpdate(desired, live, p)},
                   add |-> wanted \ current,
                   kept |-> (current \cap wanted)
                               \ {p \in current \cap wanted : peerNeedsUpdate(desired, live, p)},
                   clash |-> clash]]
      BY <1>6 DEF SyncPeers
    <2> DEFINE change == {p \in current \cap wanted : peerNeedsUpdate(desired, live, p)}
    <2>2. /\ change \in SUBSET (current \cap wanted)
          /\ \A p \in (current \cap wanted) \ change : wg[SyncNode][p] = desired[p]
          /\ SyncBecomes(s, "run", desired, current \ wanted, change,
                          wanted \ current, (current \cap wanted) \ change, clash)
      <3> HIDE DEF current, wanted, desired, clash
      <3> QED BY <1>5, <2>1
    <2> HIDE DEF change
    <2>3. \E x \in SUBSET (current \cap wanted) :
             /\ \A p \in (current \cap wanted) \ x : wg[SyncNode][p] = desired[p]
             /\ SyncBecomes(s, "run", desired, current \ wanted, x,
                          wanted \ current, (current \cap wanted) \ x, clash)
      BY <2>2
    <2> QED BY <1>1, <1>3, <2>3
  <1> QED BY <1>4, <1>6
-----------------------------------------------------------------------------

\* The next peer of a synchronisation.
LEMMA SyncOneTakes ==
  ASSUME TypeOK, NEW s \in Syncs, SyncOne(s)
  PROVE  /\ sync[s].pc = "run" /\ call[s] = NoCall
         /\ UNCHANGED <<scene, tables, requests, clean, cycle, mig, disc, wg, file, faults>>
         /\ LET f == sync[s] IN
            \E p \in Peers :
               \/ /\ p \in f.drop /\ RemovePeer(s, SyncNode, p)
                  /\ SyncBecomes(s, "run", f.desired, f.drop \ {p}, f.change, f.add,
                                 f.kept, f.clash)
               \/ /\ f.drop = {} /\ p \in f.change
                  /\ UpdatePeer(s, SyncNode, p, f.desired[p])
                  /\ SyncBecomes(s, "run", f.desired, f.drop, f.change \ {p}, f.add,
                                 f.kept, f.clash)
               \/ /\ f.drop = {} /\ p \in f.add
                  /\ AddPeer(s, SyncNode, p, f.desired[p])
                  /\ SyncBecomes(s, "run", f.desired, f.drop, f.change, f.add \ {p},
                                 f.kept, f.clash)
  <1> DEFINE f == sync[s]
  <1>0. /\ sync \in [Syncs -> Sync] /\ f \in Sync
        /\ f.drop \subseteq Peers /\ f.change \subseteq Peers /\ f.add \subseteq Peers
    BY DEF TypeOK, Sync
  <1>1. /\ f.pc = "run" /\ call[s] = NoCall
        /\ UNCHANGED <<scene, tables, requests, clean, cycle, mig, disc, wg, file, faults>>
    BY DEF SyncOne
  <1>2. ASSUME NEW p \in f.drop, RemovePeer(s, SyncNode, p),
               sync' = [sync EXCEPT ![s].drop = f.drop \ {p}]
        PROVE  SyncBecomes(s, "run", f.desired, f.drop \ {p}, f.change, f.add,
                           f.kept, f.clash)
    <2>1. f.drop \ {p} \in SUBSET Peers
      BY <1>0
    <2> QED BY <1>0, <1>1, <1>2, <2>1, SyncFields
  <1>3. ASSUME NEW p \in f.change,
               sync' = [sync EXCEPT ![s].change = f.change \ {p}]
        PROVE  SyncBecomes(s, "run", f.desired, f.drop, f.change \ {p}, f.add,
                           f.kept, f.clash)
    <2>1. f.change \ {p} \in SUBSET Peers
      BY <1>0
    <2> QED BY <1>0, <1>1, <1>3, <2>1, SyncFields
  <1>4. ASSUME NEW p \in f.add,
               sync' = [sync EXCEPT ![s].add = f.add \ {p}]
        PROVE  SyncBecomes(s, "run", f.desired, f.drop, f.change, f.add \ {p},
                           f.kept, f.clash)
    <2>1. f.add \ {p} \in SUBSET Peers
      BY <1>0
    <2> QED BY <1>0, <1>1, <1>4, <2>1, SyncFields
  <1>5. \/ \E p \in f.drop : /\ RemovePeer(s, SyncNode, p)
                             /\ sync' = [sync EXCEPT ![s].drop = f.drop \ {p}]
        \/ /\ f.drop = {}
           /\ \E p \in f.change : /\ UpdatePeer(s, SyncNode, p, f.desired[p])
                                  /\ sync' = [sync EXCEPT ![s].change = f.change \ {p}]
        \/ /\ f.drop = {}
           /\ \E p \in f.add : /\ AddPeer(s, SyncNode, p, f.desired[p])
                               /\ sync' = [sync EXCEPT ![s].add = f.add \ {p}]
    BY DEF SyncOne
  <1> HIDE DEF f
  <1>6. \E p \in Peers :
           \/ /\ p \in f.drop /\ RemovePeer(s, SyncNode, p)
              /\ SyncBecomes(s, "run", f.desired, f.drop \ {p}, f.change, f.add,
                             f.kept, f.clash)
           \/ /\ f.drop = {} /\ p \in f.change
              /\ UpdatePeer(s, SyncNode, p, f.desired[p])
              /\ SyncBecomes(s, "run", f.desired, f.drop, f.change \ {p}, f.add,
                             f.kept, f.clash)
           \/ /\ f.drop = {} /\ p \in f.add
              /\ AddPeer(s, SyncNode, p, f.desired[p])
              /\ SyncBecomes(s, "run", f.desired, f.drop, f.change, f.add \ {p},
                             f.kept, f.clash)
    BY <1>0, <1>2, <1>3, <1>4, <1>5
  <1> QED BY <1>1, <1>6 DEF f

\* A synchronisation keeps the rows, the frames and the tables.
LEMMA SyncKeeps ==
  ASSUME Core, NEW s \in Syncs, SyncMove(s)
  PROVE  Core'
  <1> DEFINE f == sync[s]
  <1>0. /\ s \in Callers /\ s \notin Migrations /\ s \notin Disconnects
        /\ TypeOK /\ CallsTypeOK /\ call \in [Callers -> Frame]
        /\ sync \in [Syncs -> Sync] /\ f \in Sync /\ f.desired \in Config
        /\ SyncOK(s) /\ CallOK(s) /\ SyncNode \in Nodes
        /\ peers \in [Peers -> PeerRow \cup {NoPeer}]
        /\ wg \in [Nodes -> Config] /\ file \in [Nodes -> Config]
        /\ faults \in 0 .. MaxFaults
    BY ScenesAssumption, RotationAssumption
       DEF Core, TypeOK, CallsTypeOK, FramesOK, Sync
  <1>1. /\ UNCHANGED <<scene, tables, requests, clean, cycle, mig, disc, file>>
        /\ faults' \in 0 .. MaxFaults
        /\ wg' \in [Nodes -> Config]
    <2>1. CASE SyncPeers(s)
      BY <1>0, <2>1, SyncPeersStarts
    <2>2. CASE SyncStep(s)
      BY <1>0, <2>2 DEF SyncStep, SyncOne, SyncReturned, EndSync, calls, frames
    <2>3. CASE RestartWireGuard(s)
      <3>1. Sound \/ Fault("ssh")
        BY <2>3 DEF RestartWireGuard
      <3>2. faults' \in 0 .. MaxFaults
        BY <1>0, <3>1, FaultsCount
      <3>3. wg' \in [Nodes -> Config]
        BY <1>0, <2>3 DEF RestartWireGuard
      <3> QED BY <2>3, <3>2, <3>3 DEF RestartWireGuard, frames
    <2> QED BY <2>1, <2>2, <2>3 DEF SyncMove
  <1>2. ASSUME sync' \in [Syncs -> Sync], SyncOK(s)',
               \A r \in Syncs : r # s => sync'[r] = sync[r],
               call' \in [Callers -> Frame], CallOK(s)',
               \A b \in Callers : b # s => call'[b] = call[b]
        PROVE  Core'
    <2>0. UNCHANGED <<status, subnets, peers>>
      BY <1>1 DEF tables
    <2>1. CallsTypeOK'
      BY <1>0, <1>1, <1>2 DEF CallsTypeOK
    <2>2. /\ mig' \in [Migrations -> Mig] /\ disc' \in [Disconnects -> Disc]
          /\ \A m \in Migrations : mig'[m] = mig[m]
          /\ \A d \in Disconnects : disc'[d] = disc[d]
      BY <1>0, <1>1 DEF TypeOK
    <2>3. AddressesSound'
      BY <2>0 DEF Core, TablesInv, AddressesSound, Present, HasRow
    <2> QED BY <1>0, <1>1, <1>2, <2>0, <2>1, <2>2, <2>3, CallerKeeps
  <1>3. UNCHANGED call => /\ call' \in [Callers -> Frame] /\ CallOK(s)'
                          /\ \A b \in Callers : b # s => call'[b] = call[b]
    BY <1>0 DEF CallOK
  <1>4. CASE SyncPeers(s)
    <2> DEFINE current == {p \in Peers : wg[SyncNode][p] # Absent}
               desired == Rows(SyncNode)
               wanted == {p \in Peers : desired[p] # Absent}
               clash == {p \in wanted : \E q \in wanted \ {p} : wg[SyncNode][q] = desired[p]}
    <2>1. /\ s \in scene /\ f.pc = "idle" /\ UNCHANGED call
          /\ \/ \E change \in SUBSET (current \cap wanted) :
                  SyncBecomes(s, "run", desired, current \ wanted, change,
                      wanted \ current, (current \cap wanted) \ change, clash)
             \/ SyncBecomes(s, "failed", f.desired, f.drop, f.change, f.add,
                            f.kept, f.clash)
      BY <1>0, <1>4, SyncPeersStarts
    <2>2. \A p \in wanted : desired[p] \in Addresses
      BY <1>0, RowsTyped
    <2> HIDE DEF current, desired, wanted, clash
    <2>3. SyncOK(s)'
      <3>1. CASE \E change \in SUBSET (current \cap wanted) :
                  SyncBecomes(s, "run", desired, current \ wanted, change,
                      wanted \ current, (current \cap wanted) \ change, clash)
        BY <1>0, <1>1, <2>1, <2>2, <3>1 DEF SyncBecomes, SyncOK
      <3>2. CASE SyncBecomes(s, "failed", f.desired, f.drop, f.change, f.add,
                             f.kept, f.clash)
        BY <1>0, <1>1, <2>1, <3>2 DEF SyncBecomes, SyncOK
      <3> QED BY <2>1, <3>1, <3>2
    <2>4. sync' \in [Syncs -> Sync] /\ \A r \in Syncs : r # s => sync'[r] = sync[r]
      BY <2>1 DEF SyncBecomes
    <2> QED BY <1>2, <1>3, <2>1, <2>3, <2>4
  <1>5. CASE SyncOne(s)
    <2>1. PICK p \in Peers :
               \/ /\ p \in f.drop /\ RemovePeer(s, SyncNode, p)
                  /\ SyncBecomes(s, "run", f.desired, f.drop \ {p}, f.change, f.add,
                                 f.kept, f.clash)
               \/ /\ f.drop = {} /\ p \in f.change
                  /\ UpdatePeer(s, SyncNode, p, f.desired[p])
                  /\ SyncBecomes(s, "run", f.desired, f.drop, f.change \ {p}, f.add,
                                 f.kept, f.clash)
               \/ /\ f.drop = {} /\ p \in f.add
                  /\ AddPeer(s, SyncNode, p, f.desired[p])
                  /\ SyncBecomes(s, "run", f.desired, f.drop, f.change, f.add \ {p},
                                 f.kept, f.clash)
      BY <1>0, <1>5, SyncOneTakes
    <2>2. f.pc = "run" /\ call[s] = NoCall
      BY <1>0, <1>5, SyncOneTakes
    <2>3. p \in f.change \cup f.add => f.desired[p] \in Addresses
      BY <1>0 DEF SyncOK
    <2>4. call'[s] \in Frame /\ CallOK(s)'
      BY <1>0, <2>1, <2>3, CallBegins
    <2>5. /\ call' \in [Callers -> Frame]
          /\ \A b \in Callers : b # s => call'[b] = call[b]
      BY <1>0, <2>1, <2>4, CallAlone
    <2>6. /\ SyncOK(s)' /\ sync' \in [Syncs -> Sync]
          /\ \A r \in Syncs : r # s => sync'[r] = sync[r]
      BY <1>0, <1>1, <2>1, <2>2 DEF SyncBecomes, SyncOK
    <2> QED BY <1>2, <2>4, <2>5, <2>6
  <1>6. CASE SyncReturned(s)
    <2>0. f.pc = "run" /\ NoneFor(s) /\ UNCHANGED sync
      BY <1>6 DEF SyncReturned, frames
    <2>1. call'[s] = NoCall /\ call'[s] \in Frame /\ CallOK(s)'
      BY <1>0, <2>0, CallAlone
    <2>2. /\ call' \in [Callers -> Frame]
          /\ \A b \in Callers : b # s => call'[b] = call[b]
      BY <1>0, <2>0, <2>1, CallAlone
    <2>3. SyncOK(s)'
      BY <1>0, <1>1, <2>0 DEF SyncOK
    <2> QED BY <1>0, <1>2, <2>0, <2>1, <2>2, <2>3
  <1>7. CASE EndSync(s)
    <2>0. f.pc = "run" /\ UNCHANGED call /\ call[s] = NoCall
          /\ sync' = [sync EXCEPT ![s].pc = "done"]
      BY <1>7 DEF EndSync, calls
    <2>1. SyncBecomes(s, "done", f.desired, f.drop, f.change, f.add, f.kept, f.clash)
      BY <1>0, <2>0, SyncFields
    <2>2. SyncOK(s)'
      BY <1>0, <1>1, <2>0, <2>1 DEF SyncOK, SyncBecomes
    <2> QED BY <1>2, <1>3, <2>0, <2>1, <2>2 DEF SyncBecomes
  <1>8. CASE RestartWireGuard(s)
    <2>0. UNCHANGED <<sync, call>>
      BY <1>8 DEF RestartWireGuard, frames
    <2>1. SyncOK(s)'
      BY <1>0, <1>1, <2>0 DEF SyncOK
    <2> QED BY <1>0, <1>2, <1>3, <2>0, <2>1
  <1> QED BY <1>4, <1>5, <1>6, <1>7, <1>8 DEF SyncMove, SyncStep
-----------------------------------------------------------------------------

(***************************************************************************)
(* The steps of a rotation cycle, and what serves its requests.            *)
(***************************************************************************)

\* The values of a node's status, with "none" and "deleted".
Statuses == Status \cup {"none", "deleted"}

\* What a step that touches the nodes has to keep.
LEMMA NodesKeep ==
  ASSUME Core, UNCHANGED <<scene, mig, disc, sync, call>>,
         faults' \in 0 .. MaxFaults,
         wg' \in [Nodes -> Config], file' \in [Nodes -> Config],
         status' \in [Nodes -> Statuses],
         \A n \in Nodes : status'[n] = "none" => status[n] = "none",
         scene \cap Cleaners = {} => \A n \in Nodes : Standing(n)',
         peers' \in [Peers -> PeerRow \cup {NoPeer}],
         requests' \in 0 .. MaxRequests,
         clean' \in [Cleaners -> Clean], \A k \in Cleaners : CleanOK(k)',
         cycle' \in [Cycles -> Cycle], \A c \in Cycles : CycleOK(c)',
         subnets' \in [Nodes -> Subnet \cup {NoSubnet}],
         \A n \in Nodes : subnets'[n] \in {subnets[n], NoSubnet} \/ status[n] = "none",
         SubnetsOK', AddressesSound'
  PROVE  Core'
  <1>1. TypeOK'
    <2>1. \A n \in Nodes : subnets'[n] = NoSubnet \/ ValidateSubnetAllocation(subnets'[n])
      BY SubnetShape DEF SubnetsOK
    <2> QED BY <2>1 DEF Core, TypeOK, CallsTypeOK, Statuses
  <1>2. FramesOK'
    <2>1. FramesOK
      BY DEF Core
    <2> QED BY <2>1, FramesKept
  <1>3. \A m \in Migrations : RangeOK(m)'
    <2> SUFFICES ASSUME NEW m \in Migrations PROVE RangeOK(m)'
      OBVIOUS
    <2>1. RangeOK(m) /\ Route[m].target \in Nodes /\ mig'[m] = mig[m]
      BY RotationAssumption DEF Core, TablesInv
    <2> QED BY <2>1 DEF RangeOK
  <1> QED BY <1>1, <1>2, <1>3 DEF Core, TablesInv

\* A subnet that is taken from a node is free, and the rest stays apart.
LEMMA SubnetsShrink ==
  ASSUME SubnetsOK, \A n \in Nodes : subnets'[n] \in {subnets[n], NoSubnet},
         \A n \in Nodes : subnets'[n] # NoSubnet => HasRow(n)'
  PROVE  SubnetsOK'
  <1>1. \A n \in Nodes : subnets'[n] = NoSubnet \/ Generated(subnets'[n])
    BY DEF SubnetsOK
  <1>2. ASSUME NEW n \in Nodes, NEW m \in Nodes \ {n}, subnets'[n] # NoSubnet
        PROVE  subnets'[m].network # subnets'[n].network
    <2>1. subnets'[n] = subnets[n] /\ subnets[m].network # subnets[n].network
      BY <1>2 DEF SubnetsOK
    <2>2. CASE subnets'[m] = NoSubnet
      <3>1. subnets'[n].network \in Nat /\ NoSubnet.network = -1
        BY <1>1, <1>2, SubnetShape DEF NoSubnet
      <3> QED BY <2>2, <3>1
    <2>3. CASE subnets'[m] # NoSubnet
      BY <2>1, <2>3
    <2> QED BY <2>2, <2>3
  <1> QED BY <1>1, <1>2 DEF SubnetsOK

\* Rows that stay keep their addresses apart, and in the ranges that are left.
LEMMA AddressesShrink ==
  ASSUME AddressesSound, peers \in [Peers -> PeerRow \cup {NoPeer}],
         \A n \in Nodes : subnets'[n] \in {subnets[n], NoSubnet},
         \A p \in Peers : Present(p)' => /\ Present(p) /\ peers'[p] = peers[p]
                                         /\ HasRow(peers[p].node)'
  PROVE  AddressesSound'
  <1>1. \A p \in Peers : Present(p) => peers[p].node \in Nodes
    BY DEF Present, PeerRow
  <1> QED BY <1>1 DEF AddressesSound, HasRow

\* The frame of c after a step; no other cycle's changes.
CycleBecomes(c, pc, todo, chosen) ==
  /\ cycle' \in [Cycles -> Cycle]
  /\ \A b \in Cycles : b # c => cycle'[b] = cycle[b]
  /\ cycle'[c].pc = pc /\ cycle'[c].todo = todo /\ cycle'[c].chosen = chosen

\* What the assignments of RotateNodes make of a frame.
LEMMA CycleFields ==
  ASSUME cycle \in [Cycles -> Cycle], NEW c \in Cycles
  PROVE  LET f == cycle[c] IN
         /\ \A pc \in {"idle", "check", "publish"} \cup Returned :
            \A todo \in SUBSET Nodes : \A chosen \in Seq(Chosen) :
               /\ cycle' = [cycle EXCEPT ![c].pc = pc, ![c].todo = todo]
                     => CycleBecomes(c, pc, todo, f.chosen)
               /\ cycle' = [cycle EXCEPT ![c].pc = pc] => CycleBecomes(c, pc, f.todo, f.chosen)
               /\ cycle' = [cycle EXCEPT ![c].todo = todo, ![c].chosen = chosen]
                     => CycleBecomes(c, f.pc, todo, chosen)
               /\ cycle' = [cycle EXCEPT ![c].todo = todo]
                     => CycleBecomes(c, f.pc, todo, f.chosen)
               /\ cycle' = [cycle EXCEPT ![c].chosen = chosen, ![c].pc = pc]
                     => CycleBecomes(c, pc, f.todo, chosen)
  <1> DEFINE f == cycle[c]
  <1>0. f \in Cycle
    OBVIOUS
  <1>1. ASSUME NEW g \in Cycle, cycle' = [cycle EXCEPT ![c] = g]
        PROVE  CycleBecomes(c, g.pc, g.todo, g.chosen)
    BY <1>1 DEF CycleBecomes
  <1> SUFFICES ASSUME NEW pc \in {"idle", "check", "publish"} \cup Returned,
                      NEW todo \in SUBSET Nodes, NEW chosen \in Seq(Chosen)
               PROVE  /\ cycle' = [cycle EXCEPT ![c].pc = pc, ![c].todo = todo]
                            => CycleBecomes(c, pc, todo, f.chosen)
                      /\ cycle' = [cycle EXCEPT ![c].pc = pc] => CycleBecomes(c, pc, f.todo, f.chosen)
                      /\ cycle' = [cycle EXCEPT ![c].todo = todo, ![c].chosen = chosen]
                            => CycleBecomes(c, f.pc, todo, chosen)
                      /\ cycle' = [cycle EXCEPT ![c].todo = todo]
                            => CycleBecomes(c, f.pc, todo, f.chosen)
                      /\ cycle' = [cycle EXCEPT ![c].chosen = chosen, ![c].pc = pc]
                            => CycleBecomes(c, pc, f.todo, chosen)
    OBVIOUS
  <1>2. ASSUME cycle' = [cycle EXCEPT ![c].pc = pc, ![c].todo = todo]
        PROVE  CycleBecomes(c, pc, todo, f.chosen)
    <2> DEFINE g == [f EXCEPT !.pc = pc, !.todo = todo]
    <2>1. /\ g \in Cycle /\ cycle' = [cycle EXCEPT ![c] = g]
          /\ g.pc = pc /\ g.todo = todo /\ g.chosen = f.chosen
      BY <1>0, <1>2 DEF Cycle
    <2> HIDE DEF g, f
    <2> QED BY <1>1, <2>1
  <1>3. ASSUME cycle' = [cycle EXCEPT ![c].pc = pc]
        PROVE  CycleBecomes(c, pc, f.todo, f.chosen)
    <2> DEFINE g == [f EXCEPT !.pc = pc]
    <2>1. /\ g \in Cycle /\ cycle' = [cycle EXCEPT ![c] = g]
          /\ g.pc = pc /\ g.todo = f.todo /\ g.chosen = f.chosen
      BY <1>0, <1>3 DEF Cycle
    <2> HIDE DEF g, f
    <2> QED BY <1>1, <2>1
  <1>4. ASSUME cycle' = [cycle EXCEPT ![c].todo = todo, ![c].chosen = chosen]
        PROVE  CycleBecomes(c, f.pc, todo, chosen)
    <2> DEFINE g == [f EXCEPT !.todo = todo, !.chosen = chosen]
    <2>1. /\ g \in Cycle /\ cycle' = [cycle EXCEPT ![c] = g]
          /\ g.pc = f.pc /\ g.todo = todo /\ g.chosen = chosen
      BY <1>0, <1>4 DEF Cycle
    <2> HIDE DEF g, f
    <2> QED BY <1>1, <2>1
  <1>5. ASSUME cycle' = [cycle EXCEPT ![c].todo = todo]
        PROVE  CycleBecomes(c, f.pc, todo, f.chosen)
    <2> DEFINE g == [f EXCEPT !.todo = todo]
    <2>1. /\ g \in Cycle /\ cycle' = [cycle EXCEPT ![c] = g]
          /\ g.pc = f.pc /\ g.todo = todo /\ g.chosen = f.chosen
      BY <1>0, <1>5 DEF Cycle
    <2> HIDE DEF g, f
    <2> QED BY <1>1, <2>1
  <1>6. ASSUME cycle' = [cycle EXCEPT ![c].chosen = chosen, ![c].pc = pc]
        PROVE  CycleBecomes(c, pc, f.todo, chosen)
    <2> DEFINE g == [f EXCEPT !.chosen = chosen, !.pc = pc]
    <2>1. /\ g \in Cycle /\ cycle' = [cycle EXCEPT ![c] = g]
          /\ g.pc = pc /\ g.todo = f.todo /\ g.chosen = chosen
      BY <1>0, <1>6 DEF Cycle
    <2> HIDE DEF g, f
    <2> QED BY <1>1, <2>1
  <1> QED BY <1>2, <1>3, <1>4, <1>5, <1>6
-----------------------------------------------------------------------------

\* Every verdict on a node's health has one of three priorities.
LEMMA VerdictsTyped ==
  ASSUME NEW v \in Verdicts
  PROVE  v.priority \in {0, 1, 2}
  BY DEF Verdicts, analyzeNodeForRotation

\* A cycle keeps the rows, the frames and the tables.
LEMMA CycleKeeps ==
  ASSUME Core, NEW c \in Cycles, ListActiveNodes(c) \/ CycleStep(c)
  PROVE  Core'
  <1> DEFINE f == cycle[c]
  <1>0. /\ TypeOK /\ cycle \in [Cycles -> Cycle] /\ f \in Cycle
        /\ f.chosen \in Seq(Chosen) /\ f.todo \subseteq Nodes
        /\ CycleOK(c) /\ \A b \in Cycles : CycleOK(b)
        /\ status \in [Nodes -> Statuses]
        /\ faults \in 0 .. MaxFaults /\ requests \in 0 .. MaxRequests
        /\ \A k \in Cleaners : CleanOK(k)
        /\ scene \cap Cleaners = {} => \A n \in Nodes : Standing(n)
    BY DEF Core, TypeOK, CallsTypeOK, FramesOK, Cycle, Statuses
  <1>1. c \in scene
    BY <1>0 DEF ListActiveNodes, CycleStep, CheckNode, Decide, createReplacementNode,
                CycleOK
  <1>2. UNCHANGED <<scene, subnets, peers, clean, mig, disc, sync, wg, file, call>>
    BY DEF ListActiveNodes, CycleStep, CheckNode, Decide, createReplacementNode,
           tables, calls
  <1>3. faults' \in 0 .. MaxFaults
    <2>1. Sound \/ Fault("db") \/ Fault("ssh")
      BY DEF ListActiveNodes, CycleStep, CheckNode, Decide, createReplacementNode,
             calls, Sound, Db
    <2> QED BY <1>0, <2>1, FaultsCount
  <1>4. ASSUME NEW pc, NEW todo, NEW chosen, CycleBecomes(c, pc, todo, chosen),
               pc = "publish" => chosen # <<>>,
               status' \in [Nodes -> Statuses],
               \A n \in Nodes : status'[n] = status[n] \/ (HasRow(n) /\ Standing(n)
                                   /\ status'[n] \in {"active", "unhealthy"}),
               requests' \in 0 .. MaxRequests
        PROVE  Core'
    <2>1. \A b \in Cycles : CycleOK(b)'
      BY <1>0, <1>1, <1>2, <1>4 DEF CycleBecomes, CycleOK
    <2>2. SubnetsOK' /\ AddressesSound'
      <3>1. \A n \in Nodes : (HasRow(n) => HasRow(n)') /\ (Standing(n) => Standing(n)')
        BY <1>4 DEF HasRow, Standing, Status
      <3>2. \A n \in Nodes : subnets'[n] = subnets[n]
        BY <1>2
      <3>3. SubnetsOK /\ AddressesSound /\ peers \in [Peers -> PeerRow \cup {NoPeer}]
        BY DEF Core, TypeOK, TablesInv
      <3>4. SubnetsOK'
        BY <3>1, <3>2, <3>3, SubnetsShrink DEF SubnetsOK
      <3>5. \A p \in Peers : Present(p)' => /\ Present(p) /\ peers'[p] = peers[p]
                                            /\ HasRow(peers[p].node)'
        BY <1>2, <3>1, <3>3 DEF AddressesSound, Present, PeerRow
      <3> QED BY <3>2, <3>3, <3>4, <3>5, AddressesShrink
    <2>3. /\ wg' \in [Nodes -> Config] /\ file' \in [Nodes -> Config]
          /\ peers' \in [Peers -> PeerRow \cup {NoPeer}]
          /\ clean' \in [Cleaners -> Clean]
          /\ subnets' \in [Nodes -> Subnet \cup {NoSubnet}]
      BY <1>2 DEF Core, TypeOK, CallsTypeOK
    <2>4. cycle' \in [Cycles -> Cycle]
      BY <1>4 DEF CycleBecomes
    <2>5. \A k \in Cleaners : CleanOK(k)'
      BY <1>0, <1>2 DEF CleanOK
    <2>6. scene \cap Cleaners = {} => \A n \in Nodes : Standing(n)'
      BY <1>0, <1>4 DEF Standing
    <2>7. \A n \in Nodes : /\ status'[n] = "none" => status[n] = "none"
                           /\ subnets'[n] \in {subnets[n], NoSubnet}
      BY <1>2, <1>4
    <2> QED BY <1>2, <1>3, <1>4, <2>1, <2>2, <2>3, <2>4, <2>5, <2>6, <2>7, NodesKeep
  <1>5. CASE ListActiveNodes(c)
    <2>1. UNCHANGED <<status, requests>>
      BY <1>5 DEF ListActiveNodes, tables
    <2>2. PICK pc \in {"ok", "check", "failed"}, todo \in SUBSET Nodes :
             \/ cycle' = [cycle EXCEPT ![c].pc = pc, ![c].todo = todo]
             \/ cycle' = [cycle EXCEPT ![c].pc = pc]
      <3> DEFINE found == {n \in Nodes : status[n] = "active"}
      <3>1. found \in SUBSET Nodes
        OBVIOUS
      <3>2. \/ cycle' = [cycle EXCEPT ![c].pc = IF found = {} THEN "ok" ELSE "check",
                                      ![c].todo = found]
            \/ cycle' = [cycle EXCEPT ![c].pc = "failed"]
        BY <1>5 DEF ListActiveNodes
      <3> HIDE DEF found
      <3>3. CASE cycle' = [cycle EXCEPT ![c].pc = IF found = {} THEN "ok" ELSE "check",
                                        ![c].todo = found]
        <4>1. (IF found = {} THEN "ok" ELSE "check") \in {"ok", "check", "failed"}
          OBVIOUS
        <4> QED BY <3>1, <3>3, <4>1
      <3> QED BY <3>1, <3>2, <3>3
    <2>3. pc \in {"idle", "check", "publish"} \cup Returned /\ pc # "publish"
      BY DEF Returned
    <2>4. \/ CycleBecomes(c, pc, todo, f.chosen) \/ CycleBecomes(c, pc, f.todo, f.chosen)
      BY <1>0, <2>2, <2>3, CycleFields
    <2> QED BY <1>0, <1>4, <2>1, <2>3, <2>4
  <1>6. CASE CheckNode(c)
    <2> DEFINE n == Max(f.todo)
    <2>0. f.pc = "check" /\ f.todo # {} /\ UNCHANGED requests
      BY <1>6 DEF CheckNode
    <2>1. n \in f.todo /\ n \in Nodes
      <3>1. IsFiniteSet(f.todo) /\ f.todo \subseteq Nat
        BY <1>0, CallsAssumption, FS_Subset
      <3>2. Max(f.todo) \in f.todo
        BY <2>0, <3>1, Greatest
      <3> QED BY <1>0, <3>2
    <2>2. f.todo \ {n} \in SUBSET Nodes /\ f.pc \in {"idle", "check", "publish"} \cup Returned
      BY <1>0, <2>0
    <2>3. CASE \E v \in Verdicts :
                 LET new == IF v.healthy THEN "active" ELSE "unhealthy" IN
                  /\ status' = IF CanTransitionTo(status[n], new)
                               THEN [status EXCEPT ![n] = new] ELSE status
                  /\ cycle' = [cycle EXCEPT ![c].todo = f.todo \ {n},
                        ![c].chosen = IF v.priority = 0 THEN f.chosen ELSE
                              Append(f.chosen, [node |-> n, priority |-> v.priority])]
      <3>1. PICK v \in Verdicts :
                 LET new == IF v.healthy THEN "active" ELSE "unhealthy" IN
                  /\ status' = IF CanTransitionTo(status[n], new)
                               THEN [status EXCEPT ![n] = new] ELSE status
                  /\ cycle' = [cycle EXCEPT ![c].todo = f.todo \ {n},
                        ![c].chosen = IF v.priority = 0 THEN f.chosen ELSE
                              Append(f.chosen, [node |-> n, priority |-> v.priority])]
        BY <2>3
      <3> DEFINE entry == [node |-> n, priority |-> v.priority]
                 chosen == IF v.priority = 0 THEN f.chosen ELSE Append(f.chosen, entry)
      <3>2. chosen \in Seq(Chosen)
        <4>1. v.priority # 0 => entry \in Chosen
          BY <2>1, VerdictsTyped DEF Chosen
        <4> HIDE DEF entry, f
        <4>2. f.chosen \in Seq(Chosen)
          BY <1>0
        <4> QED BY <4>1, <4>2
      <3> DEFINE new == IF v.healthy THEN "active" ELSE "unhealthy"
      <3>3. /\ status' = IF CanTransitionTo(status[n], new)
                         THEN [status EXCEPT ![n] = new] ELSE status
            /\ cycle' = [cycle EXCEPT ![c].todo = f.todo \ {n}, ![c].chosen = chosen]
        BY <3>1
      <3>4. new \in {"active", "unhealthy"}
        OBVIOUS
      <3> HIDE DEF new, n, chosen, f
      <3>5. /\ status' \in [Nodes -> Statuses]
            /\ \A k \in Nodes : status'[k] = status[k] \/ (HasRow(k) /\ Standing(k)
                                   /\ status'[k] \in {"active", "unhealthy"})
        BY <1>0, <2>1, <3>3, <3>4 DEF CanTransitionTo, HasRow, Standing, Status, Statuses
      <3>6. CycleBecomes(c, f.pc, f.todo \ {n}, chosen)
        BY <1>0, <2>2, <3>2, <3>3, CycleFields DEF f
      <3> QED BY <1>0, <1>4, <2>0, <3>5, <3>6
    <2>4. CASE UNCHANGED status /\ cycle' = [cycle EXCEPT ![c].todo = f.todo \ {n}]
      <3>1. CycleBecomes(c, f.pc, f.todo \ {n}, f.chosen)
        BY <1>0, <2>2, <2>4, CycleFields
      <3> QED BY <1>0, <1>4, <2>0, <2>4, <3>1
    <2> QED BY <1>6, <2>3, <2>4 DEF CheckNode
  <1>7. CASE Decide(c)
    <2>0. UNCHANGED <<status, requests>>
      BY <1>7 DEF Decide, tables
    <2> DEFINE sorted == SortByPriority(f.chosen)
               pc == IF f.chosen = <<>> THEN "ok" ELSE "publish"
    <2>1. cycle' = [cycle EXCEPT ![c].chosen = sorted, ![c].pc = pc]
      BY <1>7 DEF Decide
    <2>2. sorted \in Seq(Chosen) /\ Len(sorted) = Len(f.chosen)
      BY <1>0, SortTyped
    <2>3. pc \in {"idle", "check", "publish"} \cup Returned
      BY DEF Returned
    <2>4. pc = "publish" => sorted # <<>>
      <3>1. pc = "publish" => Len(f.chosen) # 0
        BY <1>0
      <3> HIDE DEF sorted, pc, f
      <3> QED BY <2>2, <3>1
    <2> HIDE DEF sorted, pc
    <2>5. CycleBecomes(c, pc, f.todo, sorted)
      BY <1>0, <2>1, <2>2, <2>3, CycleFields
    <2> QED BY <1>0, <1>4, <2>0, <2>4, <2>5
  <1>8. CASE createReplacementNode(c)
    <2> DEFINE rest == Tail(f.chosen)
               pc == IF rest = <<>> THEN "failed" ELSE "publish"
    <2>0. f.pc = "publish" /\ UNCHANGED status
          /\ requests' = IF requests < MaxRequests THEN requests + 1 ELSE requests
      BY <1>8 DEF createReplacementNode, tables
    <2>1. cycle' = [cycle EXCEPT ![c].chosen = rest, ![c].pc = pc]
      BY <1>8 DEF createReplacementNode
    <2>2. rest \in Seq(Chosen)
      BY <1>0, <2>0 DEF CycleOK
    <2>3. pc \in {"idle", "check", "publish"} \cup Returned /\ (pc = "publish" => rest # <<>>)
      BY DEF Returned
    <2>4. requests' \in 0 .. MaxRequests
      BY <1>0, <2>0, RotationAssumption
    <2> HIDE DEF rest, pc
    <2>5. CycleBecomes(c, pc, f.todo, rest)
      BY <1>0, <2>1, <2>2, <2>3, CycleFields
    <2> QED BY <1>0, <1>4, <2>0, <2>3, <2>4, <2>5
  <1> QED BY <1>5, <1>6, <1>7, <1>8 DEF CycleStep
-----------------------------------------------------------------------------

\* The id of a new row is no other's.
LEMMA NewestNode ==
  ASSUME NEW new \in Nodes, new = 1 + Max({n \in Nodes : status[n] # "none"} \cup {0})
  PROVE  status[new] = "none"
  <1> DEFINE taken == {n \in Nodes : status[n] # "none"} \cup {0}
  <1>1. IsFiniteSet(taken)
    <2>1. IsFiniteSet({n \in Nodes : status[n] # "none"})
      BY CallsAssumption, FS_Subset
    <2> QED BY <2>1, FS_AddElement
  <1>2. taken \subseteq Nat /\ taken # {}
    <2>1. Nodes \subseteq Nat /\ 0 \in taken
      BY CallsAssumption
    <2>2. {n \in Nodes : status[n] # "none"} \subseteq Nat
      BY <2>1
    <2> QED BY <2>1, <2>2
  <1>3. Max(taken) \in taken /\ \A k \in taken : k <= Max(taken)
    <2> HIDE DEF taken
    <2> QED BY <1>1, <1>2, Greatest
  <1>4. Max(taken) \in Nat /\ new \notin taken
    <2>1. Max(taken) \in Nat
      BY <1>2, <1>3
    <2>2. ~ (1 + Max(taken) <= Max(taken)) /\ new = 1 + Max(taken)
      BY <2>1
    <2> HIDE DEF taken
    <2> QED BY <1>3, <2>1, <2>2
  <1> QED BY <1>4

\* A request that is served: the new node's subnet is apart from all others.
LEMMA ProvisionKeeps ==
  ASSUME Core, Provision
  PROVE  Core'
  <1> DEFINE s == FindNextAvailableSubnet(UsedCIDRs)
             taken == {n \in Nodes : status[n] # "none"} \cup {0}
             new == 1 + Max(taken)
  <1>0. /\ TypeOK /\ SubnetsOK /\ AddressesSound
        /\ status \in [Nodes -> Statuses]
        /\ subnets \in [Nodes -> Subnet \cup {NoSubnet}]
        /\ requests \in 0 .. MaxRequests /\ requests > 0
        /\ UNCHANGED <<scene, peers, clean, cycle, mig, disc, sync, wg, file, call, faults>>
        /\ requests' = requests - 1
        /\ \A c \in Cycles : CycleOK(c)
        /\ \A k \in Cleaners : CleanOK(k)
        /\ scene \cap Cleaners = {} => \A n \in Nodes : Standing(n)
    BY DEF Core, TypeOK, TablesInv, FramesOK, Provision, frames, calls, Statuses
  <1>2. requests' \in 0 .. MaxRequests
    BY <1>0, RotationAssumption
  <1>3. ASSUME status' \in [Nodes -> Statuses],
               subnets' \in [Nodes -> Subnet \cup {NoSubnet}],
               \A n \in Nodes : \/ status'[n] = status[n] /\ subnets'[n] = subnets[n]
                                \/ status[n] = "none" /\ status'[n] = "active",
               SubnetsOK', AddressesSound'
        PROVE  Core'
    <2>1. /\ wg' \in [Nodes -> Config] /\ file' \in [Nodes -> Config]
          /\ peers' \in [Peers -> PeerRow \cup {NoPeer}]
          /\ clean' \in [Cleaners -> Clean] /\ faults' \in 0 .. MaxFaults
          /\ cycle' \in [Cycles -> Cycle]
      BY <1>0 DEF TypeOK, CallsTypeOK
    <2>2. \A c \in Cycles : CycleOK(c)'
      BY <1>0 DEF CycleOK
    <2>3. \A k \in Cleaners : CleanOK(k)'
      BY <1>0 DEF CleanOK
    <2>4. scene \cap Cleaners = {} => \A n \in Nodes : Standing(n)'
      BY <1>0, <1>3 DEF Standing
    <2>5. \A n \in Nodes : /\ status'[n] = "none" => status[n] = "none"
                           /\ subnets'[n] \in {subnets[n], NoSubnet} \/ status[n] = "none"
      BY <1>3
    <2> QED BY <1>0, <1>2, <1>3, <2>1, <2>2, <2>3, <2>4, <2>5, NodesKeep
  <1>4. CASE UNCHANGED <<status, subnets>>
    BY <1>0, <1>3, <1>4 DEF SubnetsOK, AddressesSound, Present, HasRow
  <1>5. CASE /\ s # NoSubnet /\ new \in Nodes
             /\ status' = [status EXCEPT ![new] = "active"]
             /\ subnets' = [subnets EXCEPT ![new] = s]
    <2>1. Generated(s) /\ s.network \notin UsedCIDRs
      BY <1>5, NextSubnet
    <2>2. status[new] = "none"
      BY <1>5, NewestNode
    <2>3. subnets[new] = NoSubnet
      BY <1>0, <1>5, <2>2 DEF SubnetsOK, HasRow, Status
    <2>4. s \in Subnet /\ s # NoSubnet
      BY <2>1, SubnetShape
    <2> HIDE DEF new, s
    <2>5. /\ status' \in [Nodes -> Statuses]
          /\ subnets' \in [Nodes -> Subnet \cup {NoSubnet}]
          /\ subnets'[new] = s /\ status'[new] = "active"
          /\ \A n \in Nodes : n # new => /\ subnets'[n] = subnets[n]
                                         /\ status'[n] = status[n]
      BY <1>0, <1>5, <2>4 DEF Statuses, Status
    <2>6. \A n \in Nodes : subnets[n].network # s.network
      BY <2>1 DEF UsedCIDRs
    <2>7. SubnetsOK'
      <3>1. \A n \in Nodes : subnets'[n] = NoSubnet \/ Generated(subnets'[n])
        BY <1>0, <2>1, <2>5 DEF SubnetsOK
      <3>2. \A n \in Nodes : subnets'[n] # NoSubnet => HasRow(n)'
        BY <1>0, <2>5 DEF SubnetsOK, HasRow, Status
      <3>3. \A n \in Nodes : \A m \in Nodes \ {n} : subnets'[n] # NoSubnet =>
               subnets'[m].network # subnets'[n].network
        BY <1>0, <1>5, <2>5, <2>6 DEF SubnetsOK
      <3> QED BY <3>1, <3>2, <3>3 DEF SubnetsOK
    <2>8. AddressesSound'
      <3>1. \A p \in Peers : Present(p) => peers[p].node # new
        BY <1>0, <2>2 DEF AddressesSound, HasRow, Status
      <3>2. \A p \in Peers : Present(p) => peers[p].node \in Nodes
        BY <1>0 DEF TypeOK, Present, PeerRow
      <3>3. \A p \in Peers : Present(p) => /\ subnets'[peers[p].node] = subnets[peers[p].node]
                                           /\ status'[peers[p].node] = status[peers[p].node]
        BY <2>5, <3>1, <3>2
      <3> QED BY <1>0, <3>3 DEF AddressesSound, Present, HasRow
    <2> QED BY <1>3, <2>2, <2>5, <2>7, <2>8
  <1> QED BY <1>4, <1>5 DEF Provision

\* The steps of the clean-up.
CleanMove(k) == CleanupOrphanedNodes(k) \/ CleanStep(k)

\* A clean-up touches the nodes and what goes with them, nobody's frame.
LEMMA CleanTouches ==
  ASSUME TypeOK, NEW k \in Cleaners, CleanMove(k)
  PROVE  /\ UNCHANGED <<scene, requests, cycle, mig, disc, sync, call>>
         /\ faults' \in 0 .. MaxFaults
         /\ MarkDestroying(k) \/ DeleteNode(k) \/ UNCHANGED status
         /\ DeleteNode(k) \/ UNCHANGED <<peers, wg, file>>
         /\ DeleteNode(k) \/ ReleaseNodeSubnet(k) \/ UNCHANGED subnets
  <1> USE DEF CleanMove, CleanStep, CleanupOrphanedNodes, CountActiveByNode,
              OrphansCounted, MarkDestroying, DeleteNode, CleanupUnusedSubnets,
              ReleaseNodeSubnet, EndCleanup, tables, frames, calls
  <1>1. UNCHANGED <<scene, requests, cycle, mig, disc, sync, call>>
    OBVIOUS
  <1>2. MarkDestroying(k) \/ DeleteNode(k) \/ UNCHANGED status
    OBVIOUS
  <1>3. DeleteNode(k) \/ UNCHANGED <<peers, wg, file>>
    OBVIOUS
  <1>4. DeleteNode(k) \/ ReleaseNodeSubnet(k) \/ UNCHANGED subnets
    OBVIOUS
  <1>5. Sound \/ Fault("db")
    BY DEF Sound, Db
  <1>6. faults \in 0 .. MaxFaults
    BY DEF TypeOK, CallsTypeOK
  <1> QED BY <1>1, <1>2, <1>3, <1>4, <1>5, <1>6, FaultsCount

\* The frame of k after a step; no other clean-up's changes.
CleanBecomes(k, pc, todo) ==
  /\ clean' \in [Cleaners -> Clean]
  /\ \A b \in Cleaners : b # k => clean'[b] = clean[b]
  /\ clean'[k].pc = pc /\ clean'[k].todo = todo

\* Its clean-up is one of the behaviour's, and a node it marks, deletes or
\* robs of its subnet is one of its list.
LEMMA CleanInHand ==
  ASSUME Core, NEW k \in Cleaners, CleanMove(k)
  PROVE  /\ k \in scene
         /\ clean[k].todo # {} => /\ Max(clean[k].todo) \in clean[k].todo
                                  /\ Max(clean[k].todo) \in Nodes
         /\ MarkDestroying(k) \/ DeleteNode(k) \/ ReleaseNodeSubnet(k)
               => Max(clean[k].todo) \in Nodes
  <1> DEFINE f == clean[k]
  <1>0. f \in Clean /\ CleanOK(k) /\ f.todo \subseteq Nodes
    BY DEF Core, TypeOK, FramesOK, Clean
  <1>1. k \in scene
    BY <1>0 DEF CleanMove, CleanStep, CleanupOrphanedNodes, CountActiveByNode,
                OrphansCounted, MarkDestroying, DeleteNode, CleanupUnusedSubnets,
                ReleaseNodeSubnet, EndCleanup, CleanOK
  <1>2. f.todo # {} => Max(f.todo) \in f.todo /\ Max(f.todo) \in Nodes
    <2>1. IsFiniteSet(f.todo) /\ f.todo \subseteq Nat
      BY <1>0, CallsAssumption, FS_Subset
    <2> HIDE DEF f
    <2> QED BY <1>0, <2>1, Greatest
  <1>3. MarkDestroying(k) \/ DeleteNode(k) \/ ReleaseNodeSubnet(k) => f.todo # {}
    BY <1>0 DEF MarkDestroying, DeleteNode, ReleaseNodeSubnet, CleanOK
  <1> QED BY <1>1, <1>2, <1>3

\* What a step makes of its frame; only a node that was marked is in hand.
LEMMA CleanFrames ==
  ASSUME Core, NEW k \in Cleaners, CleanMove(k)
  PROVE  \E pc, todo : /\ CleanBecomes(k, pc, todo)
                       /\ pc = "delete" => todo # {}
  <1> DEFINE f == clean[k]
             n == Max(f.todo)
             Goal == \E pc, todo : CleanBecomes(k, pc, todo) /\ (pc = "delete" => todo # {})
  <1> SUFFICES Goal
    OBVIOUS
  <1>0. /\ clean \in [Cleaners -> Clean] /\ f \in Clean
        /\ f.todo \subseteq Nodes /\ f.orphans \subseteq Nodes /\ f.used \subseteq Nodes
    BY DEF Core, TypeOK, Clean
  <1>2. f.todo # {} => n \in f.todo /\ n \in Nodes
    BY CleanInHand
  <1>3. ASSUME NEW g \in Clean, clean' = [clean EXCEPT ![k] = g]
        PROVE  CleanBecomes(k, g.pc, g.todo)
    BY <1>0, <1>3 DEF CleanBecomes
  <1>5. ASSUME NEW g \in Clean, clean' = [clean EXCEPT ![k] = g], g.pc # "delete"
        PROVE  Goal
    BY <1>3, <1>5
  <1> HIDE DEF n
  <1>6. CASE CleanupOrphanedNodes(k)
    <2> DEFINE found == {x \in Nodes : status[x] = "active"}
    <2>1. CASE clean' = [clean EXCEPT ![k].pc = "count", ![k].todo = found]
      <3> DEFINE g == [f EXCEPT !.pc = "count", !.todo = found]
      <3>1. g \in Clean /\ g.pc # "delete" /\ clean' = [clean EXCEPT ![k] = g]
        BY <1>0, <2>1 DEF Clean
      <3> HIDE DEF g, Goal
      <3> QED BY <1>5, <3>1
    <2>2. CASE clean' = [clean EXCEPT ![k].pc = "destroy"]
      <3> DEFINE g == [f EXCEPT !.pc = "destroy"]
      <3>1. g \in Clean /\ g.pc # "delete" /\ clean' = [clean EXCEPT ![k] = g]
        BY <1>0, <2>2 DEF Clean
      <3> HIDE DEF g, Goal
      <3> QED BY <1>5, <3>1
    <2> HIDE DEF Goal
    <2> QED BY <1>6, <2>1, <2>2 DEF CleanupOrphanedNodes
  <1>7. CASE CountActiveByNode(k)
    <2>1. n \in Nodes /\ f.pc = "count"
      BY <1>2, <1>7 DEF CountActiveByNode
    <2>2. PICK orphans \in SUBSET {n}, used \in SUBSET {n} :
             clean' = [clean EXCEPT ![k].todo = f.todo \ {n},
                           ![k].orphans = f.orphans \cup orphans,
                           ![k].used = f.used \cup used]
      <3>1. {} \in SUBSET {n} /\ {n} \in SUBSET {n}
        OBVIOUS
      <3> HIDE DEF Goal
      <3> QED BY <1>7, <3>1 DEF CountActiveByNode, n
    <2> DEFINE g == [f EXCEPT !.todo = f.todo \ {n}, !.orphans = f.orphans \cup orphans,
                              !.used = f.used \cup used]
    <2>3. g \in Clean /\ g.pc # "delete" /\ clean' = [clean EXCEPT ![k] = g]
      BY <1>0, <2>1, <2>2 DEF Clean
    <2> HIDE DEF g, Goal
    <2> QED BY <1>5, <2>3
  <1>8. CASE OrphansCounted(k)
    <2> DEFINE todo == IF Cardinality(f.used) <= 1 THEN {} ELSE f.orphans
               g == [NewClean EXCEPT !.pc = "destroy", !.todo = todo]
    <2>1. clean' = [clean EXCEPT ![k] = g] /\ todo \in SUBSET Nodes
      BY <1>0, <1>8 DEF OrphansCounted
    <2> HIDE DEF todo
    <2>2. g \in Clean /\ g.pc # "delete"
      BY <2>1 DEF Clean, NewClean
    <2> HIDE DEF g, Goal
    <2> QED BY <1>5, <2>1, <2>2
  <1>9. CASE MarkDestroying(k)
    <2>0. f.pc = "destroy" /\ f.todo # {} /\ n \in Nodes
      BY <1>2, <1>9 DEF MarkDestroying
    <2>1. CASE /\ Sound /\ status' = [status EXCEPT ![n] = "destroying"]
               /\ clean' = [clean EXCEPT ![k].pc = "delete"]
      <3> DEFINE g == [f EXCEPT !.pc = "delete"]
      <3>1. /\ g \in Clean /\ clean' = [clean EXCEPT ![k] = g]
            /\ g.pc = "delete" /\ g.todo = f.todo
        BY <1>0, <2>1 DEF Clean
      <3> HIDE DEF g
      <3>2. CleanBecomes(k, g.pc, g.todo)
        BY <1>3, <3>1
      <3> QED BY <2>0, <3>1, <3>2
    <2>2. CASE clean' = [clean EXCEPT ![k].todo = f.todo \ {n}]
      <3> DEFINE g == [f EXCEPT !.todo = f.todo \ {n}]
      <3>1. g \in Clean /\ g.pc # "delete" /\ clean' = [clean EXCEPT ![k] = g]
        BY <1>0, <2>0, <2>2 DEF Clean
      <3> HIDE DEF g, Goal
      <3> QED BY <1>5, <3>1
    <2> HIDE DEF Goal
    <2> QED BY <1>9, <2>1, <2>2 DEF MarkDestroying, n
  <1>10. CASE DeleteNode(k)
    <2> DEFINE g == [f EXCEPT !.pc = "destroy", !.todo = f.todo \ {n}]
    <2>1. g \in Clean /\ g.pc # "delete" /\ clean' = [clean EXCEPT ![k] = g]
      BY <1>0, <1>10 DEF Clean, DeleteNode, n
    <2> HIDE DEF g, Goal
    <2> QED BY <1>5, <2>1
  <1>11. CASE CleanupUnusedSubnets(k)
    <2> DEFINE unused == {x \in Nodes : status[x] \in Status \ {"active", "provisioning"}}
    <2>1. CASE clean' = [clean EXCEPT ![k].pc = "release", ![k].todo = unused]
      <3> DEFINE g == [f EXCEPT !.pc = "release", !.todo = unused]
      <3>1. g \in Clean /\ g.pc # "delete" /\ clean' = [clean EXCEPT ![k] = g]
        BY <1>0, <2>1 DEF Clean
      <3> HIDE DEF g, Goal
      <3> QED BY <1>5, <3>1
    <2>2. CASE clean' = [clean EXCEPT ![k].pc = "done"]
      <3> DEFINE g == [f EXCEPT !.pc = "done"]
      <3>1. g \in Clean /\ g.pc # "delete" /\ clean' = [clean EXCEPT ![k] = g]
        BY <1>0, <2>2 DEF Clean
      <3> HIDE DEF g, Goal
      <3> QED BY <1>5, <3>1
    <2> HIDE DEF Goal
    <2> QED BY <1>11, <2>1, <2>2 DEF CleanupUnusedSubnets
  <1>12. CASE ReleaseNodeSubnet(k)
    <2> DEFINE g == [f EXCEPT !.todo = f.todo \ {n}]
    <2>1. g \in Clean /\ g.pc # "delete" /\ clean' = [clean EXCEPT ![k] = g]
      BY <1>0, <1>12 DEF Clean, ReleaseNodeSubnet, n
    <2> HIDE DEF g, Goal
    <2> QED BY <1>5, <2>1
  <1>13. CASE EndCleanup(k)
    <2> DEFINE g == [f EXCEPT !.pc = "done"]
    <2>1. g \in Clean /\ g.pc # "delete" /\ clean' = [clean EXCEPT ![k] = g]
      BY <1>0, <1>13 DEF Clean, EndCleanup
    <2> HIDE DEF g, Goal
    <2> QED BY <1>5, <2>1
  <1> HIDE DEF Goal
  <1> QED BY <1>6, <1>7, <1>8, <1>9, <1>10, <1>11, <1>12, <1>13 DEF CleanMove, CleanStep

\* A clean-up keeps the types, the frames and the tables: the rows of a
\* deleted node go with it, and a released subnet leaves its rows behind.
LEMMA CleanKeeps ==
  ASSUME Core, NEW k \in Cleaners, CleanMove(k)
  PROVE  Core'
  <1> DEFINE f == clean[k]
             n == Max(f.todo)
  <1>0. /\ TypeOK /\ SubnetsOK /\ AddressesSound
        /\ status \in [Nodes -> Statuses] /\ subnets \in [Nodes -> Subnet \cup {NoSubnet}]
        /\ peers \in [Peers -> PeerRow \cup {NoPeer}]
        /\ wg \in [Nodes -> Config] /\ file \in [Nodes -> Config]
        /\ requests \in 0 .. MaxRequests /\ cycle \in [Cycles -> Cycle]
        /\ \A c \in Cycles : CycleOK(c)
        /\ \A b \in Cleaners : CleanOK(b)
    BY DEF Core, TypeOK, CallsTypeOK, TablesInv, FramesOK, Statuses
  <1>1. /\ UNCHANGED <<scene, requests, cycle, mig, disc, sync, call>>
        /\ faults' \in 0 .. MaxFaults
        /\ MarkDestroying(k) \/ DeleteNode(k) \/ UNCHANGED status
        /\ DeleteNode(k) \/ UNCHANGED <<peers, wg, file>>
        /\ DeleteNode(k) \/ ReleaseNodeSubnet(k) \/ UNCHANGED subnets
    BY <1>0, CleanTouches
  <1>2. k \in scene /\ (MarkDestroying(k) \/ DeleteNode(k) \/ ReleaseNodeSubnet(k)
                            => n \in Nodes)
    BY CleanInHand
  <1>3. clean' \in [Cleaners -> Clean] /\ \A b \in Cleaners : CleanOK(b)'
    <2>1. PICK pc, todo : CleanBecomes(k, pc, todo) /\ (pc = "delete" => todo # {})
      BY CleanFrames
    <2> QED BY <1>0, <1>1, <1>2, <2>1 DEF CleanBecomes, CleanOK
  <1> HIDE DEF n
  <1>4. /\ wg' \in [Nodes -> Config] /\ file' \in [Nodes -> Config]
        /\ peers' \in [Peers -> PeerRow \cup {NoPeer}]
        /\ \A p \in Peers : Present(p)' => Present(p) /\ peers'[p] = peers[p]
    <2>1. CASE DeleteNode(k)
      <3>1. Nobody \in Config
        BY DEF Nobody, Config
      <3>2. /\ wg' \in [Nodes -> Config] /\ file' \in [Nodes -> Config]
        BY <1>0, <2>1, <3>1 DEF DeleteNode
      <3>3. \/ UNCHANGED peers
            \/ peers' = [p \in Peers |-> IF peers[p].node = n THEN NoPeer ELSE peers[p]]
        BY <2>1 DEF DeleteNode, tables, n
      <3> QED BY <1>0, <3>2, <3>3 DEF Present
    <2>2. CASE UNCHANGED <<peers, wg, file>>
      BY <1>0, <2>2 DEF Present
    <2> QED BY <1>1, <2>1, <2>2
  <1>5. /\ status' \in [Nodes -> Statuses]
        /\ \A x \in Nodes : status'[x] = "none" => status[x] = "none"
        /\ \A x \in Nodes : HasRow(x) => \/ HasRow(x)'
                                         \/ /\ DeleteNode(k) /\ x = n /\ subnets'[x] = NoSubnet
                                            /\ \A p \in Peers : Present(p)' => peers'[p].node # x
    <2>1. CASE UNCHANGED status
      BY <1>0, <2>1 DEF HasRow
    <2>2. CASE MarkDestroying(k)
      <3>1. UNCHANGED status \/ status' = [status EXCEPT ![n] = "destroying"]
        BY <2>2 DEF MarkDestroying, n
      <3> QED BY <1>0, <1>2, <2>2, <3>1 DEF HasRow, Status, Statuses
    <2>3. CASE DeleteNode(k) /\ ~UNCHANGED status
      <3>1. /\ status' = [status EXCEPT ![n] = "deleted"]
            /\ subnets' = [subnets EXCEPT ![n] = NoSubnet]
            /\ peers' = [p \in Peers |-> IF peers[p].node = n THEN NoPeer ELSE peers[p]]
        BY <2>3 DEF DeleteNode, tables, n
      <3>2. \A p \in Peers : Present(p)' => peers'[p].node # n
        BY <3>1 DEF Present
      <3>3. subnets'[n] = NoSubnet
        BY <1>0, <1>2, <2>3, <3>1
      <3> QED BY <1>0, <1>2, <2>3, <3>1, <3>2, <3>3 DEF HasRow, Status, Statuses
    <2> QED BY <1>1, <2>1, <2>2, <2>3
  <1>6. /\ subnets' \in [Nodes -> Subnet \cup {NoSubnet}]
        /\ \A x \in Nodes : subnets'[x] \in {subnets[x], NoSubnet}
    <2>1. CASE DeleteNode(k) \/ ReleaseNodeSubnet(k)
      <3>1. UNCHANGED subnets \/ subnets' = [subnets EXCEPT ![n] = NoSubnet]
        BY <2>1 DEF DeleteNode, ReleaseNodeSubnet, tables, n
      <3> QED BY <1>0, <3>1
    <2>2. CASE UNCHANGED subnets
      BY <1>0, <2>2
    <2> QED BY <1>1, <2>1, <2>2
  <1>7. SubnetsOK'
    <2>1. \A x \in Nodes : subnets'[x] # NoSubnet => HasRow(x)'
      BY <1>0, <1>5, <1>6 DEF SubnetsOK
    <2> QED BY <1>0, <1>6, <2>1, SubnetsShrink
  <1>8. AddressesSound'
    <2>1. ASSUME NEW p \in Peers, Present(p)'
          PROVE  Present(p) /\ peers'[p] = peers[p] /\ HasRow(peers[p].node)'
      <3>1. Present(p) /\ peers'[p] = peers[p]
        BY <1>4, <2>1
      <3>2. peers[p].node \in Nodes /\ HasRow(peers[p].node)
        BY <1>0, <3>1 DEF AddressesSound, Present, PeerRow
      <3> QED BY <1>5, <2>1, <3>1, <3>2
    <2> QED BY <1>0, <1>6, <2>1, AddressesShrink
  <1>9. requests' \in 0 .. MaxRequests /\ cycle' \in [Cycles -> Cycle]
        /\ \A c \in Cycles : CycleOK(c)'
    BY <1>0, <1>1 DEF CycleOK
  <1> QED BY <1>1, <1>2, <1>3, <1>4, <1>5, <1>6, <1>7, <1>8, <1>9, NodesKeep
-----------------------------------------------------------------------------

(***************************************************************************)
(* The tables: theorems.                                                   *)
(***************************************************************************)

\* What Init may start from is as the invariant says.
LEMMA InitCore ==
  ASSUME Init
  PROVE  Core
  <1> DEFINE N(n) == Network(n - 1)
  <1>0. /\ scene \in Scenes
        /\ status = [n \in Nodes |-> IF n \in Active THEN "active" ELSE "none"]
        /\ subnets = [n \in Nodes |-> IF n \in Active
                      THEN NewSubnet(GenerateSubnetCIDR(n - 1)) ELSE NoSubnet]
        /\ peers = [p \in Peers |-> [node |-> Home[p], status |-> "active",
                                     ip |-> subnets[Home[p]].start + Offset[p]]]
        /\ requests = 0 /\ faults = 0 /\ clean = [k \in Cleaners |-> NewClean]
        /\ cycle = [c \in Cycles |-> NewCycle]
        /\ mig = [m \in Migrations |-> NewMig]
        /\ disc = [d \in Disconnects |-> NewDisc]
        /\ sync = [s \in Syncs |-> NewSync]
        /\ call = [c \in Callers |-> NoCall]
        /\ file = wg
    BY DEF Init
  <1>1. \A n \in Active : n \in Nodes /\ n - 1 \in Indices
    BY RotationAssumption, PowersAssumption DEF Indices
  <1>2. \A n \in Active : subnets[n] = NewSubnet(N(n)) /\ Generated(subnets[n])
    <2> TAKE n \in Active
    <2>1. subnets[n] = NewSubnet(GenerateSubnetCIDR(n - 1))
      BY <1>0, <1>1
    <2>2. GenerateSubnetCIDR(n - 1) = N(n)
      BY <1>1, NetworkFits
    <2> QED BY <1>1, <2>1, <2>2 DEF Generated
  <1>3. \A n \in Nodes : n \notin Active => subnets[n] = NoSubnet
    BY <1>0
  <1>4. \A n \in Active : /\ subnets[n] # NoSubnet /\ subnets[n] \in Subnet
                          /\ ValidateSubnetAllocation(subnets[n])
                          /\ subnets[n].network = N(n) /\ N(n) \in Nat
                          /\ subnets[n].start = N(n) + 2
                          /\ subnets[n].end = N(n) + SubnetSize - 2
                          /\ subnets[n].start .. subnets[n].end \subseteq Addresses
    <2> TAKE n \in Active
    <2>1. subnets[n] = NewSubnet(N(n))
      BY <1>2
    <2>2. NewSubnet(N(n)).network = N(n)
      BY DEF NewSubnet
    <2> QED BY <1>2, <2>1, <2>2, SubnetShape
  <1>5. \A n, k \in Active : n # k => \/ N(n) + SubnetSize <= N(k)
                                      \/ N(k) + SubnetSize <= N(n)
    <2> TAKE n, k \in Active
    <2> HAVE n # k
    <2>0. n \in Nat /\ k \in Nat
      BY <1>1, CallsAssumption
    <2>1. n - 1 # k - 1
      BY <2>0
    <2> QED BY <1>1, <2>1, NetworksApart
  <1>6. SubnetsOK
    <2>1. \A n \in Nodes : subnets[n] = NoSubnet \/ Generated(subnets[n])
      BY <1>2, <1>3
    <2>2. \A n \in Nodes : subnets[n] # NoSubnet => HasRow(n)
      BY <1>0, <1>3 DEF HasRow, Status
    <2>3. ASSUME NEW n \in Nodes, NEW k \in Nodes \ {n}, subnets[n] # NoSubnet
          PROVE  subnets[k].network # subnets[n].network
      <3>1. n \in Active /\ subnets[n].network = N(n) /\ N(n) \in Nat
        BY <1>3, <1>4, <2>3
      <3>2. CASE k \in Active
        <4>1. subnets[k].network = N(k) /\ N(k) \in Nat
          BY <1>4, <3>2
        <4>2. N(n) # N(k)
          BY <1>5, <3>1, <3>2, <4>1, PowersAssumption
        <4> QED BY <3>1, <4>1, <4>2
      <3>3. CASE k \notin Active
        <4>1. subnets[k].network = -1
          BY <1>3, <3>3 DEF NoSubnet
        <4> QED BY <3>1, <4>1
      <3> QED BY <3>2, <3>3
    <2> QED BY <2>1, <2>2, <2>3 DEF SubnetsOK
  <1>7. \A p \in Peers : /\ Home[p] \in Active /\ Offset[p] \in 0 .. SubnetSize - 4
                         /\ peers[p].node = Home[p] /\ peers[p].status = "active"
                         /\ peers[p].ip = N(Home[p]) + 2 + Offset[p]
                         /\ peers[p].ip \in subnets[Home[p]].start .. subnets[Home[p]].end
                         /\ peers[p].ip \in Addresses
                         /\ peers[p] \in PeerRow
    <2> TAKE p \in Peers
    <2>1. Home[p] \in Active /\ Offset[p] \in 0 .. SubnetSize - 4
      BY RotationAssumption
    <2>2. /\ peers[p].node = Home[p] /\ peers[p].status = "active"
          /\ peers[p].ip = subnets[Home[p]].start + Offset[p]
          /\ peers[p] = [node |-> Home[p], status |-> "active",
                         ip |-> subnets[Home[p]].start + Offset[p]]
      BY <1>0
    <2>3. peers[p].ip = N(Home[p]) + 2 + Offset[p]
      BY <1>4, <2>1, <2>2
    <2>4. peers[p].ip \in subnets[Home[p]].start .. subnets[Home[p]].end
      BY <1>4, <2>1, <2>3, PowersAssumption
    <2>5. peers[p].ip \in Addresses
      BY <1>4, <2>1, <2>4
    <2>6. peers[p] \in PeerRow
      BY <1>1, <2>1, <2>2, <2>5 DEF PeerRow
    <2> QED BY <2>1, <2>2, <2>3, <2>4, <2>5, <2>6
  <1>8. AddressesSound
    <2> SUFFICES ASSUME NEW p \in Peers
                 PROVE  /\ HasRow(peers[p].node)
                        /\ peers[p].ip \in subnets[peers[p].node].start
                                           .. subnets[peers[p].node].end
                        /\ \A q \in Peers : peers[q].ip = peers[p].ip => q = p
      BY DEF AddressesSound
    <2>1. \A q \in Peers : peers[q].ip = peers[p].ip => q = p
      <3> SUFFICES ASSUME NEW q \in Peers, q # p PROVE peers[q].ip # peers[p].ip
        OBVIOUS
      <3>1. /\ N(Home[p]) \in Nat /\ N(Home[q]) \in Nat
            /\ Offset[p] \in 0 .. SubnetSize - 4 /\ Offset[q] \in 0 .. SubnetSize - 4
            /\ SubnetSize \in Nat
            /\ peers[p].ip = N(Home[p]) + 2 + Offset[p]
            /\ peers[q].ip = N(Home[q]) + 2 + Offset[q]
        BY <1>4, <1>7, PowersAssumption
      <3>2. CASE Home[p] = Home[q]
        <4>1. Offset[p] # Offset[q]
          BY <3>2, RotationAssumption
        <4> HIDE DEF N
        <4> QED BY <3>1, <3>2, <4>1
      <3>3. CASE Home[p] # Home[q]
        <4>1. \/ N(Home[p]) + SubnetSize <= N(Home[q])
              \/ N(Home[q]) + SubnetSize <= N(Home[p])
          BY <1>5, <1>7, <3>3
        <4> HIDE DEF N
        <4> QED BY <3>1, <4>1
      <3> QED BY <3>2, <3>3
    <2>2. HasRow(peers[p].node)
      BY <1>0, <1>1, <1>7 DEF HasRow, Status
    <2> QED BY <1>4, <1>7, <2>1, <2>2
  <1>9. wg \in [Nodes -> Config]
    <2>1. PICK w \in IF scene \cap Syncs = {} THEN {Rows(SyncNode)} ELSE Drifted :
             wg = [n \in Nodes |-> IF n = SyncNode THEN w ELSE Rows(n)]
      BY DEF Init
    <2>2. peers \in [Peers -> PeerRow \cup {NoPeer}]
      BY <1>0, <1>7
    <2>3. \A n \in Nodes : Rows(n) \in Config
      BY <2>2, RowsTyped
    <2>4. w \in Config
      <3>1. CASE w = Rows(SyncNode)
        BY <2>3, <3>1, RotationAssumption
      <3>2. CASE w \in Drifted
        <4>1. PICK v \in [Strays -> {peers[q].ip : q \in Strays} \cup {Absent}] :
                 w = [p \in Peers |-> IF p \in Strays THEN v[p] ELSE Absent]
          BY <3>2 DEF Drifted
        <4>2. \A p \in Strays : v[p] \in Addresses \cup {Absent}
          BY <1>7, RotationAssumption
        <4> QED BY <4>1, <4>2 DEF Config
      <3> QED BY <2>1, <3>1, <3>2
    <2> QED BY <2>1, <2>3, <2>4
  <1>10. TypeOK
    <2>1. CallsTypeOK
      BY <1>0, <1>9, CallsAssumption, NoCallTyped DEF CallsTypeOK
    <2>2. status \in [Nodes -> Status \cup {"none", "deleted"}]
      BY <1>0 DEF Status
    <2>3. subnets \in [Nodes -> Subnet \cup {NoSubnet}]
      <3>1. \A n \in Nodes : subnets[n] \in Subnet \cup {NoSubnet}
        BY <1>3, <1>4
      <3>2. subnets = [n \in Nodes |-> subnets[n]]
        BY <1>0
      <3> QED BY <3>1, <3>2
    <2>4. \A n \in Nodes : subnets[n] = NoSubnet \/ ValidateSubnetAllocation(subnets[n])
      BY <1>3, <1>4
    <2>5. peers \in [Peers -> PeerRow \cup {NoPeer}]
      BY <1>0, <1>7
    <2>6. requests \in 0 .. MaxRequests /\ clean \in [Cleaners -> Clean]
      <3>1. NewClean \in Clean
        BY DEF NewClean, Clean
      <3> QED BY <1>0, <3>1, RotationAssumption
    <2>7. cycle \in [Cycles -> Cycle]
      <3>1. NewCycle \in Cycle
        BY DEF NewCycle, Cycle
      <3> QED BY <1>0, <3>1
    <2>8. mig \in [Migrations -> Mig]
      <3>1. NewMig \in Mig
        BY DEF NewMig, Mig
      <3> QED BY <1>0, <3>1
    <2>9. disc \in [Disconnects -> Disc]
      <3>1. NewDisc \in Disc
        BY DEF NewDisc, Disc
      <3> QED BY <1>0, <3>1
    <2>10. sync \in [Syncs -> Sync]
      <3>1. Nobody \in Config
        BY DEF Nobody, Config
      <3>2. NewSync \in Sync
        BY <3>1 DEF NewSync, Sync
      <3> QED BY <1>0, <3>2
    <2> QED BY <1>0, <2>1, <2>2, <2>3, <2>4, <2>5, <2>6, <2>7, <2>8, <2>9, <2>10 DEF TypeOK
  <1>11. FramesOK
    <2>0. Callers = Migrations \cup Disconnects \cup Syncs
      BY ScenesAssumption
    <2>1. \A c \in Callers : CallOK(c)
      BY <1>0 DEF CallOK, NoCall
    <2>2. \A m \in Migrations : MigOK(m)
      BY <1>0, <2>0 DEF MigOK, NewMig, InHand
    <2>3. \A d \in Disconnects : DiscOK(d)
      BY <1>0, <2>0 DEF DiscOK, NewDisc
    <2>4. \A s \in Syncs : SyncOK(s)
      BY <1>0, <2>0 DEF SyncOK, NewSync
    <2>5. \A c \in Cycles : CycleOK(c)
      BY <1>0 DEF CycleOK, NewCycle
    <2>6. /\ \A k \in Cleaners : CleanOK(k)
          /\ \A n \in Nodes : Standing(n)
      BY <1>0 DEF CleanOK, NewClean, Standing
    <2> QED BY <2>1, <2>2, <2>3, <2>4, <2>5, <2>6 DEF FramesOK
  <1>12. \A m \in Migrations : RangeOK(m)
    BY <1>0 DEF RangeOK, NewMig
  <1> QED BY <1>6, <1>8, <1>10, <1>11, <1>12 DEF Core, TablesInv

\* A step of whoever keeps the rows, the frames and the tables.
LEMMA NextCore ==
  ASSUME Core, [Next]_vars
  PROVE  Core'
  <1>1. CASE UNCHANGED vars
    <2>1. UNCHANGED <<scene, status, subnets, peers, requests, clean, cycle, mig,
                      disc, sync, wg, file, call, faults>>
      BY <1>1 DEF vars, tables, frames, calls
    <2>2. TypeOK' = TypeOK /\ FramesOK' = FramesOK /\ TablesInv' = TablesInv
      BY <2>1 DEF TypeOK, CallsTypeOK, FramesOK, CallOK, MigOK, DiscOK, SyncOK, CycleOK,
                  CleanOK, Standing, TablesInv, SubnetsOK, AddressesSound, RangeOK, Present,
                  HasRow
    <2> QED BY <2>2 DEF Core
  <1>2. CASE Next
    <2>1. ASSUME NEW c \in Cycles, ListActiveNodes(c) \/ CycleStep(c) PROVE Core'
      BY <2>1, CycleKeeps
    <2>2. CASE Provision
      BY <2>2, ProvisionKeeps
    <2>3. ASSUME NEW k \in Cleaners, CleanupOrphanedNodes(k) \/ CleanStep(k) PROVE Core'
      BY <2>3, CleanKeeps DEF CleanMove
    <2>4. ASSUME NEW m \in Migrations, MigratePeersFromNode(m) \/ MigrationStep(m) PROVE Core'
      BY <2>4, MigrationKeeps DEF MigrationMove
    <2>5. ASSUME NEW d \in Disconnects,
                 (\E p \in Peers : DisconnectPeer(d, p)) \/ DisconnectStep(d)
          PROVE  Core'
      BY <2>5, DisconnectKeeps DEF DisconnectMove
    <2>6. ASSUME NEW s \in Syncs, SyncPeers(s) \/ SyncStep(s) \/ RestartWireGuard(s)
          PROVE  Core'
      BY <2>6, SyncKeeps DEF SyncMove
    <2>7. ASSUME NEW c \in Callers, RemoteStep(c) PROVE Core'
      BY <2>7, RemoteSteps, CommandKeeps, UnansweredKeeps
    <2> QED BY <1>2, <2>1, <2>2, <2>3, <2>4, <2>5, <2>6, <2>7 DEF Next
  <1> QED BY <1>1, <1>2

\* The types, the stack frames and the tables are right in every reachable
\* state, whatever fails and overlaps.
THEOREM CoreHolds == Spec => []Core
  <1>1. Init => Core
    BY InitCore
  <1>2. Core /\ [Next]_vars => Core'
    BY NextCore
  <1> QED BY <1>1, <1>2, PTL DEF Spec

\* The rows, interfaces, files and stack frames are made of the values the
\* code keeps, in every reachable state (TypeOK).
THEOREM TypeCorrect == Spec => []TypeOK
  <1>1. Core => TypeOK
    BY DEF Core
  <1> QED BY <1>1, CoreHolds, PTL
-----------------------------------------------------------------------------

\* Rows of a node are those of peers that are there, with its addresses.
LEMMA AllocatedInRange ==
  ASSUME Core, NEW n \in Nodes, subnets[n] # NoSubnet
  PROVE  AllocatedIPs(n) \subseteq subnets[n].start .. subnets[n].end
  <1>1. \A p \in Peers : peers[p].node = n => Present(p)
    <2>1. NoPeer.node = NoNode /\ n # NoNode
      BY CallsAssumption DEF NoPeer, NoNode
    <2> QED BY <2>1 DEF Present
  <1>2. \A p \in Peers : peers[p].node = n =>
           peers[p].ip \in subnets[n].start .. subnets[n].end
    BY <1>1 DEF Core, TablesInv, AddressesSound
  <1> QED BY <1>2 DEF AllocatedIPs

\* What the tables' invariant means for the address space.
LEMMA CoreAddressSpace ==
  ASSUME Core
  PROVE  AddressSpaceSound
  <1>0. SubnetsOK /\ AddressesSound
    BY DEF Core, TablesInv
  <1>1. SubnetsDisjoint
    <2> SUFFICES ASSUME NEW n \in Nodes, subnets[n] # NoSubnet
                 PROVE  /\ subnets[n].gateway \notin subnets[n].start .. subnets[n].end
                        /\ \A m \in Nodes \ {n} : subnets[m] # NoSubnet =>
                              (subnets[n].network .. Broadcast(subnets[n].network))
                              \cap (subnets[m].network .. Broadcast(subnets[m].network)) = {}
      BY DEF SubnetsDisjoint
    <2>1. \A k \in Nodes : subnets[k] # NoSubnet => Generated(subnets[k])
      BY <1>0 DEF SubnetsOK
    <2>2. subnets[n].gateway \notin subnets[n].start .. subnets[n].end
      BY <2>1, SubnetShape
    <2>3. ASSUME NEW m \in Nodes \ {n}, subnets[m] # NoSubnet
          PROVE  (subnets[n].network .. Broadcast(subnets[n].network))
                 \cap (subnets[m].network .. Broadcast(subnets[m].network)) = {}
      <3>1. PICK i \in Indices : subnets[n] = NewSubnet(Network(i))
        BY <2>1 DEF Generated
      <3>2. PICK j \in Indices : subnets[m] = NewSubnet(Network(j))
        BY <2>1, <2>3 DEF Generated
      <3>3. subnets[n].network = Network(i) /\ subnets[m].network = Network(j)
        BY <3>1, <3>2 DEF NewSubnet
      <3>4. subnets[m].network # subnets[n].network
        BY <1>0, <2>3 DEF SubnetsOK
      <3>5. i # j
        BY <3>3, <3>4
      <3>6. \/ Network(i) + SubnetSize <= Network(j)
            \/ Network(j) + SubnetSize <= Network(i)
        BY <3>5, NetworksApart
      <3>7. Network(i) \in Nat /\ Network(j) \in Nat /\ SubnetSize \in Nat
        BY NetworkFits, PowersAssumption
      <3> QED BY <3>3, <3>6, <3>7 DEF Broadcast
    <2> QED BY <2>2, <2>3
  <1>2. AllocationExact
    <2> SUFFICES ASSUME NEW n \in Nodes, subnets[n] # NoSubnet
                 PROVE  LET free == (subnets[n].start .. subnets[n].end) \ AllocatedIPs(n)
                            i == FindNextAvailableIP(subnets[n], AllocatedIPs(n))
                        IN  /\ AvailableIPs(Cardinality(AllocatedIPs(n))) = Cardinality(free)
                            /\ IF free = {} THEN i = NoAddress
                               ELSE i \in free /\ \A j \in free : i <= j
      BY DEF AllocationExact
    <2>1. Generated(subnets[n])
      BY <1>0 DEF SubnetsOK
    <2> QED BY <2>1, AllocatedInRange, NextAddress, FreeAddresses
  <1> QED BY <1>0, <1>1, <1>2 DEF AddressSpaceSound

\* Whatever nodes are created, destroyed or robbed of their subnets, and
\* whatever migrations overlap: subnets share no address, a row's address is
\* its own and a client address of the node it names as long as that node has
\* a subnet, and the allocator misses none (ip/config.go, ip/allocation.go,
\* ip/service.go, services/resource_cleanup_service.go).
THEOREM AddressSpaceIsSound == Spec => []AddressSpaceSound
  <1>1. Core => AddressSpaceSound
    BY CoreAddressSpace
  <1> QED BY <1>1, CoreHolds, PTL
-----------------------------------------------------------------------------

(***************************************************************************)
(* What a command does to an interface and its file.                       *)
(***************************************************************************)

\* Entries after "wg set" with and without "remove".
HasSet(f) ==
  \A q \in Peers : wg'[f.node][q] = IF q = f.peer THEN f.ip
                                    ELSE IF wg[f.node][q] = f.ip THEN NoIP
                                    ELSE wg[f.node][q]
HasUnset(f) ==
  \A q \in Peers : wg'[f.node][q] = IF q = f.peer THEN Absent ELSE wg[f.node][q]

\* Only "wg set" changes an interface, and only that of the call's node.
LEMMA CommandEffects ==
  ASSUME CallsTypeOK, NEW c \in Callers, CallOK(c), CallStep(c)
  PROVE  LET f == call[c]
             g == call'[c]
         IN  /\ \A n \in Nodes : n # f.node => wg'[n] = wg[n]
             /\ f.pc \notin {"set", "unset"} => wg' = wg
             /\ f.pc = "set" => \/ wg' = wg /\ g.pc = "failed"
                                \/ HasSet(f)
             /\ f.pc = "unset" => \/ wg' = wg /\ g.pc \in {"failed", "list"}
                                  \/ HasUnset(f)
             /\ f.pc = "look" /\ g.pc # "unset" => wg[f.node][f.peer] = Absent
  <1> DEFINE f == call[c]
             g == call'[c]
  <1>0. /\ Follows(f, g) /\ f \in Frame /\ call \in [Callers -> Frame]
        /\ wg \in [Nodes -> Config]
    BY CommandFollows DEF CallsTypeOK
  <1>1. f.node \in Nodes /\ f.peer \in Peers /\ wg[f.node] \in [Peers -> Addresses \cup {Absent, NoIP}]
    BY <1>0 DEF CallOK, Follows, Config
  <1>2. Set(f.node, f.peer, f.ip) => /\ HasSet(f)
                                     /\ \A n \in Nodes : n # f.node => wg'[n] = wg[n]
    BY <1>0, <1>1 DEF Set, HasSet
  <1>3. Unset(f.node, f.peer) => /\ HasUnset(f)
                                 /\ \A n \in Nodes : n # f.node => wg'[n] = wg[n]
    BY <1>0, <1>1 DEF Unset, HasUnset
  <1>4. \A pc : Goto(c, pc) => g.pc = pc
    BY <1>0 DEF Goto, Frame
  <1>5. Return(c) => g.pc = f.after
    BY <1>0 DEF Return, Frame
  <1>6. RemovalFailed(c) => g.pc \in {"failed", "list"}
    BY <1>4, <1>5 DEF RemovalFailed
  <1>7. CASE ListForAdd(c)
    BY <1>7 DEF ListForAdd
  <1>8. CASE SetPeer(c)
    <2>1. f.pc = "set"
      BY <1>8 DEF SetPeer
    <2>2. \/ wg' = wg /\ g.pc = "failed"
          \/ Set(f.node, f.peer, f.ip)
      BY <1>4, <1>8 DEF SetPeer
    <2> QED BY <1>2, <2>1, <2>2
  <1>9. CASE Verify(c)
    BY <1>9 DEF Verify
  <1>10. CASE LookForPeer(c)
    <2>1. f.pc = "look" /\ wg' = wg
      BY <1>10 DEF LookForPeer
    <2>2. wg[f.node][f.peer] = Absent \/ g.pc = "unset"
      BY <1>4, <1>10 DEF LookForPeer
    <2> QED BY <2>1, <2>2
  <1>11. CASE UnsetPeer(c)
    <2>1. f.pc = "unset"
      BY <1>11 DEF UnsetPeer
    <2>2. \/ wg' = wg /\ g.pc \in {"failed", "list"}
          \/ Unset(f.node, f.peer)
      BY <1>6, <1>11 DEF UnsetPeer
    <2> QED BY <1>3, <2>1, <2>2
  <1>12. CASE SaveConfig(c)
    BY <1>12 DEF SaveConfig
  <1>13. CASE ShowConf(c)
    BY <1>13 DEF ShowConf
  <1>14. CASE WriteConf(c)
    BY <1>14 DEF WriteConf
  <1> QED BY <1>7, <1>8, <1>9, <1>10, <1>11, <1>12, <1>13, <1>14 DEF CallStep

\* The commands of a call in which nothing goes wrong.
Unharmed(f, g) ==
  \/ /\ f.pc = "list" /\ g.after = f.after /\ UNCHANGED <<wg, file>>
     /\ IF Conflict(f.node, f.peer, f.ip) THEN g.pc = "failed" ELSE g.pc = "set"
  \/ f.pc = "set" /\ g.pc = "verify" /\ g.after = f.after /\ HasSet(f) /\ UNCHANGED file
  \/ /\ f.pc = "verify" /\ wg[f.node][f.peer] # Absent
     /\ g.pc = "save" /\ g.after = f.after /\ UNCHANGED <<wg, file>>
  \/ /\ f.pc = "verify" /\ wg[f.node][f.peer] = Absent
     /\ g.pc = "look" /\ g.after = "failed" /\ UNCHANGED <<wg, file>>
  \/ /\ f.pc = "look" /\ wg[f.node][f.peer] = Absent
     /\ g.pc = f.after /\ g.after = "ok" /\ UNCHANGED <<wg, file>>
  \/ /\ f.pc = "look" /\ wg[f.node][f.peer] # Absent
     /\ g.pc = "unset" /\ g.after = f.after /\ UNCHANGED <<wg, file>>
  \/ f.pc = "unset" /\ g.pc = "save" /\ g.after = f.after /\ HasUnset(f) /\ UNCHANGED file
  \/ /\ f.pc = "save" /\ g.pc = f.after /\ g.after = "ok" /\ UNCHANGED wg
     /\ file'[f.node] = wg[f.node] /\ \A n \in Nodes : n # f.node => file'[n] = file[n]

\* A command that does not fail does one of these.
LEMMA CommandUnharmed ==
  ASSUME CallsTypeOK, NEW c \in Callers, CallOK(c), CallStep(c), faults' = 0,
         call[c].pc \notin {"show", "write"}
  PROVE  faults = 0 /\ Unharmed(call[c], call'[c])
  <1> DEFINE f == call[c]
             g == call'[c]
  <1>0. /\ Follows(f, g) /\ f \in Frame /\ call \in [Callers -> Frame]
        /\ wg \in [Nodes -> Config] /\ file \in [Nodes -> Config] /\ faults \in Nat
    BY CommandFollows, CallsAssumption DEF CallsTypeOK
  <1>1. f.node \in Nodes /\ f.peer \in Peers
    BY <1>0 DEF CallOK, Follows
  <1>2. \A k : ~ Fault(k)
    BY <1>0 DEF Fault
  <1>3. \A pc : Goto(c, pc) => g.pc = pc /\ g.after = f.after
    BY <1>0 DEF Goto, Frame
  <1>4. Return(c) => g.pc = f.after /\ g.after = "ok"
    BY <1>0 DEF Return, Frame
  <1>5. wg[f.node] \in [Peers -> Addresses \cup {Absent, NoIP}]
    BY <1>0, <1>1 DEF Config
  <1>6. Set(f.node, f.peer, f.ip) => HasSet(f)
    BY <1>0, <1>1, <1>5 DEF Set, HasSet
  <1>7. Unset(f.node, f.peer) => HasUnset(f)
    BY <1>0, <1>1, <1>5 DEF Unset, HasUnset
  <1>8. CASE ListForAdd(c)
    <2>1. f.pc = "list" /\ Sound /\ UNCHANGED <<wg, file>>
          /\ Goto(c, IF Conflict(f.node, f.peer, f.ip) THEN "failed" ELSE "set")
      BY <1>2, <1>8 DEF ListForAdd
    <2>2. g.after = f.after /\ g.pc = IF Conflict(f.node, f.peer, f.ip) THEN "failed" ELSE "set"
      BY <1>3, <2>1
    <2> QED BY <2>1, <2>2 DEF Sound, Unharmed
  <1>9. CASE SetPeer(c)
    BY <1>2, <1>3, <1>6, <1>9 DEF SetPeer, Sound, Unharmed
  <1>10. CASE Verify(c)
    <2>1. /\ f.pc = "verify" /\ Sound /\ UNCHANGED <<wg, file>>
          /\ \/ wg[f.node][f.peer] # Absent /\ Goto(c, "save")
             \/ /\ wg[f.node][f.peer] = Absent
                /\ call' = [call EXCEPT ![c].pc = "look", ![c].after = "failed"]
      BY <1>2, <1>10 DEF Verify
    <2>2. call' = [call EXCEPT ![c].pc = "look", ![c].after = "failed"]
             => g.pc = "look" /\ g.after = "failed"
      BY <1>0 DEF Frame
    <2> QED BY <1>3, <2>1, <2>2 DEF Sound, Unharmed
  <1>11. CASE LookForPeer(c)
    BY <1>2, <1>3, <1>4, <1>11 DEF LookForPeer, Sound, Unharmed
  <1>12. CASE UnsetPeer(c)
    BY <1>2, <1>3, <1>7, <1>12 DEF UnsetPeer, Sound, Unharmed
  <1>13. CASE SaveConfig(c)
    <2>1. /\ f.pc = "save" /\ Sound /\ UNCHANGED wg /\ Return(c)
          /\ file' = [file EXCEPT ![f.node] = wg[f.node]]
      BY <1>2, <1>13 DEF SaveConfig
    <2>2. /\ file'[f.node] = wg[f.node]
          /\ \A n \in Nodes : n # f.node => file'[n] = file[n]
      BY <1>0, <1>1, <2>1
    <2> QED BY <1>4, <2>1, <2>2 DEF Sound, Unharmed
  <1>14. ~ ShowConf(c) /\ ~ WriteConf(c)
    BY DEF ShowConf, WriteConf
  <1> QED BY <1>8, <1>9, <1>10, <1>11, <1>12, <1>13, <1>14 DEF CallStep
-----------------------------------------------------------------------------

(***************************************************************************)
(* The interface and its file.                                             *)
(***************************************************************************)

\* A step of c that is no command: a call begins, ends or waits.
Quiet(c) ==
  /\ \A b \in Callers : b # c => call'[b] = call[b]
  /\ \/ call'[c] = call[c]
     \/ /\ call[c].pc \in {"idle"} \cup Returned
        /\ call'[c].pc \in {"idle", "list", "look"}

\* Callers begin and end calls; only commands do more.
LEMMA MovesAreQuiet ==
  ASSUME Core, NEW c \in Callers,
         \/ c \in Migrations /\ MigrationMove(c)
         \/ c \in Disconnects /\ DisconnectMove(c)
         \/ c \in Syncs /\ SyncMove(c)
  PROVE  Quiet(c)
  <1>0. call \in [Callers -> Frame] /\ TypeOK /\ NoCall.pc = "idle"
    BY DEF Core, TypeOK, CallsTypeOK, NoCall
  <1>1. ASSUME NEW n, NEW p, NEW i,
               \/ AddPeer(c, n, p, i) \/ RemovePeer(c, n, p) \/ UpdatePeer(c, n, p, i)
        PROVE  call'[c].pc \in {"list", "look"} /\ \A b \in Callers : b # c => call'[b] = call[b]
    BY <1>0, <1>1 DEF AddPeer, RemovePeer, UpdatePeer, Calling, NoCall
  <1>2. NoneFor(c) => /\ call'[c].pc = "idle"
                      /\ \A b \in Callers : b # c => call'[b] = call[b]
    BY <1>0 DEF NoneFor
  <1>3. UNCHANGED call => Quiet(c)
    BY DEF Quiet
  <1>4. CASE c \in Migrations /\ MigrationMove(c)
    <2>0. MigOK(c)
      BY <1>4 DEF Core, FramesOK
    <2>1. \/ AddToTarget(c) \/ AddReturned(c) \/ RemoveFromSource(c)
          \/ RemoveReturned(c) \/ UNCHANGED call
      BY <1>0, <1>4, MigrationTouches
    <2>2. CASE AddReturned(c) \/ RemoveReturned(c)
      BY <1>2, <2>2 DEF AddReturned, RemoveReturned, Quiet
    <2>3. CASE AddToTarget(c) \/ RemoveFromSource(c)
      <3>1. call[c] = NoCall
        BY <2>0, <2>3 DEF AddToTarget, RemoveFromSource, MigOK
      <3>2. \/ UNCHANGED call
            \/ AddPeer(c, Route[c].target, mig[c].peer, mig[c].ip)
            \/ RemovePeer(c, Route[c].source, mig[c].peer)
        BY <2>3 DEF AddToTarget, RemoveFromSource
      <3> QED BY <1>0, <1>1, <1>3, <3>1, <3>2 DEF Quiet
    <2> QED BY <1>3, <2>1, <2>2, <2>3
  <1>5. CASE c \in Disconnects /\ DisconnectMove(c)
    <2>0. DiscOK(c)
      BY <1>5 DEF Core, FramesOK
    <2>1. RemoveFromNode(c) \/ RemovedFromNode(c) \/ UNCHANGED call
      BY <1>0, <1>5, DisconnectTouches
    <2>2. CASE RemovedFromNode(c)
      BY <1>2, <2>2 DEF RemovedFromNode, Quiet
    <2>3. CASE RemoveFromNode(c)
      <3>1. call[c] = NoCall
        BY <2>0, <2>3 DEF RemoveFromNode, DiscOK
      <3>2. UNCHANGED call \/ RemovePeer(c, disc[c].node, disc[c].peer)
        BY <2>3 DEF RemoveFromNode
      <3> QED BY <1>0, <1>1, <1>3, <3>1, <3>2 DEF Quiet
    <2> QED BY <1>3, <2>1, <2>2, <2>3
  <1>6. CASE c \in Syncs /\ SyncMove(c)
    <2>1. CASE SyncPeers(c) \/ EndSync(c) \/ RestartWireGuard(c)
      BY <1>3, <2>1 DEF SyncPeers, EndSync, RestartWireGuard, calls
    <2>2. CASE SyncReturned(c)
      BY <1>2, <2>2 DEF SyncReturned, Quiet
    <2>3. CASE SyncOne(c)
      <3>1. call[c] = NoCall
        BY <2>3 DEF SyncOne
      <3>2. \E p : \/ RemovePeer(c, SyncNode, p)
                   \/ UpdatePeer(c, SyncNode, p, sync[c].desired[p])
                   \/ AddPeer(c, SyncNode, p, sync[c].desired[p])
        BY <2>3 DEF SyncOne
      <3> QED BY <1>0, <1>1, <3>1, <3>2 DEF Quiet
    <2> QED BY <1>6, <2>1, <2>2, <2>3 DEF SyncMove, SyncStep
  <1> QED BY <1>4, <1>5, <1>6

\* Failures are never forgotten.
LEMMA FaultsStay ==
  ASSUME faults \in 0 .. MaxFaults, NEW k, Sound \/ Fault(k), faults' = 0
  PROVE  faults = 0
  BY CallsAssumption DEF Sound, Fault

\* A state without faults is reached from one without faults.
LEMMA StepFaults ==
  ASSUME Core, [Next]_vars, faults' = 0
  PROVE  faults = 0
  <1>0. faults \in 0 .. MaxFaults
    BY DEF Core, TypeOK, CallsTypeOK
  <1> SUFFICES Sound \/ Fault("db") \/ Fault("ssh") \/ Fault("lost")
    BY <1>0, FaultsStay
  <1>1. CASE UNCHANGED vars
    BY <1>1 DEF vars, calls, Sound
  <1>2. ASSUME NEW c \in Cycles, ListActiveNodes(c) \/ CycleStep(c)
        PROVE  Sound \/ Fault("db") \/ Fault("ssh")
    BY <1>2 DEF ListActiveNodes, CycleStep, CheckNode, Decide, createReplacementNode,
                calls, Sound, Db
  <1>3. CASE Provision
    BY <1>3 DEF Provision, calls, Sound
  <1>4. ASSUME NEW m \in Migrations, MigratePeersFromNode(m) \/ MigrationStep(m)
        PROVE  Sound \/ Fault("db")
    BY <1>4 DEF MigrationStep, MigratePeersFromNode,
              ValidateNodeCapacity, AllocateClientIP, CheckIPConflict, UpdateNode,
              AddToTarget, AddReturned, RemoveFromSource, RemoveReturned,
              EndMigration, calls, Sound, Db
  <1>5. ASSUME NEW d \in Disconnects,
               (\E p \in Peers : DisconnectPeer(d, p)) \/ DisconnectStep(d)
        PROVE  Sound \/ Fault("db")
    BY <1>5 DEF DisconnectStep, DisconnectPeer, RemoveFromNode,
                RemovedFromNode, MarkRemoving, DeletePeer, calls, Sound, Db
  <1>6. ASSUME NEW s \in Syncs, SyncPeers(s) \/ SyncStep(s) \/ RestartWireGuard(s)
        PROVE  Sound \/ Fault("ssh")
    <2>1. CASE SyncPeers(s)
      BY <2>1 DEF SyncPeers
    <2>2. CASE SyncOne(s) \/ SyncReturned(s) \/ EndSync(s)
      BY <2>2 DEF SyncOne, SyncReturned, EndSync, calls, Sound
    <2>3. CASE RestartWireGuard(s)
      BY <2>3 DEF RestartWireGuard
    <2> QED BY <1>6, <2>1, <2>2, <2>3 DEF SyncStep
  <1>7. ASSUME NEW c \in Callers, RemoteStep(c)
        PROVE  Sound \/ Fault("ssh") \/ Fault("lost")
    <2>1. Answered(c) => Sound \/ Fault("ssh") \/ Fault("lost")
      BY DEF Answered, CallStep, ListForAdd, SetPeer, Verify, LookForPeer, UnsetPeer,
             SaveConfig, ShowConf, WriteConf
    <2>2. Unanswered(c) => Sound
      BY DEF Unanswered, Unreachable, Sound
    <2> QED BY <1>7, <2>1, <2>2, RemoteSteps
  <1>8. ASSUME NEW k \in Cleaners, CleanupOrphanedNodes(k) \/ CleanStep(k)
        PROVE  Sound \/ Fault("db")
    BY <1>8 DEF CleanStep, CleanupOrphanedNodes, CountActiveByNode,
              OrphansCounted, MarkDestroying, DeleteNode, CleanupUnusedSubnets,
              ReleaseNodeSubnet, EndCleanup, calls, Sound, Db
  <1> QED BY <1>1, <1>2, <1>3, <1>4, <1>5, <1>6, <1>7, <1>8 DEF Next

\* What the steps of others leave of the nodes.
LEMMA CallersStatus ==
  ASSUME Core, \/ \E m \in Migrations : MigrationMove(m)
               \/ \E d \in Disconnects : DisconnectMove(d)
               \/ \E x \in Syncs : SyncMove(x)
               \/ \E c \in Callers : RemoteStep(c)
  PROVE  UNCHANGED <<scene, status, subnets>>
  <1>1. ASSUME NEW m \in Migrations, MigrationMove(m) PROVE UNCHANGED <<scene, status, subnets>>
    BY <1>1, MigrationTouches DEF Core
  <1>2. ASSUME NEW d \in Disconnects, DisconnectMove(d) PROVE UNCHANGED <<scene, status, subnets>>
    BY <1>2, DisconnectTouches DEF Core
  <1>3. ASSUME NEW x \in Syncs, SyncMove(x) PROVE UNCHANGED <<scene, status, subnets>>
    BY <1>3 DEF SyncMove, SyncStep, SyncPeers, SyncOne, SyncReturned, EndSync,
                RestartWireGuard, tables
  <1>4. ASSUME NEW c \in Callers, RemoteStep(c) PROVE UNCHANGED <<scene, status, subnets>>
    BY <1>4 DEF RemoteStep, tables
  <1> QED BY <1>1, <1>2, <1>3, <1>4

\* A node that is being destroyed, or is deleted, is never used again.
LEMMA FallenStays ==
  ASSUME Core, [Next]_vars, NEW n \in Nodes, Standing(n)'
  PROVE  Standing(n)
  <1>0. status \in [Nodes -> Statuses]
    BY DEF Core, TypeOK, Statuses
  <1>1. ASSUME UNCHANGED status PROVE Standing(n)
    BY <1>1 DEF Standing
  <1>2. CASE UNCHANGED vars
    BY <1>1, <1>2 DEF vars, tables
  <1>3. ASSUME NEW c \in Cycles, ListActiveNodes(c) \/ CycleStep(c)
        PROVE  Standing(n)
    <2>1. CASE CheckNode(c)
      <3> DEFINE k == Max(cycle[c].todo)
      <3>1. PICK new \in {"active", "unhealthy"} :
               \/ status' = IF CanTransitionTo(status[k], new)
                            THEN [status EXCEPT ![k] = new] ELSE status
               \/ UNCHANGED status
        BY <2>1 DEF CheckNode
      <3> HIDE DEF k
      <3> QED BY <1>0, <3>1 DEF Standing, CanTransitionTo
    <2>2. CASE ListActiveNodes(c) \/ Decide(c) \/ createReplacementNode(c)
      BY <1>1, <2>2 DEF ListActiveNodes, Decide, createReplacementNode, tables
    <2> QED BY <1>3, <2>1, <2>2 DEF CycleStep
  <1>4. CASE Provision
    <2> DEFINE new == 1 + Max({x \in Nodes : status[x] # "none"} \cup {0})
    <2>1. \/ new \in Nodes /\ status' = [status EXCEPT ![new] = "active"]
          \/ UNCHANGED status
      BY <1>4 DEF Provision
    <2>2. new \in Nodes => status[new] = "none"
      BY NewestNode
    <2> HIDE DEF new
    <2> QED BY <1>0, <2>1, <2>2 DEF Standing
  <1>5. ASSUME NEW k \in Cleaners, CleanMove(k) PROVE Standing(n)
    <2>1. \/ UNCHANGED status
          \/ \E x, v : v \in {"destroying", "deleted"} /\ status' = [status EXCEPT ![x] = v]
      <3>1. MarkDestroying(k) \/ DeleteNode(k) \/ UNCHANGED status
        BY <1>5, CleanTouches DEF Core
      <3>2. MarkDestroying(k) => \/ UNCHANGED status
                                 \/ \E x : status' = [status EXCEPT ![x] = "destroying"]
        BY DEF MarkDestroying
      <3>3. DeleteNode(k) => \/ UNCHANGED status
                             \/ \E x : status' = [status EXCEPT ![x] = "deleted"]
        BY DEF DeleteNode, tables
      <3> QED BY <3>1, <3>2, <3>3
    <2> QED BY <1>0, <2>1 DEF Standing
  <1>6. CASE \/ \E m \in Migrations : MigrationMove(m)
             \/ \E d \in Disconnects : DisconnectMove(d)
             \/ \E x \in Syncs : SyncMove(x)
             \/ \E c \in Callers : RemoteStep(c)
    BY <1>1, <1>6, CallersStatus
  <1> QED BY <1>2, <1>3, <1>4, <1>5, <1>6
          DEF Next, MigrationMove, DisconnectMove, SyncMove, CleanMove

\* A step that is no command leaves the file right.
LEMMA QuietFile ==
  ASSUME FileInv, NEW c \in Callers, Quiet(c), UNCHANGED <<status, wg, file>>,
         faults' = 0 => faults = 0
  PROVE  FileInv'
  <1> SUFFICES ASSUME faults' = 0
               PROVE  /\ \A b \in Callers : call'[b].pc \notin {"show", "write"}
                      /\ \A n \in Nodes : Standing(n)' =>
                           file'[n] = wg'[n] \/ \E b \in Callers : Pending(n, call[b])'
    BY DEF FileInv
  <1>0. /\ \A b \in Callers : call[b].pc \notin {"show", "write"}
        /\ \A n \in Nodes : Standing(n) =>
              file[n] = wg[n] \/ \E b \in Callers : Pending(n, call[b])
    BY DEF FileInv
  <1>1. \A b \in Callers : call'[b].pc \notin {"show", "write"}
    BY <1>0 DEF Quiet
  <1>2. \A n \in Nodes : \A b \in Callers : Pending(n, call[b]) => call'[b] = call[b]
    BY DEF Quiet, Pending, Returned
  <1>3. \A n \in Nodes : \A b \in Callers : Pending(n, call[b]) => Pending(n, call[b])'
    BY <1>2 DEF Pending
  <1>4. \A n \in Nodes : Standing(n)' => Standing(n)
    BY DEF Standing
  <1> QED BY <1>0, <1>1, <1>3, <1>4

\* A command leaves it right, or its call will.
LEMMA CommandFile ==
  ASSUME Core, FileInv, NEW c \in Callers, Answered(c), faults' = 0 => faults = 0
  PROVE  FileInv'
  <1> DEFINE f == call[c]
             g == call'[c]
  <1> SUFFICES ASSUME faults' = 0
               PROVE  /\ \A b \in Callers : call'[b].pc \notin {"show", "write"}
                      /\ \A n \in Nodes : Standing(n)' =>
                           file'[n] = wg'[n] \/ \E b \in Callers : Pending(n, call[b])'
    BY DEF FileInv
  <1>0. /\ CallsTypeOK /\ CallOK(c) /\ CallStep(c)
        /\ file \in [Nodes -> Config] /\ wg \in [Nodes -> Config]
    BY DEF Core, TypeOK, CallsTypeOK, FramesOK, Answered
  <1>1. /\ Follows(f, g) /\ f \in Frame
        /\ \A b \in Callers : b # c => call'[b] = call[b]
    BY <1>0, CommandFollows DEF CallsTypeOK
  <1>2. faults = 0
    OBVIOUS
  <1>3. /\ \A b \in Callers : call[b].pc \notin {"show", "write"}
        /\ \A n \in Nodes : Standing(n) =>
              file[n] = wg[n] \/ \E b \in Callers : Pending(n, call[b])
    BY <1>2 DEF FileInv
  <1>4. Unharmed(f, g)
    BY <1>0, <1>3, CommandUnharmed
  <1>5. /\ g.node = f.node /\ g.peer = f.peer /\ g.ip = f.ip
        /\ f.node \in Nodes /\ f.peer \in Peers
    BY <1>0, <1>1 DEF Follows, CallOK
  <1>6. /\ \A n \in Nodes : n # f.node => wg'[n] = wg[n] /\ file'[n] = file[n]
        /\ f.pc \notin {"set", "unset"} => wg' = wg
        /\ f.pc # "save" => file' = file
    <2>1. \A n \in Nodes : n # f.node => wg'[n] = wg[n]
      BY <1>0, CommandEffects
    <2>2. f.pc \notin {"set", "unset"} => wg' = wg
      BY <1>0, CommandEffects
    <2> QED BY <1>4, <2>1, <2>2 DEF Unharmed
  <1>7. \A b \in Callers : call'[b].pc \notin {"show", "write"}
    <2>1. g.pc \notin {"show", "write"}
      BY <1>1, <1>4 DEF Unharmed, Frame, Returned
    <2> QED BY <1>1, <1>3, <2>1
  <1>8. ASSUME NEW n \in Nodes, Standing(n)
        PROVE  file'[n] = wg'[n] \/ \E b \in Callers : Pending(n, call[b])'
    <2>1. CASE n # f.node
      <3>1. \A b \in Callers : Pending(n, call[b]) => b # c /\ Pending(n, call[b])'
        BY <1>1, <1>6, <2>1 DEF Pending
      <3> QED BY <1>3, <1>6, <1>8, <2>1, <3>1
    <2>2. CASE n = f.node /\ f.pc = "save"
      BY <1>4, <2>2 DEF Unharmed
    <2>3. CASE n = f.node /\ f.pc \in {"set", "unset"}
      <3>1. f.pc = "set" => f.ip \in Addresses
        BY <1>0 DEF CallOK
      <3>2. f.pc = "set" => wg'[n][f.peer] # Absent
        BY <1>4, <1>5, <2>3, <3>1 DEF Unharmed, HasSet, Addresses, Absent
      <3>3. Pending(n, call[c])'
        BY <1>4, <1>5, <2>3, <3>2 DEF Unharmed, Pending
      <3> QED BY <3>3
    <2>4. CASE n = f.node /\ f.pc \notin {"set", "unset", "save"}
      <3>1. ASSUME NEW b \in Callers, Pending(n, call[b])
            PROVE  Pending(n, call[b])'
        <4>1. CASE b # c
          BY <1>1, <1>6, <2>4, <3>1, <4>1 DEF Pending
        <4>2. CASE b = c
          BY <1>4, <1>5, <1>6, <2>4, <3>1, <4>2 DEF Pending, Unharmed
        <4> QED BY <4>1, <4>2
      <3> QED BY <1>3, <1>6, <1>8, <2>4, <3>1
    <2> QED BY <2>1, <2>2, <2>3, <2>4
  <1>9. \A n \in Nodes : Standing(n)' => Standing(n)
    BY DEF Answered, tables, Standing
  <1> QED BY <1>7, <1>8, <1>9

\* A command that is not answered is none of a node that stands.
LEMMA UnansweredFile ==
  ASSUME Core, FileInv, NEW c \in Callers, Unanswered(c)
  PROVE  FileInv'
  <1>1. /\ ~Standing(call[c].node) /\ \A b \in Callers \ {c} : call'[b] = call[b]
        /\ \E r \in Returned : call'[c] = [call[c] EXCEPT !.pc = r]
        /\ UNCHANGED <<status, wg, file, faults>>
    BY UnansweredEnds DEF Core, TypeOK, tables
  <1>2. call'[c].pc \notin {"show", "write"}
    <2>1. call[c] \in Frame
      BY DEF Core, TypeOK, CallsTypeOK
    <2> QED BY <1>1, <2>1 DEF Frame, Returned
  <1>3. ASSUME NEW n \in Nodes, Standing(n), NEW b \in Callers, Pending(n, call[b])
        PROVE  Pending(n, call[b])'
    BY <1>1, <1>3 DEF Pending
  <1>4. \A n \in Nodes : Standing(n)' => Standing(n)
    BY <1>1 DEF Standing
  <1> SUFFICES ASSUME faults' = 0
               PROVE  /\ \A b \in Callers : call'[b].pc \notin {"show", "write"}
                      /\ \A n \in Nodes : Standing(n)' =>
                           file'[n] = wg'[n] \/ \E b \in Callers : Pending(n, call[b])'
    BY DEF FileInv
  <1>5. /\ \A b \in Callers : call[b].pc \notin {"show", "write"}
        /\ \A n \in Nodes : Standing(n) =>
              file[n] = wg[n] \/ \E b \in Callers : Pending(n, call[b])
    BY <1>1 DEF FileInv
  <1>6. \A b \in Callers : call'[b].pc \notin {"show", "write"}
    BY <1>1, <1>2, <1>5
  <1> QED BY <1>1, <1>3, <1>4, <1>5, <1>6
-----------------------------------------------------------------------------

\* Every step leaves the file right, or some call will.
LEMMA NextFile ==
  ASSUME Core, FileInv, [Next]_vars
  PROVE  FileInv'
  <1>0. faults' = 0 => faults = 0
    BY StepFaults
  <1>a. \A n \in Nodes : Standing(n)' => Standing(n)
    BY FallenStays
  <1>1. ASSUME UNCHANGED <<wg, file, call>> PROVE FileInv'
    BY <1>0, <1>a, <1>1 DEF FileInv, Pending
  <1>2. CASE UNCHANGED vars
    BY <1>1, <1>2 DEF vars, calls
  <1>3. ASSUME NEW c \in Cycles, ListActiveNodes(c) \/ CycleStep(c) PROVE FileInv'
    BY <1>1, <1>3 DEF ListActiveNodes, CycleStep, CheckNode, Decide,
                      createReplacementNode, calls
  <1>4. CASE Provision
    BY <1>1, <1>4 DEF Provision, calls
  <1>5. ASSUME NEW k \in Cleaners, CleanupOrphanedNodes(k) \/ CleanStep(k) PROVE FileInv'
    <2>0. CleanMove(k)
      BY <1>5 DEF CleanMove
    <2>1. UNCHANGED call /\ (DeleteNode(k) \/ UNCHANGED <<wg, file>>)
      BY <2>0, CleanTouches DEF Core
    <2>2. CASE UNCHANGED <<wg, file>>
      BY <1>1, <2>1, <2>2
    <2>3. CASE DeleteNode(k) /\ ~UNCHANGED <<wg, file>>
      <3>1. PICK n \in Nodes : /\ status' = [status EXCEPT ![n] = "deleted"]
                               /\ wg' = [wg EXCEPT ![n] = Nobody]
                               /\ file' = [file EXCEPT ![n] = Nobody]
        BY <2>0, <2>3, CleanInHand DEF DeleteNode
      <3>2. /\ status \in [Nodes -> Statuses]
            /\ wg \in [Nodes -> Config] /\ file \in [Nodes -> Config]
        BY DEF Core, TypeOK, CallsTypeOK, Statuses
      <3>3. ~Standing(n)' /\ \A x \in Nodes : x # n => wg'[x] = wg[x] /\ file'[x] = file[x]
        BY <3>1, <3>2 DEF Standing
      <3>4. \A x \in Nodes : x # n =>
               \A b \in Callers : Pending(x, call[b]) => Pending(x, call[b])'
        BY <2>1, <3>3 DEF Pending
      <3> QED BY <1>0, <1>a, <2>1, <3>3, <3>4 DEF FileInv
    <2> QED BY <2>1, <2>2, <2>3
  <1>6. ASSUME NEW m \in Migrations, MigratePeersFromNode(m) \/ MigrationStep(m)
        PROVE  FileInv'
    <2>1. m \in Callers /\ Quiet(m)
      BY <1>6, ScenesAssumption, MovesAreQuiet DEF MigrationMove
    <2>2. UNCHANGED <<status, wg, file>>
      BY <1>6, MigrationTouches DEF MigrationMove, Core
    <2> QED BY <1>0, <2>1, <2>2, QuietFile
  <1>7. ASSUME NEW d \in Disconnects,
               (\E p \in Peers : DisconnectPeer(d, p)) \/ DisconnectStep(d)
        PROVE  FileInv'
    <2>1. d \in Callers /\ Quiet(d)
      BY <1>7, ScenesAssumption, MovesAreQuiet DEF DisconnectMove
    <2>2. UNCHANGED <<status, wg, file>>
      BY <1>7, DisconnectTouches DEF DisconnectMove, Core
    <2> QED BY <1>0, <2>1, <2>2, QuietFile
  <1>8. ASSUME NEW s \in Syncs, SyncPeers(s) \/ SyncStep(s) PROVE FileInv'
    <2>1. s \in Callers /\ Quiet(s)
      BY <1>8, ScenesAssumption, MovesAreQuiet DEF SyncMove
    <2>2. UNCHANGED <<status, wg, file>>
      BY <1>8 DEF SyncPeers, SyncStep, SyncOne, SyncReturned, EndSync, calls, tables
    <2> QED BY <1>0, <2>1, <2>2, QuietFile
  <1>9. ASSUME NEW s \in Syncs, RestartWireGuard(s) PROVE FileInv'
    <2>1. /\ UNCHANGED <<file, call>> /\ SyncNode \in Nodes
          /\ wg' = wg \/ wg' = [wg EXCEPT ![SyncNode] = file[SyncNode]]
          /\ wg \in [Nodes -> Config]
      BY <1>9, RotationAssumption DEF RestartWireGuard, Core, TypeOK, CallsTypeOK
    <2>2. CASE wg' = wg
      BY <1>1, <2>1, <2>2
    <2>3. CASE wg' = [wg EXCEPT ![SyncNode] = file[SyncNode]]
      <3>1. wg'[SyncNode] = file[SyncNode] /\ \A n \in Nodes : n # SyncNode => wg'[n] = wg[n]
        BY <2>1, <2>3
      <3>2. \A n \in Nodes : n # SyncNode =>
               \A b \in Callers : Pending(n, call[b]) => Pending(n, call[b])'
        BY <2>1, <3>1 DEF Pending
      <3>3. ASSUME faults = 0, NEW n \in Nodes, Standing(n)
            PROVE  file'[n] = wg'[n] \/ \E b \in Callers : Pending(n, call[b])'
        <4>1. file[n] = wg[n] \/ \E b \in Callers : Pending(n, call[b])
          BY <3>3 DEF FileInv
        <4> QED BY <2>1, <3>1, <3>2, <4>1
      <3> QED BY <1>0, <1>a, <2>1, <3>3 DEF FileInv
    <2> QED BY <2>1, <2>2, <2>3
  <1>10. ASSUME NEW c \in Callers, RemoteStep(c) PROVE FileInv'
    BY <1>0, <1>10, RemoteSteps, CommandFile, UnansweredFile
  <1> QED BY <1>2, <1>3, <1>4, <1>5, <1>6, <1>7, <1>8, <1>9, <1>10 DEF Next

(***************************************************************************)
(* A synchronisation.                                                      *)
(***************************************************************************)

\* A synchronisation that has begun has rows and interfaces to itself.
LEMMA SyncAlone ==
  ASSUME Core, NEW s \in Syncs, s \in scene
  PROVE  /\ \A m \in Migrations : mig[m].pc = "idle" /\ m \notin scene
         /\ \A d \in Disconnects : disc[d].pc = "idle" /\ d \notin scene
         /\ \A r \in Syncs : r # s => sync[r].pc = "idle" /\ r \notin scene
         /\ \A c \in Callers : c # s => call[c] = NoCall
         /\ scene \cap Cycles = {} /\ scene \cap Cleaners = {}
  <1>1. scene = {s}
    <2>1. scene \cap Syncs = {} \/ \E x \in Syncs : scene = {x}
      BY ScenesAssumption DEF Core, TypeOK
    <2> QED BY <2>1
  <1>2. /\ \A m \in Migrations : MigOK(m)
        /\ \A d \in Disconnects : DiscOK(d)
        /\ \A r \in Syncs : SyncOK(r)
    BY DEF Core, FramesOK
  <1>3. /\ Callers = Migrations \cup Disconnects \cup Syncs
        /\ s \notin Migrations /\ s \notin Disconnects /\ s \notin Cycles
        /\ s \notin Cleaners
    BY ScenesAssumption
  <1>4. \A m \in Migrations : mig[m].pc = "idle" /\ m \notin scene /\ call[m] = NoCall
    BY <1>1, <1>2, <1>3 DEF MigOK
  <1>5. \A d \in Disconnects : disc[d].pc = "idle" /\ d \notin scene /\ call[d] = NoCall
    BY <1>1, <1>2, <1>3 DEF DiscOK
  <1>6. \A r \in Syncs : r # s => sync[r].pc = "idle" /\ r \notin scene /\ call[r] = NoCall
    BY <1>1, <1>2 DEF SyncOK
  <1> QED BY <1>1, <1>3, <1>4, <1>5, <1>6

\* What a synchronisation that does not run needs.
LEMMA SyncResting ==
  ASSUME NEW r \in Syncs, SyncInv(r), sync[r].pc \notin {"run", "done"}, sync'[r] = sync[r]
  PROVE  SyncInv(r)'
  BY DEF SyncInv, PlanOK, Wanted

\* SyncPeers plans: what it reads is what the rows want.
LEMMA SyncStarts ==
  ASSUME Core, NEW s \in Syncs, SyncInv(s), SyncPeers(s)
  PROVE  SyncInv(s)'
  <1> DEFINE f == sync[s]
             g == sync'[s]
             current == {p \in Peers : wg[SyncNode][p] # Absent}
             desired == Rows(SyncNode)
             wanted == {p \in Peers : desired[p] # Absent}
             clash == {p \in wanted : \E q \in wanted \ {p} : wg[SyncNode][q] = desired[p]}
  <1>0. /\ f.pc = "idle" /\ UNCHANGED <<wg, call>>
        /\ \/ \E change \in SUBSET (current \cap wanted) :
                /\ \A p \in (current \cap wanted) \ change : wg[SyncNode][p] = desired[p]
                /\ SyncBecomes(s, "run", desired, current \ wanted, change,
                      wanted \ current, (current \cap wanted) \ change, clash)
           \/ SyncBecomes(s, "failed", f.desired, f.drop, f.change, f.add,
                          f.kept, f.clash)
    BY SyncPeersStarts DEF Core
  <1>1. \A p \in Peers : call[s].peer # p \/ call[s] # NoCall
    BY CallsAssumption DEF NoCall
  <1>2. call[s] = NoCall
    <2>1. SyncOK(s)
      BY DEF Core, FramesOK
    <2> QED BY <1>0, <2>1 DEF SyncOK
  <1>3. /\ \A p \in wanted : desired[p] \in Addresses
        /\ \A p, q \in wanted : desired[p] = desired[q] => p = q
    <2>1. peers \in [Peers -> PeerRow \cup {NoPeer}] /\ AddressesSound
      BY DEF Core, TypeOK, TablesInv
    <2>2. \A p \in wanted : Present(p) /\ desired[p] = peers[p].ip /\ desired[p] \in Addresses
      BY <2>1, RowsTyped
    <2> HIDE DEF desired
    <2> QED BY <2>1, <2>2 DEF AddressesSound
  <1> HIDE DEF desired
  <1>4. CASE SyncBecomes(s, "failed", f.desired, f.drop, f.change, f.add,
                         f.kept, f.clash)
    BY <1>4 DEF SyncBecomes, SyncInv, PlanOK, Wanted
  <1>5. ASSUME NEW change \in SUBSET (current \cap wanted),
               \A p \in (current \cap wanted) \ change : wg[SyncNode][p] = desired[p],
               SyncBecomes(s, "run", desired, current \ wanted, change,
                           wanted \ current, (current \cap wanted) \ change, clash)
        PROVE  SyncInv(s)'
    <2>1. /\ g.pc = "run" /\ g.desired = desired /\ g.drop = current \ wanted
          /\ g.change = change /\ g.add = wanted \ current
          /\ g.kept = (current \cap wanted) \ change /\ g.clash = clash
      BY <1>5 DEF SyncBecomes
    <2>2. Wanted(g) = wanted
      BY <2>1 DEF Wanted
    <2>3. PlanOK(g)
      BY <1>3, <2>1, <2>2 DEF PlanOK
    <2>4. call'[s] = NoCall /\ wg'[SyncNode] = wg[SyncNode]
      BY <1>0, <1>2
    <2>5. \A p \in g.kept : wg'[SyncNode][p] = g.desired[p]
      BY <1>5, <2>1, <2>4
    <2>6. Reached(sync[s], call[s])'
      <3>1. \A p \in Peers : p \notin Open(g, call'[s]) =>
               p \notin current \ wanted /\ p \notin change /\ p \notin wanted \ current
        BY <2>1 DEF Open
      <3>2. \A p \in Peers \ wanted : p \notin Open(g, call'[s]) => wg'[SyncNode][p] = Absent
        BY <2>4, <3>1
      <3>3. \A p \in wanted : p \notin Open(g, call'[s]) => wg'[SyncNode][p] = desired[p]
        BY <1>5, <2>4, <3>1
      <3>4. \A p \in wanted \ current : wg'[SyncNode][p] = Absent
        BY <2>4
      <3>5. \A p \in change : \A q \in wanted \ {p} :
               wg'[SyncNode][p] = desired[q] => q \in clash
        BY <1>5, <2>4
      <3> QED BY <2>1, <2>2, <2>4, <3>2, <3>3, <3>4, <3>5 DEF Reached
    <2> QED BY <2>1, <2>3, <2>4, <2>5, <2>6 DEF SyncInv, CallOfPlan
  <1> QED BY <1>0, <1>4, <1>5
-----------------------------------------------------------------------------

\* The next call of a synchronisation is planned.
LEMMA SyncGoesOn ==
  ASSUME Core, NEW s \in Syncs, SyncInv(s), SyncOne(s)
  PROVE  SyncInv(s)'
  <1> DEFINE f == sync[s]
             g == sync'[s]
             k == call'[s]
  <1>0. /\ f.pc = "run" /\ call[s] = NoCall /\ UNCHANGED <<wg, faults>>
        /\ SyncNode \in Nodes /\ call \in [Callers -> Frame] /\ s \in Callers
        /\ f \in Sync /\ NoCall.peer = "none" /\ "none" \notin Peers
        /\ \A p \in f.change \cup f.add : f.desired[p] \in Addresses
    BY SyncOneTakes, RotationAssumption, ScenesAssumption, CallsAssumption
       DEF Core, TypeOK, CallsTypeOK, FramesOK, SyncOK, NoCall
  <1>1. PICK p \in Peers :
               \/ /\ p \in f.drop /\ RemovePeer(s, SyncNode, p)
                  /\ SyncBecomes(s, "run", f.desired, f.drop \ {p}, f.change, f.add,
                                 f.kept, f.clash)
               \/ /\ f.drop = {} /\ p \in f.change
                  /\ UpdatePeer(s, SyncNode, p, f.desired[p])
                  /\ SyncBecomes(s, "run", f.desired, f.drop, f.change \ {p}, f.add,
                                 f.kept, f.clash)
               \/ /\ f.drop = {} /\ p \in f.add
                  /\ AddPeer(s, SyncNode, p, f.desired[p])
                  /\ SyncBecomes(s, "run", f.desired, f.drop, f.change, f.add \ {p},
                                 f.kept, f.clash)
    BY SyncOneTakes DEF Core
  <1>2. /\ PlanOK(f) /\ \A q \in f.kept : wg[SyncNode][q] = f.desired[q]
        /\ faults = 0 => Reached(f, call[s])
    BY <1>0 DEF SyncInv
  <1>3. /\ g.pc = "run" /\ g.desired = f.desired /\ g.kept = f.kept /\ g.clash = f.clash
        /\ Wanted(g) = Wanted(f)
        /\ g.drop \subseteq f.drop /\ g.change \subseteq f.change /\ g.add \subseteq f.add
        /\ p \notin g.drop \cup g.change \cup g.add \cup g.kept
        /\ g.drop \cup g.change \cup g.add \cup {p} = f.drop \cup f.change \cup f.add
    <2>1. Wanted(g) = Wanted(f) /\ g.pc = "run" /\ g.desired = f.desired /\ g.kept = f.kept
          /\ g.clash = f.clash
      BY <1>1 DEF SyncBecomes, Wanted
    <2>2. f.drop \cap f.change = {} /\ f.drop \cap f.add = {} /\ f.drop \cap f.kept = {}
          /\ f.change \cap f.add = {} /\ f.change \cap f.kept = {} /\ f.add \cap f.kept = {}
      BY <1>2 DEF PlanOK
    <2>3. CASE p \in f.drop /\ g.drop = f.drop \ {p} /\ g.change = f.change /\ g.add = f.add
      BY <2>1, <2>2, <2>3
    <2>4. CASE p \in f.change /\ g.drop = f.drop /\ g.change = f.change \ {p} /\ g.add = f.add
      BY <2>1, <2>2, <2>4
    <2>5. CASE p \in f.add /\ g.drop = f.drop /\ g.change = f.change /\ g.add = f.add \ {p}
      BY <2>1, <2>2, <2>5
    <2> QED BY <1>1, <2>3, <2>4, <2>5 DEF SyncBecomes
  <1>4. PlanOK(g)
    BY <1>2, <1>3 DEF PlanOK
  <1>5. /\ k # NoCall /\ k.node = SyncNode /\ k.peer = p
        /\ \/ p \in f.drop /\ k.pc = "look" /\ k.after = "ok"
           \/ /\ p \in f.change /\ f.drop = {} /\ k.pc = "look" /\ k.after = "list"
              /\ k.ip = f.desired[p]
           \/ /\ p \in f.add /\ f.drop = {} /\ k.pc = "list" /\ k.after = "ok"
              /\ k.ip = f.desired[p]
    <2>1. CASE p \in f.drop /\ RemovePeer(s, SyncNode, p)
      <3>1. Removing(k, SyncNode, p) /\ k.pc = "look"
        BY <1>0, <2>1, CallBegins
      <3> QED BY <1>0, <2>1, <3>1 DEF Removing
    <2>2. CASE p \in f.change /\ f.drop = {} /\ UpdatePeer(s, SyncNode, p, f.desired[p])
      <3>1. f.desired[p] \in Addresses
        BY <1>0, <2>2
      <3>2. /\ k.node = SyncNode /\ k.peer = p /\ k.ip = f.desired[p]
            /\ k.pc = "look" /\ k.after = "list"
        BY <1>0, <2>2, <3>1, CallBegins
      <3> QED BY <1>0, <2>2, <3>2
    <2>3. CASE p \in f.add /\ f.drop = {} /\ AddPeer(s, SyncNode, p, f.desired[p])
      <3>1. f.desired[p] \in Addresses
        BY <1>0, <2>3
      <3>2. Adding(k, SyncNode, p, f.desired[p]) /\ k.pc = "list"
        BY <1>0, <2>3, <3>1, CallBegins
      <3> QED BY <1>0, <2>3, <3>2 DEF Adding
    <2> QED BY <1>1, <2>1, <2>2, <2>3
  <1>6. /\ p \in f.drop => p \notin Wanted(f)
        /\ p \in f.change \cup f.add => p \in Wanted(f)
        /\ \A q \in Wanted(f) : q \in Peers
    BY <1>2 DEF PlanOK, Wanted
  <1>7. CallOfPlan(g, k)
    <2>1. p \in Wanted(g) => f.drop = {} /\ g.drop = {}
      BY <1>3, <1>5, <1>6
    <2>2. k.pc \in {"list", "set", "verify"} \/ k.after = "list" =>
             p \in Wanted(g) /\ k.ip = g.desired[p]
      BY <1>3, <1>5, <1>6
    <2> QED BY <1>3, <1>5, <2>1, <2>2 DEF CallOfPlan
  <1>8. faults = 0 => Reached(sync[s], call[s])'
    <2> SUFFICES ASSUME faults = 0 PROVE Reached(sync[s], call[s])'
      OBVIOUS
    <2>0. wg' = wg /\ Reached(f, NoCall)
      BY <1>0, <1>2
    <2>1. Open(g, k) = f.drop \cup f.change \cup f.add
      BY <1>3, <1>5 DEF Open
    <2>2. \A q \in Peers : q \notin Open(g, k) => q \notin Open(f, NoCall)
      BY <1>0, <2>1 DEF Open
    <2>3. \A q \in Peers \ Wanted(g) : q \notin Open(g, k) => wg[SyncNode][q] = Absent
      BY <1>3, <2>0, <2>2 DEF Reached
    <2>4. \A q \in Wanted(g) : q \notin Open(g, k) =>
             \/ wg[SyncNode][q] = g.desired[q]
             \/ q \in g.clash /\ wg[SyncNode][q] = Absent
      BY <1>3, <1>6, <2>0, <2>2 DEF Reached
    <2>5. \A q \in g.add : wg[SyncNode][q] = Absent
      BY <1>3, <2>0 DEF Reached
    <2>6. \A q \in g.change : \A r \in Wanted(g) \ {q} :
             wg[SyncNode][q] = g.desired[r] => r \in g.clash
      BY <1>3, <2>0 DEF Reached
    <2>7. Midway(sync[s], call[s])'
      <3>1. p \in f.add => wg[SyncNode][p] = Absent
        BY <2>0 DEF Reached
      <3> QED BY <1>3, <1>5, <1>6, <2>0, <3>1 DEF Midway
    <2> QED BY <2>0, <2>3, <2>4, <2>5, <2>6, <2>7 DEF Reached
  <1>9. \A q \in g.kept : wg'[SyncNode][q] = g.desired[q]
    BY <1>0, <1>2, <1>3
  <1> QED BY <1>0, <1>3, <1>4, <1>7, <1>8, <1>9 DEF SyncInv

\* A call has returned: its peer is as wanted, or its address was another's.
LEMMA SyncCallReturned ==
  ASSUME Core, NEW s \in Syncs, SyncInv(s), SyncReturned(s)
  PROVE  SyncInv(s)'
  <1> DEFINE f == sync[s]
             k == call[s]
  <1>0. /\ f.pc = "run" /\ k.pc \in Returned /\ UNCHANGED <<sync, wg, faults>>
        /\ call'[s] = NoCall /\ k # NoCall
        /\ NoCall.peer = "none" /\ "none" \notin Peers
    BY ScenesAssumption, CallsAssumption
       DEF Core, TypeOK, CallsTypeOK, SyncReturned, frames, NoneFor, NoCall, Returned
  <1>1. /\ PlanOK(f) /\ CallOfPlan(f, k)
        /\ \A q \in f.kept : wg[SyncNode][q] = f.desired[q]
        /\ faults = 0 => Reached(f, k)
    BY <1>0 DEF SyncInv
  <1>2. ASSUME faults = 0 PROVE Reached(f, NoCall)
    <2>0. Reached(f, k) /\ Midway(f, k)
      BY <1>0, <1>1, <1>2 DEF Reached
    <2>1. \A q \in Peers \ Wanted(f) : q \notin Open(f, NoCall) => wg[SyncNode][q] = Absent
      <3>1. k.peer \notin Wanted(f) => wg[SyncNode][k.peer] = Absent
        BY <1>0, <2>0 DEF Midway, Returned
      <3> QED BY <2>0, <3>1 DEF Reached, Open
    <2>2. \A q \in Wanted(f) : q \notin Open(f, NoCall) =>
             \/ wg[SyncNode][q] = f.desired[q]
             \/ q \in f.clash /\ wg[SyncNode][q] = Absent
      <3>1. k.peer \in Wanted(f) =>
             \/ wg[SyncNode][k.peer] = f.desired[k.peer]
             \/ k.peer \in f.clash /\ wg[SyncNode][k.peer] = Absent
        BY <1>0, <2>0 DEF Midway, Returned
      <3> QED BY <2>0, <3>1 DEF Reached, Open
    <2> QED BY <2>0, <2>1, <2>2 DEF Reached
  <1>3. /\ PlanOK(sync[s])' /\ CallOfPlan(sync[s], call[s])'
        /\ \A q \in sync'[s].kept : wg'[SyncNode][q] = sync'[s].desired[q]
    BY <1>0, <1>1 DEF PlanOK, Wanted, CallOfPlan
  <1>4. faults' = 0 => Reached(sync[s], call[s])'
    <2> SUFFICES ASSUME faults' = 0 PROVE Reached(sync[s], call[s])'
      OBVIOUS
    <2>1. Reached(f, NoCall) /\ sync'[s] = f /\ call'[s] = NoCall /\ wg' = wg
      BY <1>0, <1>2
    <2> QED BY <2>1 DEF Reached, Wanted, Open
  <1> QED BY <1>0, <1>3, <1>4 DEF SyncInv

\* SyncPeers has returned.
LEMMA SyncEnds ==
  ASSUME Core, NEW s \in Syncs, SyncInv(s), EndSync(s)
  PROVE  SyncInv(s)'
  <1> DEFINE f == sync[s]
             g == sync'[s]
  <1>0. /\ f.pc = "run" /\ call[s] = NoCall /\ UNCHANGED <<wg, faults, call>>
        /\ f.drop \cup f.change \cup f.add = {}
        /\ sync' = [sync EXCEPT ![s].pc = "done"] /\ sync \in [Syncs -> Sync]
    BY DEF EndSync, calls, Core, TypeOK
  <1>1. /\ g.pc = "done" /\ g.desired = f.desired /\ g.drop = f.drop
        /\ g.change = f.change /\ g.add = f.add /\ g.kept = f.kept /\ g.clash = f.clash
    BY <1>0, SyncFields DEF SyncBecomes
  <1>2. PlanOK(f) /\ (faults = 0 => Reached(f, NoCall))
    BY <1>0 DEF SyncInv
  <1>3. PlanOK(sync[s])'
    BY <1>1, <1>2 DEF PlanOK, Wanted
  <1>4. faults' = 0 => Reached(sync[s], call[s])'
    <2> SUFFICES ASSUME faults' = 0 PROVE Reached(sync[s], call[s])'
      OBVIOUS
    <2>1. Reached(f, NoCall) /\ call'[s] = NoCall /\ wg' = wg
      BY <1>0, <1>2
    <2>2. Wanted(g) = Wanted(f) /\ Open(g, NoCall) = Open(f, NoCall)
      BY <1>1 DEF Wanted, Open
    <2> QED BY <1>1, <2>1, <2>2 DEF Reached
  <1> QED BY <1>0, <1>1, <1>3, <1>4 DEF SyncInv

\* A restart after it brings back what the file says, which is the same.
LEMMA SyncRestarts ==
  ASSUME Core, FileInv, NEW s \in Syncs, SyncInv(s), RestartWireGuard(s)
  PROVE  SyncInv(s)'
  <1> DEFINE f == sync[s]
  <1>0. /\ f.pc = "done" /\ UNCHANGED <<sync, call, file>> /\ s \in scene
        /\ wg' = wg \/ wg' = [wg EXCEPT ![SyncNode] = file[SyncNode]]
        /\ wg \in [Nodes -> Config] /\ SyncNode \in Nodes
    BY RotationAssumption
       DEF RestartWireGuard, frames, Core, TypeOK, CallsTypeOK
  <1>1. faults' = 0 => faults = 0
    BY StepFaults DEF Next
  <1>2. \A c \in Callers : call[c] = NoCall
    <2>1. SyncOK(s)
      BY DEF Core, FramesOK
    <2> QED BY <1>0, <2>1, SyncAlone DEF SyncOK
  <1>3. faults' = 0 => wg'[SyncNode] = wg[SyncNode]
    <2>1. \A c \in Callers : ~ Pending(SyncNode, call[c])
      BY <1>2 DEF Pending, NoCall
    <2>2. Standing(SyncNode)
      BY <1>0, SyncAlone DEF Core, FramesOK
    <2>3. faults = 0 => file[SyncNode] = wg[SyncNode]
      BY <1>0, <2>1, <2>2 DEF FileInv
    <2> QED BY <1>0, <1>1, <2>3
  <1>4. PlanOK(sync[s])'
    BY <1>0 DEF SyncInv, PlanOK, Wanted
  <1>5. faults' = 0 => Reached(sync[s], call[s])'
    <2> SUFFICES ASSUME faults' = 0 PROVE Reached(sync[s], call[s])'
      OBVIOUS
    <2>1. Reached(f, NoCall) /\ sync'[s] = f /\ call[s] = NoCall /\ call'[s] = NoCall
          /\ wg'[SyncNode] = wg[SyncNode]
      <3>1. call[s] = NoCall
        BY <1>2, ScenesAssumption
      <3> QED BY <1>0, <1>1, <1>3, <3>1 DEF SyncInv
    <2> QED BY <2>1 DEF Reached, Wanted, Open
  <1> QED BY <1>0, <1>4, <1>5 DEF SyncInv
-----------------------------------------------------------------------------

\* A command of a synchronisation's call brings its peer one step nearer,
\* and touches no other.
LEMMA SyncCommand ==
  ASSUME Core, FileInv, NEW s \in Syncs, SyncInv(s), Answered(s),
         faults' = 0 => faults = 0
  PROVE  SyncInv(s)'
  <1> DEFINE f == sync[s]
             k == call[s]
             g == call'[s]
  <1>0. /\ s \in Callers /\ CallsTypeOK /\ CallOK(s) /\ CallStep(s) /\ UNCHANGED sync
        /\ sync'[s] = sync[s] /\ SyncOK(s) /\ wg \in [Nodes -> Config] /\ SyncNode \in Nodes
        /\ f \in Sync /\ f.desired \in Config
    BY ScenesAssumption, RotationAssumption
       DEF Core, TypeOK, CallsTypeOK, FramesOK, Answered, frames, Sync
  <1>1. /\ Follows(k, g) /\ k # NoCall /\ g # NoCall /\ k \in Frame
    <2>1. Follows(k, g) /\ k \in Frame
      BY <1>0, CommandFollows DEF CallsTypeOK
    <2>2. k.pc # "idle" /\ g.pc # "idle"
      BY <2>1 DEF Follows, Frame, Returned
    <2>3. NoCall.pc = "idle"
      BY DEF NoCall
    <2> QED BY <2>1, <2>2, <2>3
  <1>2. f.pc = "run"
    BY <1>0, <1>1 DEF SyncOK
  <1>3. /\ PlanOK(f) /\ CallOfPlan(f, k)
        /\ \A q \in f.kept : wg[SyncNode][q] = f.desired[q]
        /\ faults = 0 => Reached(f, k)
    BY <1>2 DEF SyncInv
  <1>4. /\ k.node = SyncNode /\ k.peer \in Peers
        /\ g.node = SyncNode /\ g.peer = k.peer /\ g.ip = k.ip
        /\ k.peer \notin f.drop \cup f.change \cup f.add \cup f.kept
        /\ k.pc = "set" => k.peer \in Wanted(f) /\ k.ip = f.desired[k.peer]
                           /\ k.ip \in Addresses
    BY <1>0, <1>1, <1>3 DEF CallOfPlan, Follows, CallOK
  <1>5. \/ wg' = wg
        \/ k.pc = "set" /\ HasSet(k)
        \/ k.pc = "unset" /\ HasUnset(k)
    BY <1>0, CommandEffects
  <1>6. \A q \in Peers : q # k.peer =>
           \/ wg'[SyncNode][q] = wg[SyncNode][q]
           \/ /\ k.pc = "set" /\ wg[SyncNode][q] = f.desired[k.peer]
              /\ k.peer \in Wanted(f)
    BY <1>4, <1>5 DEF HasSet, HasUnset
  <1>7. \A q \in f.kept : wg'[SyncNode][q] = f.desired[q]
    <2> TAKE q \in f.kept
    <2>1. q \in Wanted(f) /\ q # k.peer /\ q \in Peers
      BY <1>3, <1>4 DEF PlanOK, Wanted
    <2>2. k.peer \in Wanted(f) => f.desired[q] # f.desired[k.peer]
      BY <1>3, <2>1 DEF PlanOK
    <2> QED BY <1>3, <1>6, <2>1, <2>2
  <1>8. CallOfPlan(f, g)
    <2>1. g.pc \in {"list", "set", "verify"} \/ g.after = "list" =>
             k.pc \in {"list", "set", "verify"} \/ k.after = "list"
      BY <1>1 DEF Follows, Frame, Returned
    <2> QED BY <1>1, <1>3, <1>4, <2>1 DEF CallOfPlan
  <1>9. ASSUME faults' = 0 PROVE Reached(sync[s], call[s])'
    <2>0. faults = 0 /\ Reached(f, k) /\ Midway(f, k)
      <3>1. faults = 0
        BY <1>9
      <3> QED BY <1>1, <1>3, <3>1 DEF Reached
    <2>1. k.pc \notin {"show", "write"}
      BY <1>0, <2>0 DEF FileInv
    <2>2. Unharmed(k, g)
      BY <1>0, <1>9, <2>1, CommandUnharmed
    <2>3. \A q \in Peers : q # k.peer => wg'[SyncNode][q] = wg[SyncNode][q]
      <3>1. k.pc = "set" => \A q \in Peers : wg[SyncNode][q] # f.desired[k.peer]
        BY <1>4, <2>0 DEF Midway
      <3> QED BY <1>6, <3>1
    <2>4. Open(f, g) = Open(f, k)
      BY <1>4 DEF Open
    <2>5. \A q \in Peers \ Wanted(f) : q \notin Open(f, g) => wg'[SyncNode][q] = Absent
      BY <2>0, <2>3, <2>4 DEF Reached, Open
    <2>6. \A q \in Wanted(f) : q \notin Open(f, g) =>
             \/ wg'[SyncNode][q] = f.desired[q]
             \/ q \in f.clash /\ wg'[SyncNode][q] = Absent
      BY <2>0, <2>3, <2>4 DEF Reached, Open, Wanted
    <2>7. \A q \in f.add : wg'[SyncNode][q] = Absent
      BY <1>0, <1>4, <2>0, <2>3 DEF Reached, Sync
    <2>8. \A q \in f.change : \A r \in Wanted(f) \ {q} :
             wg'[SyncNode][q] = f.desired[r] => r \in f.clash
      BY <1>0, <1>4, <2>0, <2>3 DEF Reached, Sync
    <2>9. Midway(sync[s], call[s])'
      <3> DEFINE w == wg[SyncNode][k.peer]
                 x == wg'[SyncNode][k.peer]
      <3>0. sync'[s] = f /\ Wanted(f)' = Wanted(f)
        BY <1>0 DEF Wanted
      <3>1. CASE k.peer \notin Wanted(f)
        <4>1. k.after = "ok" /\ k.pc \in {"look", "unset", "save", "ok"}
              /\ (k.pc \in {"save", "ok"} => w = Absent)
          BY <2>0, <3>1 DEF Midway
        <4>2. g.after = "ok" /\ g.pc \in {"unset", "save", "ok"}
              /\ (g.pc \in {"save", "ok"} => x = Absent)
          BY <1>4, <2>2, <4>1 DEF Unharmed, HasUnset
        <4> QED BY <1>0, <1>4, <3>1, <4>2 DEF Midway, Wanted
      <3>2. CASE k.peer \in Wanted(f)
        <4>0. f.drop = {} /\ f.desired[k.peer] \in Addresses
          BY <1>1, <1>3, <3>2 DEF CallOfPlan, PlanOK
        <4>1. CASE k.pc = "list"
          <5>1. w = Absent /\ k.after = "ok" /\ k.ip = f.desired[k.peer]
            BY <1>1, <1>3, <2>0, <3>2, <4>1 DEF Midway, CallOfPlan
          <5>2. wg' = wg /\ g.after = "ok"
                /\ IF Conflict(k.node, k.peer, k.ip) THEN g.pc = "failed" ELSE g.pc = "set"
            BY <2>2, <4>1, <5>1 DEF Unharmed
          <5>3. CASE Conflict(k.node, k.peer, k.ip)
            <6>1. PICK q \in Peers : wg[SyncNode][q] = f.desired[k.peer]
              BY <1>4, <5>1, <5>3 DEF Conflict
            <6>2. q # k.peer /\ wg[SyncNode][q] # Absent
              BY <4>0, <5>1, <6>1 DEF Addresses, Absent
            <6>3. k.peer \in f.clash
              <7>1. CASE q \notin Wanted(f)
                <8>1. q \in f.change \cup f.add
                  BY <2>0, <4>0, <6>2, <7>1 DEF Reached, Open
                <8> QED BY <1>3, <7>1, <8>1 DEF PlanOK
              <7>2. CASE q \in Wanted(f) /\ q \notin Open(f, k)
                <8>1. wg[SyncNode][q] = f.desired[q]
                  BY <2>0, <6>2, <7>2 DEF Reached
                <8> QED BY <1>3, <3>2, <6>1, <6>2, <7>2, <8>1 DEF PlanOK
              <7>3. CASE q \in Open(f, k)
                <8>1. q \in f.change
                  BY <2>0, <4>0, <6>2, <7>3 DEF Open, Reached
                <8> QED BY <2>0, <3>2, <6>1, <6>2, <8>1 DEF Reached
              <7> QED BY <7>1, <7>2, <7>3
            <6> QED BY <1>0, <1>4, <3>2, <5>1, <5>2, <5>3, <6>3 DEF Midway, Wanted
          <5>4. CASE ~ Conflict(k.node, k.peer, k.ip)
            <6>1. \A q \in Peers : wg[SyncNode][q] # f.desired[k.peer]
              BY <1>4, <5>1, <5>4 DEF Conflict
            <6> QED BY <1>0, <1>4, <3>2, <5>1, <5>2, <5>4, <6>1 DEF Midway, Wanted
          <5> QED BY <5>3, <5>4
        <4>2. CASE k.pc = "set"
          <5>1. k.after = "ok" /\ g.pc = "verify" /\ g.after = "ok" /\ HasSet(k)
            BY <2>0, <2>2, <3>2, <4>2 DEF Midway, Unharmed
          <5>2. x = f.desired[k.peer]
            BY <1>4, <4>2, <5>1 DEF HasSet
          <5> QED BY <1>0, <1>4, <3>2, <5>1, <5>2 DEF Midway, Wanted
        <4>3. CASE k.pc = "verify"
          <5>1. k.after = "ok" /\ w = f.desired[k.peer] /\ w # Absent
            BY <2>0, <3>2, <4>0, <4>3 DEF Midway, Addresses, Absent
          <5>2. g.pc = "save" /\ g.after = "ok" /\ wg' = wg
            BY <1>4, <2>2, <4>3, <5>1 DEF Unharmed
          <5> QED BY <1>0, <1>4, <3>2, <5>1, <5>2 DEF Midway, Wanted
        <4>4. CASE k.pc = "look"
          <5>1. k.after = "list" /\ wg' = wg
            BY <2>0, <2>2, <3>2, <4>4 DEF Midway, Unharmed
          <5>2. \/ w = Absent /\ g.pc = "list" /\ g.after = "ok"
                \/ g.pc = "unset" /\ g.after = "list"
            BY <1>4, <2>2, <4>4, <5>1 DEF Unharmed
          <5> QED BY <1>0, <1>4, <3>2, <5>1, <5>2 DEF Midway, Wanted
        <4>5. CASE k.pc = "unset"
          <5>1. k.after = "list" /\ g.pc = "save" /\ g.after = "list" /\ HasUnset(k)
            BY <2>0, <2>2, <3>2, <4>5 DEF Midway, Unharmed
          <5>2. x = Absent
            BY <1>4, <5>1 DEF HasUnset
          <5> QED BY <1>0, <1>4, <3>2, <5>1, <5>2 DEF Midway, Wanted
        <4>6. CASE k.pc = "save"
          <5>1. /\ k.after \in {"ok", "list"} /\ wg' = wg
                /\ g.pc = k.after /\ g.after = "ok"
                /\ k.after = "list" => w = Absent
                /\ k.after = "ok" => w = f.desired[k.peer]
            BY <2>0, <2>2, <3>2, <4>6 DEF Midway, Unharmed
          <5> QED BY <1>0, <1>4, <3>2, <5>1 DEF Midway, Wanted
        <4> QED BY <2>2, <4>1, <4>2, <4>3, <4>4, <4>5, <4>6 DEF Unharmed
      <3> QED BY <3>1, <3>2
    <2> QED BY <1>0, <2>5, <2>6, <2>7, <2>8, <2>9 DEF Reached, Wanted, Open
  <1>10. PlanOK(sync[s])'
    BY <1>0, <1>3 DEF PlanOK, Wanted
  <1>11. CallOfPlan(sync[s], call[s])'
    BY <1>0, <1>8 DEF CallOfPlan, Wanted
  <1>12. \A q \in sync'[s].kept : wg'[SyncNode][q] = sync'[s].desired[q]
    BY <1>0, <1>7
  <1> QED BY <1>0, <1>2, <1>9, <1>10, <1>11, <1>12 DEF SyncInv
-----------------------------------------------------------------------------

\* What the actors other than a synchronisation leave alone.
LEMMA SyncUntouched ==
  ASSUME NEW s \in Syncs, SyncInv(s), sync'[s] = sync[s], call'[s] = call[s],
         wg'[SyncNode] = wg[SyncNode], faults' = 0 => faults = 0
  PROVE  SyncInv(s)'
  <1>1. PlanOK(sync[s])' /\ (CallOfPlan(sync[s], call[s]) => CallOfPlan(sync[s], call[s])')
    BY DEF SyncInv, PlanOK, Wanted, CallOfPlan
  <1>2. Reached(sync[s], call[s]) => Reached(sync[s], call[s])'
    BY DEF Reached, Wanted, Open, Midway
  <1> QED BY <1>1, <1>2 DEF SyncInv

\* While a synchronisation runs, all that happens is its own, or a request of
\* an earlier cycle.
LEMMA SyncActs ==
  ASSUME Core, Next, NEW s \in Syncs, s \in scene
  PROVE  SyncMove(s) \/ Answered(s) \/ Provision
  <1>0. /\ \A m \in Migrations : mig[m].pc = "idle" /\ m \notin scene
        /\ \A d \in Disconnects : disc[d].pc = "idle" /\ d \notin scene
        /\ \A r \in Syncs : r # s => sync[r].pc = "idle" /\ r \notin scene
        /\ \A c \in Callers : c # s => call[c] = NoCall
        /\ scene \cap Cycles = {} /\ scene \cap Cleaners = {}
    BY SyncAlone
  <1>1. ASSUME NEW c \in Cycles, ListActiveNodes(c) \/ CycleStep(c) PROVE FALSE
    <2>1. c \notin scene /\ cycle[c].pc = "idle"
      BY <1>0 DEF Core, FramesOK, CycleOK
    <2> QED BY <1>1, <2>1 DEF ListActiveNodes, CycleStep, CheckNode, Decide,
                              createReplacementNode
  <1>2. ASSUME NEW k \in Cleaners, CleanupOrphanedNodes(k) \/ CleanStep(k) PROVE FALSE
    BY <1>0, <1>2, CleanInHand DEF CleanMove
  <1>3. ASSUME NEW m \in Migrations, MigratePeersFromNode(m) \/ MigrationStep(m)
        PROVE  FALSE
    <2>1. mig[m].pc = "idle" /\ m \notin scene
      BY <1>0
    <2> QED BY <1>3, <2>1
            DEF MigrationStep, MigratePeersFromNode, ValidateNodeCapacity,
                AllocateClientIP, CheckIPConflict, UpdateNode, AddToTarget, AddReturned,
                RemoveFromSource, RemoveReturned, EndMigration
  <1>4. ASSUME NEW d \in Disconnects,
               (\E p \in Peers : DisconnectPeer(d, p)) \/ DisconnectStep(d)
        PROVE  FALSE
    <2>1. disc[d].pc = "idle" /\ d \notin scene
      BY <1>0
    <2> QED BY <1>4, <2>1 DEF DisconnectStep, DisconnectPeer, RemoveFromNode,
                              RemovedFromNode, MarkRemoving, DeletePeer
  <1>5. ASSUME NEW r \in Syncs, SyncMove(r) PROVE r = s
    <2>1. r # s => sync[r].pc = "idle" /\ r \notin scene
      BY <1>0
    <2> QED BY <1>5, <2>1 DEF SyncMove, SyncPeers, SyncStep, SyncOne, SyncReturned,
                              EndSync, RestartWireGuard
  <1>6. ASSUME NEW c \in Callers, RemoteStep(c) PROVE c = s /\ Answered(c)
    <2>1. c # s => call[c].pc = "idle"
      BY <1>0 DEF NoCall
    <2>2. CallsTypeOK /\ CallOK(c) /\ \A n \in Nodes : Standing(n)
      BY <1>0 DEF Core, TypeOK, FramesOK
    <2>3. CASE Answered(c)
      <3>1. call[c].pc # "idle"
        BY <2>2, <2>3, CommandFollows DEF Follows, Answered
      <3> QED BY <2>1, <2>3, <3>1
    <2>4. CASE Unanswered(c)
      <3>1. call[c].pc # "idle" /\ ~Standing(call[c].node)
        BY <2>4 DEF Unanswered, Unreachable
      <3> QED BY <2>2, <3>1 DEF CallOK
    <2> QED BY <1>6, <2>3, <2>4, RemoteSteps
  <1> QED BY <1>1, <1>2, <1>3, <1>4, <1>5, <1>6 DEF Next, SyncMove

\* Every step keeps what a synchronisation has reached.
LEMMA NextSync ==
  ASSUME Core, FileInv, NEW s \in Syncs, SyncInv(s), [Next]_vars
  PROVE  SyncInv(s)'
  <1>1. CASE UNCHANGED vars
    <2>1. UNCHANGED <<sync, call, wg, faults>>
      BY <1>1 DEF vars, frames, calls
    <2> QED BY <2>1, SyncUntouched
  <1>2. CASE Next /\ s \in scene
    <2>1. SyncMove(s) \/ Answered(s) \/ Provision
      BY <1>2, SyncActs
    <2>2. CASE Provision
      <3>1. UNCHANGED <<sync, call, wg, faults>>
        BY <2>2 DEF Provision, frames, calls
      <3> QED BY <3>1, SyncUntouched
    <2>3. faults' = 0 => faults = 0
      BY StepFaults
    <2> QED BY <2>1, <2>2, <2>3, SyncStarts, SyncGoesOn, SyncCallReturned, SyncEnds, SyncRestarts,
               SyncCommand DEF SyncMove, SyncStep
  <1>3. CASE Next /\ s \notin scene
    <2>1. sync[s].pc = "idle" /\ sync \in [Syncs -> Sync]
      BY <1>3 DEF Core, FramesOK, SyncOK, TypeOK
    <2>2. sync'[s] = sync[s]
      <3>1. ASSUME NEW c \in Cycles, ListActiveNodes(c) \/ CycleStep(c)
            PROVE  UNCHANGED sync
        BY <3>1 DEF ListActiveNodes, CycleStep, CheckNode, Decide, createReplacementNode
      <3>2. Provision => UNCHANGED sync
        BY DEF Provision, frames
      <3>7. ASSUME NEW k \in Cleaners, CleanupOrphanedNodes(k) \/ CleanStep(k)
            PROVE  UNCHANGED sync
        BY <3>7, CleanTouches DEF CleanMove, Core
      <3>3. ASSUME NEW m \in Migrations, MigratePeersFromNode(m) \/ MigrationStep(m)
            PROVE  UNCHANGED sync
        BY <3>3, MigrationTouches DEF MigrationMove, Core
      <3>4. ASSUME NEW d \in Disconnects,
                   (\E p \in Peers : DisconnectPeer(d, p)) \/ DisconnectStep(d)
            PROVE  UNCHANGED sync
        BY <3>4, DisconnectTouches DEF DisconnectMove, Core
      <3>5. ASSUME NEW r \in Syncs, SyncMove(r) PROVE sync'[s] = sync[s]
        <4>1. s = r => SyncReturned(r)
          BY <1>3, <2>1, <3>5 DEF SyncMove, SyncStep, SyncPeers, SyncOne, EndSync,
                                  RestartWireGuard
        <4>2. CASE SyncReturned(r) \/ RestartWireGuard(r)
          BY <4>2 DEF SyncReturned, RestartWireGuard, frames
        <4>3. CASE s # r /\ SyncPeers(r)
          BY <2>1, <4>3, SyncPeersStarts DEF SyncBecomes, Core
        <4>4. CASE s # r /\ SyncOne(r)
          BY <2>1, <4>4, SyncOneTakes DEF SyncBecomes, Core
        <4>5. CASE s # r /\ EndSync(r)
          BY <2>1, <4>5 DEF EndSync
        <4> QED BY <3>5, <4>1, <4>2, <4>3, <4>4, <4>5 DEF SyncMove, SyncStep
      <3>6. ASSUME NEW c \in Callers, RemoteStep(c) PROVE UNCHANGED sync
        BY <3>6 DEF RemoteStep, frames
      <3> QED BY <1>3, <3>1, <3>2, <3>3, <3>4, <3>5, <3>6, <3>7 DEF Next, SyncMove
    <2> QED BY <2>1, <2>2, SyncResting
  <1> QED BY <1>1, <1>2, <1>3

\* At the start every interface agrees with its file.
LEMMA InitInterface ==
  ASSUME Init
  PROVE  InterfaceInv
  <1>1. FileInv
    BY DEF Init, FileInv, NoCall
  <1>2. ASSUME NEW s \in Syncs PROVE SyncInv(s)
    <2>1. sync[s] = NewSync
      BY DEF Init
    <2>2. Wanted(NewSync) = {}
      BY DEF Wanted, NewSync, Nobody
    <2> QED BY <2>1, <2>2 DEF SyncInv, PlanOK, NewSync
  <1> QED BY <1>1, <1>2 DEF InterfaceInv

\* What the invariants say of the interface.
LEMMA InterfaceFollows ==
  ASSUME Core, InterfaceInv
  PROVE  InterfaceSound
  <1>1. FileIsCurrent
    BY DEF FileIsCurrent, InterfaceInv, FileInv, Pending, Returned
  <1>2. SyncConverges
    <2> SUFFICES ASSUME NEW s \in Syncs, sync[s].pc = "done", faults = 0, NEW p \in Peers
                 PROVE  \/ wg[SyncNode][p] = sync[s].desired[p]
                        \/ p \in sync[s].clash /\ wg[SyncNode][p] = Absent
      BY DEF SyncConverges
    <2>1. call[s] = NoCall /\ NoCall.peer = "none" /\ "none" \notin Peers
      BY CallsAssumption DEF Core, FramesOK, SyncOK, NoCall
    <2>2. SyncInv(s) /\ Reached(sync[s], call[s])
      BY DEF InterfaceInv, SyncInv
    <2>3. p \notin Open(sync[s], call[s])
      BY <2>1, <2>2 DEF Open, SyncInv
    <2>4. p \notin Wanted(sync[s]) => sync[s].desired[p] = Absent
      BY DEF Wanted
    <2> QED BY <2>2, <2>3, <2>4 DEF Reached
  <1>3. SyncKeepsGood
    BY DEF SyncKeepsGood, InterfaceInv, SyncInv
  <1> QED BY <1>1, <1>2, <1>3 DEF InterfaceSound

\* Whatever overlaps, the file of a node that is not being destroyed agrees
\* with the interface while nothing fails and no call is under way; and
\* SyncPeers, from whatever the interface was but with no other call
\* meanwhile, leaves the wanted peers and never takes away one that was right
\* (InterfaceSound).
THEOREM InterfaceIsSound == Spec => []InterfaceSound
  <1>1. Init => Core /\ InterfaceInv
    BY InitCore, InitInterface
  <1>2. Core /\ InterfaceInv /\ [Next]_vars => Core' /\ InterfaceInv'
    <2> SUFFICES ASSUME Core, InterfaceInv, [Next]_vars PROVE Core' /\ InterfaceInv'
      OBVIOUS
    <2>1. Core'
      BY NextCore
    <2>2. FileInv' /\ \A s \in Syncs : SyncInv(s)'
      BY NextFile, NextSync DEF InterfaceInv
    <2> QED BY <2>1, <2>2 DEF InterfaceInv
  <1>3. Core /\ InterfaceInv => InterfaceSound
    BY InterfaceFollows
  <1> QED BY <1>1, <1>2, <1>3, PTL DEF Spec
-----------------------------------------------------------------------------

(***************************************************************************)
(* Migrations.  Nothing in the code keeps a migration and a disconnection  *)
(* of the same peer apart.  A disconnection that deletes the row while the *)
(* migration's "wg set" is under way frees an address that is about to be  *)
(* configured; another migration to the node would get it, and lose it to  *)
(* the late command.  So the theorem assumes that migrations which overlap *)
(* a disconnection go to different nodes.                                  *)
(***************************************************************************)
Apart == \A s \in Scenes : s \cap Disconnects # {} =>
            \A l, m \in s \cap Migrations : Route[l].target = Route[m].target => l = m

\* A peer leaves by one migration only, and its old node is no target.
LEMMA RoutesApart ==
  /\ NoNode \notin Nodes /\ "none" \notin Peers
  /\ \A p \in Peers : Home[p] \in Nodes
  /\ \A m \in Migrations : Route[m].source \in Nodes /\ Route[m].target \in Nodes
  /\ \A l, m \in Migrations : Route[l].source # Route[m].target
  /\ \A l, m \in Migrations : \A p \in Peers :
        Leaves(l, p) /\ Leaves(m, p) => l = m
  /\ \A m \in Migrations : \A p \in Peers :
        Leaves(m, p) => Home[p] # Route[m].target
  BY RotationAssumption, CallsAssumption DEF Leaves, NoNode

\* What concerns a peer stays as it is.
LEMMA ServedKept ==
  ASSUME NEW p \in Peers, Served(p), peers'[p] = peers[p],
         \A n \in Nodes : wg'[n][p] = wg[n][p],
         \A m \in Migrations : Leaves(m, p) => mig'[m] = mig[m]
  PROVE  Served(p)'
  BY RoutesApart DEF Served, Before, Half, After, Present, Leaves

\* The migration of a peer goes on, while rows and interfaces stay.
LEMMA ServedMoves ==
  ASSUME NEW m \in Migrations, NEW p \in Peers, Served(p), Leaves(m, p),
         peers'[p] = peers[p], \A n \in Nodes : wg'[n][p] = wg[n][p],
         \A l \in Migrations : l # m => mig'[l] = mig[l],
         Before(m, p)' => peers[p].node = Home[p],
         p = mig'[m].peer /\ mig'[m].pc \in {"getTarget", "add"} =>
            peers[p].node = Route[m].target /\ peers[p].ip = mig'[m].ip,
         After(m, p)' => /\ peers[p].node = Route[m].target
                         /\ wg[Route[m].target][p] = peers[p].ip,
         peers[p].node = Route[m].target => Half(m, p)' \/ After(m, p)',
         Half(m, p)' /\ peers[p].node = Route[m].target => wg[Home[p]][p] \in Addresses,
         p \in mig'[m].moved \ mig'[m].warned => wg[Home[p]][p] = Absent
  PROVE  Served(p)'
  <1>1. \A l \in Migrations : Leaves(l, p) => l = m
    BY RoutesApart
  <1>2. /\ ~Present(p)' => \A n \in Nodes : wg'[n][p] = Absent
        /\ Present(p)' /\ peers'[p].node = Home[p] =>
              /\ wg'[Home[p]][p] = peers'[p].ip
              /\ \A n \in Nodes \ {Home[p]} : wg'[n][p] = Absent
    BY RoutesApart DEF Served, Present
  <1>3. peers[p].node = Route[m].target =>
           \A n \in Nodes \ {Home[p], Route[m].target} : wg'[n][p] = Absent
    BY DEF Served
  <1> QED BY <1>1, <1>2, <1>3, RoutesApart DEF Served, Leaves, Present

\* A step of a migration that leaves rows and interfaces alone.
LEMMA MovingKept ==
  ASSUME MovingInv, NEW m \in Migrations, UNCHANGED <<scene, disc, wg, peers>>,
         \A l \in Migrations : l # m => mig'[l] = mig[l] /\ call'[l] = call[l],
         SetsOK(m)', Reserved(m)', Effect(m)',
         \A p \in Peers \ Disconnected : Leaves(m, p) /\ Moving => Served(p)'
  PROVE  MovingInv'
  <1>1. \A p \in Peers : PlaceOK(p)'
    BY DEF MovingInv, PlaceOK, Present, Leaves
  <1>2. ASSUME NEW l \in Migrations PROVE SetsOK(l)' /\ Reserved(l)' /\ Effect(l)'
    BY <1>2 DEF MovingInv, SetsOK, Reserved, Effect, Leaves, Only, Present, Disconnected
  <1>3. ASSUME Moving, NEW p \in Peers \ Disconnected PROVE Served(p)'
    <2>1. CASE Leaves(m, p)
      BY <1>3, <2>1
    <2>2. CASE ~ Leaves(m, p)
      <3>1. Served(p) /\ p \in Peers
        BY <1>3 DEF MovingInv
      <3>2. \A l \in Migrations : Leaves(l, p) => mig'[l] = mig[l]
        BY <2>2
      <3> QED BY <3>1, <3>2, ServedKept
    <2> QED BY <2>1, <2>2
  <1>4. \A d \in Disconnects : disc[d].pc = "idle" => disc[d].peer = "none"
    BY DEF MovingInv
  <1> QED BY <1>1, <1>2, <1>3, <1>4 DEF MovingInv, Moving, Disconnected
-----------------------------------------------------------------------------

\* What SetsOK and Served say of a migration whose frame has these fields.
Sets(m, pc, todo, x, moved, errors, warned) ==
  /\ \A p \in todo \cup moved \cup errors : Leaves(m, p)
  /\ todo \cap moved = {} /\ todo \cap errors = {}
  /\ moved \cap errors = {} /\ warned \subseteq moved
  /\ pc \in InHand => Leaves(m, x) /\ x \notin todo \cup moved \cup errors
  /\ pc \notin InHand => x = "none"
  /\ pc = "idle" => todo \cup moved \cup errors = {}

Stage(m, p, pc, todo, x, i, moved, errors, warned) ==
  LET t == Route[m].target IN
  /\ p \in todo \/ (p = x /\ pc \in {"check", "update"}) => peers[p].node = Home[p]
  /\ p = x /\ pc \in {"getTarget", "add"} => peers[p].node = t /\ peers[p].ip = i
  /\ p \in moved \/ (p = x /\ pc \in {"getSource", "remove"}) =>
        peers[p].node = t /\ wg[t][p] = peers[p].ip
  /\ peers[p].node = t =>
        /\ \/ p \in errors \cup moved
           \/ p = x /\ pc \in {"getTarget", "add", "getSource", "remove"}
        /\ p \in errors \/ (p = x /\ pc \in {"getTarget", "add"}) =>
              wg[Home[p]][p] \in Addresses
  /\ p \in moved \ warned => wg[Home[p]][p] = Absent

\* Where the peers of a migration stand.
LEMMA StageHolds ==
  ASSUME MovingInv, Moving, NEW m \in Migrations, NEW p \in Peers \ Disconnected,
         Leaves(m, p)
  PROVE  LET f == mig[m]
         IN  Stage(m, p, f.pc, f.todo, f.peer, f.ip, f.moved, f.errors, f.warned)
  <1> DEFINE f == mig[m]
             t == Route[m].target
  <1>1. Served(p) /\ p \in Peers /\ SetsOK(m)
    BY DEF MovingInv
  <1>2. /\ p \in f.todo \/ (p = f.peer /\ f.pc \in {"check", "update"}) =>
              peers[p].node = Home[p]
        /\ p = f.peer /\ f.pc \in {"getTarget", "add"} =>
              peers[p].node = t /\ peers[p].ip = f.ip
        /\ p \in f.moved \/ (p = f.peer /\ f.pc \in {"getSource", "remove"}) =>
              peers[p].node = t
    BY <1>1 DEF Served, Before, After
  <1>3. peers[p].node = t =>
           /\ \/ p \in f.errors \cup f.moved
              \/ p = f.peer /\ f.pc \in {"getTarget", "add", "getSource", "remove"}
           /\ p \in f.errors \/ (p = f.peer /\ f.pc \in {"getTarget", "add"}) =>
                 wg[Home[p]][p] \in Addresses
           /\ p \in f.moved \/ (p = f.peer /\ f.pc \in {"getSource", "remove"}) =>
                 wg[t][p] = peers[p].ip
           /\ p \in f.moved \ f.warned => wg[Home[p]][p] = Absent
    BY <1>1 DEF Served, Half, After
  <1> HIDE DEF f, t
  <1> QED BY <1>2, <1>3 DEF Stage, f, t

\* A migration that goes on as it should keeps the invariant.
LEMMA MovingBecomes ==
  ASSUME MovingInv, NEW m \in Migrations, UNCHANGED <<scene, disc, wg, peers>>,
         \A b \in Callers : b # m => call'[b] = call[b],
         NEW pc, NEW todo, NEW x, NEW i, NEW moved, NEW errors, NEW warned,
         MigBecomes(m, pc, todo, x, i, moved, errors, warned),
         Sets(m, pc, todo, x, moved, errors, warned), Reserved(m)', Effect(m)',
         \A p \in Peers \ Disconnected : Leaves(m, p) /\ Moving =>
            Stage(m, p, pc, todo, x, i, moved, errors, warned)
  PROVE  MovingInv'
  <1>1. \A l \in Migrations : l # m => mig'[l] = mig[l] /\ call'[l] = call[l]
    BY ScenesAssumption DEF MigBecomes
  <1>2. SetsOK(m)'
    BY DEF MigBecomes, Sets, SetsOK, Leaves
  <1>3. ASSUME Moving, NEW p \in Peers \ Disconnected, Leaves(m, p)
        PROVE  Served(p)'
    <2>1. Served(p) /\ Stage(m, p, pc, todo, x, i, moved, errors, warned)
      BY <1>3 DEF MovingInv
    <2>2. /\ mig'[m].pc = pc /\ mig'[m].todo = todo /\ mig'[m].peer = x
          /\ mig'[m].ip = i /\ mig'[m].moved = moved /\ mig'[m].errors = errors
          /\ mig'[m].warned = warned
      BY DEF MigBecomes
    <2>3. Before(m, p)' => peers[p].node = Home[p]
      BY <2>1, <2>2 DEF Before, Stage
    <2>4. p = mig'[m].peer /\ mig'[m].pc \in {"getTarget", "add"} =>
             peers[p].node = Route[m].target /\ peers[p].ip = mig'[m].ip
      BY <2>1, <2>2 DEF Stage
    <2>5. After(m, p)' => /\ peers[p].node = Route[m].target
                          /\ wg[Route[m].target][p] = peers[p].ip
      BY <2>1, <2>2 DEF After, Stage
    <2>6. peers[p].node = Route[m].target => Half(m, p)' \/ After(m, p)'
      BY <2>1, <2>2 DEF After, Half, Stage
    <2>7. Half(m, p)' /\ peers[p].node = Route[m].target => wg[Home[p]][p] \in Addresses
      BY <2>1, <2>2 DEF Half, Stage
    <2>8. p \in mig'[m].moved \ mig'[m].warned => wg[Home[p]][p] = Absent
      BY <2>1, <2>2 DEF Stage
    <2> QED BY <1>1, <1>3, <2>1, <2>3, <2>4, <2>5, <2>6, <2>7, <2>8, ServedMoves
  <1> QED BY <1>1, <1>2, <1>3, MovingKept
-----------------------------------------------------------------------------

\* A peer that cannot be migrated is logged, and stays where it is served.
LEMMA MigrationFails ==
  ASSUME Core, MovingInv, NEW m \in Migrations,
         UNCHANGED <<scene, disc, wg, peers>>,
         \A b \in Callers : b # m => call'[b] = call[b],
         mig[m].pc \in {"check", "update", "getTarget", "add"},
         MigrationError(m, mig[m].peer)
  PROVE  MovingInv'
  <1> DEFINE f == mig[m]
             t == Route[m].target
  <1>0. /\ mig \in [Migrations -> Mig] /\ f \in Mig /\ f.peer \in Peers
        /\ peers \in [Peers -> PeerRow \cup {NoPeer}]
        /\ f.pc \in {"check", "update", "getTarget", "add"}
    BY DEF Core, TypeOK, FramesOK, MigOK, InHand
  <1>1. Sets(m, f.pc, f.todo, f.peer, f.moved, f.errors, f.warned)
    BY DEF MovingInv, SetsOK, Sets
  <1>2. MigBecomes(m, "next", f.todo, "none", NoAddress, f.moved,
                   f.errors \cup {f.peer}, f.warned)
    BY <1>0, MigFields
  <1>3. Sets(m, "next", f.todo, "none", f.moved, f.errors \cup {f.peer}, f.warned)
    BY <1>0, <1>1 DEF Sets, InHand
  <1>4. ASSUME NEW p \in Peers \ Disconnected, Leaves(m, p), Moving
        PROVE  Stage(m, p, "next", f.todo, "none", NoAddress, f.moved,
                     f.errors \cup {f.peer}, f.warned)
    <2>1. peers[p].node = Home[p] => peers[p].node # t
      BY <1>4, RoutesApart
    <2>2. Stage(m, p, f.pc, f.todo, f.peer, f.ip, f.moved, f.errors, f.warned)
      BY <1>4, StageHolds
    <2> QED BY <1>0, <1>1, <1>4, <2>1, <2>2 DEF Stage, Sets, InHand
  <1>5. Reserved(m)' /\ Effect(m)'
    BY <1>2 DEF MigBecomes, Reserved, Effect
  <1> QED BY <1>2, <1>3, <1>4, <1>5, MovingBecomes
-----------------------------------------------------------------------------

\* The steps of a migration but UpdateNode: rows and interfaces stay, and each
\* peer is listed once, where it stands.
LEMMA MigrationMoves ==
  ASSUME Core, MovingInv, NEW m \in Migrations, MigrationMove(m), ~ UpdateNode(m)
  PROVE  MovingInv'
  <1> DEFINE f == mig[m]
             t == Route[m].target
  <1>0. /\ m \in Callers /\ m \notin Disconnects /\ m \notin Syncs
        /\ call \in [Callers -> Frame]
        /\ mig \in [Migrations -> Mig] /\ f \in Mig
        /\ MigOK(m) /\ Route[m].source \in Nodes /\ t \in Nodes
        /\ peers \in [Peers -> PeerRow \cup {NoPeer}]
        /\ UNCHANGED <<scene, disc, wg, peers>>
        /\ \A b \in Callers : b # m => call'[b] = call[b]
    <2>1. UNCHANGED <<scene, disc, wg, peers>>
      BY MigrationTouches DEF Core
    <2>2. m \in Callers /\ m \notin Disconnects /\ m \notin Syncs
      BY ScenesAssumption
    <2>3. \A b \in Callers : b # m => call'[b] = call[b]
      BY <2>2, MovesAreQuiet DEF Quiet
    <2> QED BY <2>1, <2>2, <2>3, RotationAssumption
            DEF Core, TypeOK, CallsTypeOK, FramesOK
  <1>1. /\ Sets(m, f.pc, f.todo, f.peer, f.moved, f.errors, f.warned)
        /\ Reserved(m) /\ Effect(m)
    BY DEF MovingInv, SetsOK, Sets
  <1>2. \A p \in Peers \ Disconnected : Leaves(m, p) /\ Moving =>
           Stage(m, p, f.pc, f.todo, f.peer, f.ip, f.moved, f.errors, f.warned)
    BY StageHolds
  <1>3. ASSUME NEW p \in Peers \ Disconnected, Leaves(m, p), Moving,
               peers[p].node = Home[p]
        PROVE  peers[p].node # t /\ wg[Home[p]][p] = peers[p].ip /\ peers[p].ip \in Addresses
    <2>1. Served(p) /\ p \in Peers
      BY <1>3 DEF MovingInv
    <2>2. Present(p) /\ peers[p] \in PeerRow
      BY <1>0, <1>3, RoutesApart DEF Present, NoPeer
    <2> QED BY <1>3, <2>1, <2>2, RoutesApart DEF Served, PeerRow
  <1>4. ASSUME NEW pc, NEW todo, NEW x, NEW i, NEW moved, NEW errors, NEW warned,
               MigBecomes(m, pc, todo, x, i, moved, errors, warned),
               pc \notin {"add", "remove"}
        PROVE  Effect(m)'
    BY <1>4 DEF MigBecomes, Effect
  <1>5. ASSUME NEW pc, NEW todo, NEW x, NEW i, NEW moved, NEW errors, NEW warned,
               MigBecomes(m, pc, todo, x, i, moved, errors, warned),
               pc \notin {"check", "update", "getTarget", "add"}
        PROVE  Reserved(m)'
    BY <1>5 DEF MigBecomes, Reserved
  <1>6. CASE MigratePeersFromNode(m)
    <2>0. /\ m \in scene /\ f.pc = "idle"
          /\ GetActiveByNode(Route[m].source) \subseteq Peers
          /\ f.peer = "none" /\ f.todo = {} /\ f.moved = {} /\ f.errors = {} /\ f.warned = {}
      BY <1>1, <1>6 DEF MigratePeersFromNode, GetActiveByNode, Sets, InHand
    <2>1. PICK pc \in {"ok", "capacity", "failed"},
               todo \in {{}, GetActiveByNode(Route[m].source)} :
             MigBecomes(m, pc, todo, "none", f.ip, {}, {}, {})
      <3>1. CASE MigGoto(m, "failed")
        BY <1>0, <2>0, <3>1, MigFields
      <3>2. CASE ~ MigGoto(m, "failed")
        <4> DEFINE found == GetActiveByNode(Route[m].source)
        <4>1. PICK pc \in {"ok", "capacity"} :
                 mig' = [mig EXCEPT ![m].todo = found, ![m].pc = pc]
          BY <1>6, <3>2 DEF MigratePeersFromNode
        <4>2. MigBecomes(m, pc, found, f.peer, f.ip, f.moved, f.errors, f.warned)
          BY <1>0, <2>0, <4>1, MigFields
        <4> QED BY <2>0, <4>2
      <3> QED BY <3>1, <3>2
    <2>2. \A p \in todo : p \in Peers /\ Leaves(m, p) /\ peers[p].node = Home[p]
      <3> SUFFICES ASSUME NEW p \in Peers, peers[p].node = Route[m].source
                   PROVE  Leaves(m, p) /\ peers[p].node = Home[p]
        BY DEF GetActiveByNode
      <3>1. Present(p) /\ PlaceOK(p)
        BY <1>0, RoutesApart DEF Present, NoPeer, MovingInv
      <3> QED BY <3>1, RoutesApart DEF PlaceOK, Leaves
    <2>3. Sets(m, pc, todo, "none", {}, {}, {})
      BY <2>2 DEF Sets, InHand
    <2>4. ASSUME NEW p \in Peers \ Disconnected, Leaves(m, p), Moving
          PROVE  Stage(m, p, pc, todo, "none", f.ip, {}, {}, {})
      <3>1. peers[p].node # t
        BY <1>2, <2>0, <2>4 DEF Stage
      <3> QED BY <2>2, <2>4, <3>1 DEF Stage
    <2> QED BY <1>0, <1>4, <1>5, <2>1, <2>3, <2>4, MovingBecomes
  <1>7. CASE ValidateNodeCapacity(m) \/ EndMigration(m)
    <2>0. f.pc \in {"capacity", "next"}
      BY <1>7 DEF ValidateNodeCapacity, EndMigration
    <2>1. PICK pc \in {"next", "failed", "ok"} : MigGoto(m, pc)
      BY <1>7 DEF ValidateNodeCapacity, EndMigration
    <2>2. MigBecomes(m, pc, f.todo, f.peer, f.ip, f.moved, f.errors, f.warned)
      BY <1>0, <2>1, MigFields
    <2>3. Sets(m, pc, f.todo, f.peer, f.moved, f.errors, f.warned) /\ f.peer = "none"
      BY <1>1, <2>0 DEF Sets, InHand
    <2>4. ASSUME NEW p \in Peers \ Disconnected, Leaves(m, p), Moving
          PROVE  Stage(m, p, pc, f.todo, f.peer, f.ip, f.moved, f.errors, f.warned)
      BY <1>2, <2>0, <2>4 DEF Stage
    <2> QED BY <1>0, <1>4, <1>5, <2>2, <2>3, <2>4, MovingBecomes
  <1>8. ASSUME f.pc \in {"check", "getTarget", "add"}, MigrationError(m, f.peer)
        PROVE  MovingInv'
    BY <1>0, <1>8, MigrationFails
  <1>9. CASE AllocateClientIP(m)
    <2> DEFINE j == FindNextAvailableIP(subnets[t], AllocatedIPs(t))
    <2>0. f.pc = "next" /\ f.peer = "none"
      BY <1>1, <1>9 DEF AllocateClientIP, Sets, InHand
    <2>1. PICK p \in f.todo :
             \/ /\ subnets[t] # NoSubnet /\ j # NoAddress
                /\ mig' = [mig EXCEPT ![m].pc = "check", ![m].todo = f.todo \ {p},
                                      ![m].peer = p, ![m].ip = j]
             \/ mig' = [mig EXCEPT ![m].todo = f.todo \ {p}, ![m].errors = @ \cup {p}]
      BY <1>9 DEF AllocateClientIP
    <2>2. p \in Peers /\ f.todo \ {p} \in SUBSET Peers
      BY <1>0 DEF Mig
    <2>3. CASE /\ subnets[t] # NoSubnet /\ j # NoAddress
               /\ mig' = [mig EXCEPT ![m].pc = "check", ![m].todo = f.todo \ {p},
                                     ![m].peer = p, ![m].ip = j]
      <3>1. Generated(subnets[t])
        BY <1>0, <2>3 DEF Core, TablesInv, SubnetsOK
      <3>2. j \in (subnets[t].start .. subnets[t].end) \ AllocatedIPs(t)
        BY <2>3, <3>1, NextAddress
      <3>3. j \in Addresses
        BY <3>1, <3>2, SubnetShape
      <3>4. \A q \in Peers : Present(q) /\ peers[q].node = t => peers[q].ip # j
        BY <3>2 DEF AllocatedIPs
      <3> HIDE DEF j
      <3>5. MigBecomes(m, "check", f.todo \ {p}, p, j, f.moved, f.errors, f.warned)
        BY <1>0, <2>2, <2>3, <3>3, MigFields
      <3>6. Sets(m, "check", f.todo \ {p}, p, f.moved, f.errors, f.warned)
        BY <1>1, <2>1 DEF Sets, InHand
      <3>7. ASSUME NEW q \in Peers \ Disconnected, Leaves(m, q), Moving
            PROVE  Stage(m, q, "check", f.todo \ {p}, p, j, f.moved, f.errors, f.warned)
        BY <1>1, <1>2, <2>0, <2>1, <3>7 DEF Stage, Sets
      <3>8. Reserved(m)'
        BY <1>0, <3>4, <3>5 DEF MigBecomes, Reserved, Present
      <3>9. Effect(m)'
        BY <1>4, <3>5
      <3> QED BY <1>0, <3>5, <3>6, <3>7, <3>8, <3>9, MovingBecomes
    <2>4. CASE mig' = [mig EXCEPT ![m].todo = f.todo \ {p}, ![m].errors = @ \cup {p}]
      <3>1. MigBecomes(m, "next", f.todo \ {p}, "none", f.ip, f.moved,
                       f.errors \cup {p}, f.warned)
        <4>1. MigBecomes(m, f.pc, f.todo \ {p}, f.peer, f.ip, f.moved,
                         f.errors \cup {p}, f.warned)
          BY <1>0, <2>2, <2>4, MigFields, Zenon
        <4> QED BY <2>0, <4>1
      <3>2. Sets(m, "next", f.todo \ {p}, "none", f.moved, f.errors \cup {p}, f.warned)
        BY <1>1, <2>0, <2>1 DEF Sets, InHand
      <3>3. ASSUME NEW q \in Peers \ Disconnected, Leaves(m, q), Moving
            PROVE  Stage(m, q, "next", f.todo \ {p}, "none", f.ip, f.moved,
                         f.errors \cup {p}, f.warned)
        <4>1. peers[q].node = Home[q] => peers[q].node # t
          BY <1>3, <3>3
        <4> QED BY <1>1, <1>2, <2>0, <2>1, <3>3, <4>1 DEF Stage, Sets
      <3>4. Reserved(m)' /\ Effect(m)'
        BY <1>4, <1>5, <3>1
      <3> QED BY <1>0, <3>1, <3>2, <3>3, <3>4, MovingBecomes
    <2> QED BY <2>1, <2>3, <2>4
  <1>10. CASE CheckIPConflict(m)
    <2>0. f.pc = "check"
      BY <1>10 DEF CheckIPConflict
    <2>1. CASE MigrationError(m, f.peer)
      BY <1>8, <2>0, <2>1
    <2>2. CASE MigGoto(m, "update")
      <3>1. MigBecomes(m, "update", f.todo, f.peer, f.ip, f.moved, f.errors, f.warned)
        BY <1>0, <2>2, MigFields
      <3>2. Sets(m, "update", f.todo, f.peer, f.moved, f.errors, f.warned)
        BY <1>1, <2>0 DEF Sets, InHand
      <3>3. ASSUME NEW q \in Peers \ Disconnected, Leaves(m, q), Moving
            PROVE  Stage(m, q, "update", f.todo, f.peer, f.ip, f.moved, f.errors, f.warned)
        BY <1>2, <2>0, <3>3 DEF Stage
      <3>4. Reserved(m)'
        BY <1>0, <1>1, <2>0, <3>1 DEF MigBecomes, Reserved, Present, Only
      <3>5. Effect(m)'
        BY <1>4, <3>1
      <3> QED BY <1>0, <3>1, <3>2, <3>3, <3>4, <3>5, MovingBecomes
    <2> QED BY <1>10, <2>1, <2>2 DEF CheckIPConflict
  <1>11. CASE AddToTarget(m)
    <2>0. f.pc = "getTarget" /\ f.peer \in Peers /\ f.ip \in Addresses
      BY <1>0, <1>11 DEF AddToTarget, MigOK, InHand
    <2>1. CASE MigrationError(m, f.peer)
      BY <1>8, <2>0, <2>1
    <2>2. CASE AddPeer(m, t, f.peer, f.ip) /\ MigGoto(m, "add")
      <3>1. MigBecomes(m, "add", f.todo, f.peer, f.ip, f.moved, f.errors, f.warned)
        BY <1>0, <2>2, MigFields
      <3>2. Sets(m, "add", f.todo, f.peer, f.moved, f.errors, f.warned)
        BY <1>1, <2>0 DEF Sets, InHand
      <3>3. ASSUME NEW q \in Peers \ Disconnected, Leaves(m, q), Moving
            PROVE  Stage(m, q, "add", f.todo, f.peer, f.ip, f.moved, f.errors, f.warned)
        BY <1>2, <2>0, <3>3 DEF Stage
      <3>4. Reserved(m)'
        BY <1>0, <1>1, <2>0, <3>1 DEF MigBecomes, Reserved, Present
      <3>5. Effect(m)'
        <4>1. call'[m].pc = "list"
          BY <1>0, <2>0, <2>2, CallBegins
        <4> QED BY <3>1, <4>1 DEF MigBecomes, Effect
      <3> QED BY <1>0, <3>1, <3>2, <3>3, <3>4, <3>5, MovingBecomes
    <2> QED BY <1>11, <2>1, <2>2 DEF AddToTarget
  <1>12. CASE AddReturned(m)
    <2>0. /\ f.pc = "add" /\ f.peer \in Peers
          /\ \/ call[m].pc = "ok" /\ MigGoto(m, "getSource")
             \/ MigrationError(m, f.peer)
      BY <1>0, <1>12 DEF AddReturned, MigOK, InHand
    <2>1. CASE MigrationError(m, f.peer)
      BY <1>8, <2>0, <2>1
    <2>2. CASE call[m].pc = "ok" /\ MigGoto(m, "getSource")
      <3>1. MigBecomes(m, "getSource", f.todo, f.peer, f.ip, f.moved, f.errors, f.warned)
        BY <1>0, <2>2, MigFields
      <3>2. Sets(m, "getSource", f.todo, f.peer, f.moved, f.errors, f.warned)
        BY <1>1, <2>0 DEF Sets, InHand
      <3>3. ASSUME NEW q \in Peers \ Disconnected, Leaves(m, q), Moving
            PROVE  Stage(m, q, "getSource", f.todo, f.peer, f.ip, f.moved, f.errors, f.warned)
        <4>1. q = f.peer => wg[t][q] = f.ip
          BY <1>1, <2>0, <2>2, <3>3 DEF Effect
        <4>2. q = f.peer => q \notin f.errors
          BY <1>1, <2>0 DEF Sets, InHand
        <4> QED BY <1>2, <2>0, <3>3, <4>1, <4>2 DEF Stage
      <3>4. Reserved(m)' /\ Effect(m)'
        BY <1>4, <1>5, <3>1
      <3> QED BY <1>0, <3>1, <3>2, <3>3, <3>4, MovingBecomes
    <2> QED BY <2>0, <2>1, <2>2
  <1>13. ASSUME NEW w \in SUBSET {f.peer}, f.pc \in {"getSource", "remove"},
                MigrationDone(m, w),
                f.peer \notin Disconnected /\ w = {} => wg[Route[m].source][f.peer] = Absent
         PROVE  MovingInv'
    <2>0. f.peer \in Peers /\ w \in SUBSET Peers
      BY <1>0, <1>13 DEF MigOK, InHand
    <2>1. MigBecomes(m, "next", f.todo, "none", NoAddress, f.moved \cup {f.peer},
                     f.errors, f.warned \cup w)
      BY <1>0, <1>13, <2>0, MigFields
    <2>2. Sets(m, "next", f.todo, "none", f.moved \cup {f.peer}, f.errors, f.warned \cup w)
      BY <1>1, <1>13 DEF Sets, InHand
    <2>3. ASSUME NEW q \in Peers \ Disconnected, Leaves(m, q), Moving
          PROVE  Stage(m, q, "next", f.todo, "none", NoAddress, f.moved \cup {f.peer},
                       f.errors, f.warned \cup w)
      <3>1. q = f.peer /\ q \notin w => wg[Home[q]][q] = Absent
        BY <1>13, <2>3 DEF Leaves
      <3>2. q = f.peer => q \notin f.errors
        BY <1>1, <1>13 DEF Sets, InHand
      <3> QED BY <1>2, <1>13, <2>3, <3>1, <3>2 DEF Stage
    <2>4. Reserved(m)' /\ Effect(m)'
      BY <1>4, <1>5, <2>1
    <2> QED BY <1>0, <2>1, <2>2, <2>3, <2>4, MovingBecomes
  <1>14. CASE RemoveFromSource(m)
    <2>0. f.pc = "getSource" /\ f.peer \in Peers
      BY <1>0, <1>14 DEF RemoveFromSource, MigOK, InHand
    <2>1. CASE MigrationDone(m, {f.peer})
      BY <1>13, <2>0, <2>1
    <2>2. CASE RemovePeer(m, Route[m].source, f.peer) /\ MigGoto(m, "remove")
      <3>1. MigBecomes(m, "remove", f.todo, f.peer, f.ip, f.moved, f.errors, f.warned)
        BY <1>0, <2>2, MigFields
      <3>2. Sets(m, "remove", f.todo, f.peer, f.moved, f.errors, f.warned)
        BY <1>1, <2>0 DEF Sets, InHand
      <3>3. ASSUME NEW q \in Peers \ Disconnected, Leaves(m, q), Moving
            PROVE  Stage(m, q, "remove", f.todo, f.peer, f.ip, f.moved, f.errors, f.warned)
        BY <1>2, <2>0, <3>3 DEF Stage
      <3>4. Reserved(m)'
        BY <1>5, <3>1
      <3>5. Effect(m)'
        <4>1. call'[m].pc = "look"
          BY <1>0, <2>0, <2>2, CallBegins
        <4> QED BY <3>1, <4>1 DEF MigBecomes, Effect
      <3> QED BY <1>0, <3>1, <3>2, <3>3, <3>4, <3>5, MovingBecomes
    <2> QED BY <1>14, <2>1, <2>2 DEF RemoveFromSource
  <1>15. CASE RemoveReturned(m)
    <2>0. f.pc = "remove"
          /\ MigrationDone(m, IF call[m].pc = "ok" THEN {} ELSE {f.peer})
      BY <1>15 DEF RemoveReturned
    <2>1. CASE call[m].pc = "ok"
      <3>1. f.peer \notin Disconnected => wg[Route[m].source][f.peer] = Absent
        BY <1>1, <2>0, <2>1 DEF Effect
      <3> QED BY <1>13, <2>0, <2>1, <3>1
    <2>2. CASE call[m].pc # "ok"
      BY <1>13, <2>0, <2>2
    <2> QED BY <2>1, <2>2
  <1> QED BY <1>6, <1>7, <1>9, <1>10, <1>11, <1>12, <1>14, <1>15
          DEF MigrationMove, MigrationStep

\* With a disconnection about, a migration is the only one to its target.
LEMMA DisconnectionsAlone ==
  ASSUME Apart, Core, MovingInv, NEW m \in Migrations, mig[m].pc # "idle",
         mig[m].peer \in Disconnected, mig[m].peer # "none"
  PROVE  Only(m)
  <1>1. PICK d \in Disconnects : disc[d].peer = mig[m].peer
    BY DEF Disconnected
  <1>2. d \in scene /\ m \in scene /\ scene \in Scenes
    BY <1>1 DEF MovingInv, Core, TypeOK, FramesOK, MigOK, DiscOK
  <1> QED BY <1>2 DEF Apart, Only

\* A started migration or disconnection is not among synchronisations.
LEMMA MovingScene ==
  ASSUME Core, NEW m \in Migrations, mig[m].pc # "idle"
  PROVE  m \in scene /\ Moving
  <1>1. m \in scene /\ scene \in Scenes
    BY DEF Core, TypeOK, FramesOK, MigOK
  <1> QED BY <1>1, ScenesAssumption DEF Moving

\* UpdatePeerNode takes the row to the target, with an address no other row
\* of the target has, while the old node goes on serving the peer.
LEMMA UpdateMoves ==
  ASSUME Apart, Core, MovingInv, NEW m \in Migrations, UpdateNode(m)
  PROVE  MovingInv'
  <1> DEFINE f == mig[m]
             x == f.peer
             t == Route[m].target
  <1>0. /\ mig \in [Migrations -> Mig] /\ f \in Mig /\ x \in Peers /\ f.ip \in Addresses
        /\ peers \in [Peers -> PeerRow \cup {NoPeer}]
        /\ f.pc = "update" /\ UNCHANGED <<scene, disc, wg, call>>
        /\ t \in Nodes /\ m \in scene /\ Moving
    BY MovingScene, RoutesApart DEF Core, TypeOK, FramesOK, MigOK, InHand, UpdateNode
  <1>1. /\ Sets(m, f.pc, f.todo, x, f.moved, f.errors, f.warned)
        /\ Leaves(m, x) /\ Reserved(m)
    BY <1>0 DEF MovingInv, SetsOK, Sets, InHand
  <1>2. CASE MigrationError(m, x) /\ UNCHANGED peers
    BY <1>0, <1>2, MigrationFails
  <1>3. CASE /\ ~ (Present(x) /\ IPTaken(f.ip))
             /\ peers' = Moved(x, [peers[x] EXCEPT !.node = t, !.ip = f.ip])
             /\ MigGoto(m, "getTarget")
    <2>0. MigBecomes(m, "getTarget", f.todo, x, f.ip, f.moved, f.errors, f.warned)
      BY <1>0, <1>3, MigFields
    <2>1. /\ \A q \in Peers : q # x => peers'[q] = peers[q]
          /\ ~ Present(x) => peers'[x] = peers[x]
          /\ Present(x) => /\ peers'[x] \in PeerRow /\ peers'[x].node = t
                           /\ peers'[x].ip = f.ip
                           /\ \A q \in Peers : peers[q].ip # f.ip
      <3>1. CASE ~ Present(x)
        BY <1>3, <3>1 DEF Moved
      <3>2. CASE Present(x)
        <4> DEFINE row == [peers[x] EXCEPT !.node = t, !.ip = f.ip]
        <4>1. peers[x] \in PeerRow
          BY <1>0, <3>2 DEF Present
        <4>2. row \in PeerRow /\ row.node = t /\ row.ip = f.ip
          BY <1>0, <4>1 DEF PeerRow
        <4>3. peers' = [peers EXCEPT ![x] = row]
          BY <1>3, <3>2 DEF Moved
        <4> HIDE DEF row, f, t
        <4> QED BY <1>0, <1>3, <3>2, <4>2, <4>3 DEF IPTaken
      <3> QED BY <3>1, <3>2
    <2>2. x \notin Disconnected =>
             /\ Present(x) /\ wg[Home[x]][x] = peers[x].ip /\ peers[x].ip \in Addresses
             /\ \A n \in Nodes \ {Home[x]} : wg[n][x] = Absent
      <3> SUFFICES ASSUME x \notin Disconnected
                   PROVE  /\ Present(x) /\ wg[Home[x]][x] = peers[x].ip
                          /\ peers[x].ip \in Addresses
                          /\ \A n \in Nodes \ {Home[x]} : wg[n][x] = Absent
        OBVIOUS
      <3>1. Served(x)
        BY <1>0 DEF MovingInv
      <3>2. peers[x].node = Home[x]
        BY <1>0, <1>1, <3>1 DEF Served, Before
      <3>3. Present(x) /\ peers[x] \in PeerRow
        BY <1>0, <3>2, RoutesApart DEF Present, NoPeer
      <3> QED BY <3>1, <3>2, <3>3 DEF Served, PeerRow
    <2>3. ASSUME NEW p \in Peers PROVE PlaceOK(p)'
      <3>1. CASE p = x /\ Present(x)
        BY <1>0, <1>1, <2>1, <3>1 DEF PlaceOK, Leaves
      <3>2. CASE ~ (p = x /\ Present(x))
        BY <1>0, <2>1, <3>2 DEF MovingInv, PlaceOK, Present, Leaves
      <3> QED BY <3>1, <3>2
    <2>4. ASSUME NEW l \in Migrations PROVE SetsOK(l)'
      <3>1. l # m => mig'[l] = mig[l] /\ SetsOK(l)
        BY <2>0 DEF MigBecomes, MovingInv
      <3>2. CASE l # m
        BY <3>1, <3>2 DEF SetsOK, Leaves
      <3>3. CASE l = m
        BY <1>0, <1>1, <2>0, <3>3 DEF MigBecomes, Sets, SetsOK, Leaves, InHand
      <3> QED BY <3>2, <3>3
    <2>5. ASSUME NEW l \in Migrations PROVE Effect(l)'
      <3>1. CASE l = m
        BY <2>0, <3>1 DEF MigBecomes, Effect
      <3>2. CASE l # m
        <4>1. mig'[l] = mig[l] /\ Effect(l)
          BY <2>0, <3>2 DEF MigBecomes, MovingInv
        <4> QED BY <1>0, <4>1 DEF Effect, Disconnected
      <3> QED BY <3>1, <3>2
    <2>6. Reserved(m)'
      <3>1. CASE Present(x)
        BY <2>0, <2>1, <3>1 DEF MigBecomes, Reserved, Present
      <3>2. CASE ~ Present(x)
        <4>1. Only(m)
          BY <1>0, <2>2, <3>2, DisconnectionsAlone, RoutesApart
        <4> QED BY <1>0, <1>1, <2>0, <2>1, <3>2, <4>1 DEF MigBecomes, Reserved, Present
      <3> QED BY <3>1, <3>2
    <2>7. ASSUME NEW l \in Migrations, l # m PROVE Reserved(l)'
      <3> DEFINE h == mig[l]
      <3>1. mig'[l] = h /\ Reserved(l) /\ SetsOK(l)
        BY <2>0, <2>7 DEF MigBecomes, MovingInv
      <3>5. CASE Route[l].target # t
        <4>1. \A q \in Peers : Present(q)' /\ peers'[q].node = Route[l].target =>
                               peers'[q] = peers[q]
          BY <1>0, <2>1, <3>5
        <4>2. Only(l)' = Only(l)
          BY <1>0 DEF Only
        <4> QED BY <3>1, <4>1, <4>2 DEF Reserved, Present
      <3> SUFFICES ASSUME Route[l].target = t PROVE Reserved(l)'
        BY <3>5
      <3>2. ~ Only(l) /\ ~ Only(l)'
        BY <1>0, <2>7 DEF Only
      <3>3. CASE h.pc \notin {"getTarget", "add"}
        BY <3>1, <3>2, <3>3 DEF Reserved
      <3>4. CASE h.pc \in {"getTarget", "add"}
        <4>1. h.peer \in Peers /\ Leaves(l, h.peer) /\ h.pc # "idle"
          BY <3>1, <3>4 DEF SetsOK, InHand, Core, FramesOK, MigOK
        <4>2. h.peer \notin Disconnected
          BY <3>2, <4>1, DisconnectionsAlone, RoutesApart
        <4>3. Served(h.peer)
          BY <1>0, <4>1, <4>2 DEF MovingInv
        <4>4. peers[h.peer].ip = h.ip
          BY <3>4, <4>1, <4>3 DEF Served
        <4>5. Present(x) => f.ip # h.ip
          BY <2>1, <4>1, <4>4
        <4> QED BY <1>0, <2>1, <3>1, <3>4, <4>5 DEF Reserved, Present
      <3> QED BY <3>3, <3>4
    <2>8. ASSUME NEW q \in Peers \ Disconnected PROVE Served(q)'
      <3>0. Served(q) /\ q \in Peers
        BY <1>0, <2>8 DEF MovingInv
      <3>1. CASE ~ Leaves(m, q)
        <4>1. peers'[q] = peers[q]
          BY <1>1, <2>1, <3>1
        <4>2. \A l \in Migrations : Leaves(l, q) => mig'[l] = mig[l]
          BY <2>0, <3>1 DEF MigBecomes
        <4> QED BY <1>0, <3>0, <4>1, <4>2, ServedKept
      <3>2. CASE Leaves(m, q) /\ q # x
        <4>1. Stage(m, q, f.pc, f.todo, x, f.ip, f.moved, f.errors, f.warned)
          BY <1>0, <2>8, <3>2, StageHolds
        <4>2. Before(m, q)' => peers[q].node = Home[q]
          BY <2>0, <3>2, <4>1 DEF MigBecomes, Before, Stage
        <4>3. After(m, q)' => peers[q].node = t /\ wg[t][q] = peers[q].ip
          BY <2>0, <3>2, <4>1 DEF MigBecomes, After, Stage
        <4>4. peers[q].node = t => Half(m, q)' \/ After(m, q)'
          BY <2>0, <3>2, <4>1 DEF MigBecomes, After, Half, Stage
        <4>5. Half(m, q)' /\ peers[q].node = t => wg[Home[q]][q] \in Addresses
          BY <2>0, <3>2, <4>1 DEF MigBecomes, Half, Stage
        <4>6. q \in mig'[m].moved \ mig'[m].warned => wg[Home[q]][q] = Absent
          BY <2>0, <4>1 DEF MigBecomes, Stage
        <4>7. q # mig'[m].peer /\ peers'[q] = peers[q]
              /\ \A l \in Migrations : l # m => mig'[l] = mig[l]
          BY <2>0, <2>1, <3>2, <3>0 DEF MigBecomes
        <4> QED BY <1>0, <3>0, <3>2, <4>2, <4>3, <4>4, <4>5, <4>6, <4>7, ServedMoves
      <3>3. CASE q = x
        <4>1. Present(q)' /\ peers'[q].node = t /\ peers'[q].ip = f.ip
          <5>1. Present(q)
            BY <2>2, <2>8, <3>3
          <5>2. NoPeer.node = NoNode /\ t # NoNode
            BY <1>0, RoutesApart DEF NoPeer
          <5> QED BY <2>1, <3>3, <5>1, <5>2 DEF Present
        <4>2. /\ Half(m, q)' /\ ~ Before(m, q)' /\ ~ After(m, q)'
              /\ q \notin mig'[m].moved
          BY <1>0, <1>1, <2>0, <3>3 DEF MigBecomes, Half, Before, After, Sets, InHand
        <4>3. \A l \in Migrations : Leaves(l, q) => l = m
          BY <1>0, <1>1, <3>3, RoutesApart
        <4>4. t # Home[q] /\ Home[q] \in Nodes
          BY <1>0, <1>1, <3>3, RoutesApart
        <4>5. mig'[m].ip = f.ip
          BY <2>0 DEF MigBecomes
        <4>6. /\ wg'[Home[q]][q] \in Addresses
              /\ \A n \in Nodes \ {Home[q]} : wg'[n][q] = Absent
          <5>1. q \notin Disconnected
            BY <2>8
          <5> QED BY <1>0, <2>2, <3>3, <5>1
        <4>7. ASSUME NEW l \in Migrations, Leaves(l, q), NEW u, u = Route[l].target
              PROVE  /\ Before(l, q)' => peers'[q].node = Home[q]
                     /\ q = mig'[l].peer /\ mig'[l].pc \in {"getTarget", "add"} =>
                           peers'[q].node = u /\ peers'[q].ip = mig'[l].ip
                     /\ After(l, q)' => peers'[q].node = u
                     /\ Half(l, q)' \/ After(l, q)'
                     /\ \A n \in Nodes \ {Home[q], u} : wg'[n][q] = Absent
                     /\ Half(l, q)' => wg'[Home[q]][q] \in Addresses
                     /\ After(l, q)' => wg'[u][q] = peers'[q].ip
                     /\ q \in mig'[l].moved \ mig'[l].warned => wg'[Home[q]][q] = Absent
          <5>1. l = m /\ u = t
            BY <4>3, <4>7
          <5> QED BY <4>1, <4>2, <4>5, <4>6, <5>1
        <4>8. ~ (peers'[q].node = Home[q]) /\ Present(q)'
          BY <4>1, <4>4
        <4>9. Served(q)'
          BY <4>7, <4>8 DEF Served, Leaves
        <4> QED BY <4>9
      <3> QED BY <3>1, <3>2, <3>3
    <2>9. \A d \in Disconnects : disc'[d].pc = "idle" => disc'[d].peer = "none"
      BY <1>0 DEF MovingInv
    <2> QED BY <1>0, <2>3, <2>4, <2>5, <2>6, <2>7, <2>8, <2>9
            DEF MovingInv, Moving, Disconnected
  <1>4. \/ MigrationError(m, x) /\ UNCHANGED peers
        \/ /\ ~ (Present(x) /\ IPTaken(f.ip))
           /\ peers' = Moved(x, [peers[x] EXCEPT !.node = t, !.ip = f.ip])
           /\ MigGoto(m, "getTarget")
    BY DEF UpdateNode
  <1> QED BY <1>2, <1>3, <1>4
-----------------------------------------------------------------------------

\* A disconnection takes away rows of its own peer only.
LEMMA DisconnectMoves ==
  ASSUME Core, MovingInv, NEW d \in Disconnects, DisconnectMove(d)
  PROVE  MovingInv'
  <1> DEFINE f == disc[d]
  <1>0. /\ UNCHANGED <<scene, mig, wg>> /\ d \in Callers
        /\ disc \in [Disconnects -> Disc] /\ f \in Disc /\ DiscOK(d)
        /\ \A m \in Migrations : m \in Callers /\ m # d
        /\ peers \in [Peers -> PeerRow \cup {NoPeer}]
    BY DisconnectTouches, ScenesAssumption DEF Core, TypeOK, FramesOK
  <1>1. \A m \in Migrations : call'[m] = call[m]
    BY <1>0, MovesAreQuiet DEF Quiet
  <1>2. /\ \A e \in Disconnects : e # d => disc'[e] = disc[e]
        /\ disc'[d].pc # "idle"
        /\ f.peer # "none" => disc'[d].peer = f.peer
    <2>1. CASE \E p \in Peers : DisconnectPeer(d, p)
      <3>1. f.pc = "idle" /\ f.peer = "none"
        BY <2>1 DEF DisconnectPeer, MovingInv
      <3> QED BY <1>0, <2>1, <3>1 DEF DisconnectPeer
    <2>2. CASE DisconnectStep(d)
      <3>1. \E pc \in {"remove", "mark", "delete", "done"} : DiscGoto(d, pc)
        BY <2>2 DEF DisconnectStep, RemoveFromNode, RemovedFromNode, MarkRemoving, DeletePeer
      <3> QED BY <1>0, <3>1, DiscGotoFields
    <2> QED BY <2>1, <2>2 DEF DisconnectMove
  <1>3. \A p \in Peers : p \notin Disconnected' => p \notin Disconnected
    BY <1>2, RoutesApart DEF Disconnected
  <1>4. /\ \A q \in Peers : q \notin Disconnected => peers'[q] = peers[q]
        /\ \A q \in Peers : Present(q)' => /\ Present(q)
                                           /\ peers'[q].node = peers[q].node
                                           /\ peers'[q].ip = peers[q].ip
    <2>1. CASE UNCHANGED peers
      BY <2>1 DEF Present
    <2>2. CASE MarkRemoving(d) \/ DeletePeer(d)
      <3>1. f.peer \in Peers /\ f.peer \in Disconnected
        BY <1>0, <2>2 DEF DiscOK, MarkRemoving, DeletePeer, Disconnected
      <3>2. /\ UNCHANGED <<status, subnets>>
            /\ \/ UNCHANGED peers
               \/ Present(f.peer) /\ peers' = [peers EXCEPT ![f.peer].status = "removing"]
               \/ peers' = [peers EXCEPT ![f.peer] = NoPeer]
        BY <2>2 DEF MarkRemoving, DeletePeer
      <3>3. \A q \in Peers : q # f.peer => peers'[q] = peers[q]
        BY <1>0, <3>1, <3>2
      <3> QED BY <3>1, <3>2, <3>3, RowsRemoved
    <2> QED BY <2>1, <2>2, DisconnectTouches DEF Core
  <1>5. ASSUME NEW p \in Peers PROVE PlaceOK(p)'
    BY <1>0, <1>4 DEF MovingInv, PlaceOK, Leaves
  <1>6. ASSUME NEW m \in Migrations PROVE SetsOK(m)' /\ Reserved(m)' /\ Effect(m)'
    <2>1. SetsOK(m) /\ Reserved(m) /\ Effect(m)
      BY DEF MovingInv
    <2>2. SetsOK(m)'
      BY <1>0, <2>1 DEF SetsOK, Leaves
    <2>3. Reserved(m)'
      BY <1>0, <1>4, <2>1 DEF Reserved, Only
    <2>4. mig[m].pc \in {"add", "remove"} =>
             (mig[m].peer \notin Disconnected' => mig[m].peer \notin Disconnected)
      <3>1. mig[m].pc \in {"add", "remove"} => mig[m].peer \in Peers
        BY DEF Core, FramesOK, MigOK, InHand
      <3> QED BY <1>3, <3>1
    <2>5. Effect(m)'
      BY <1>0, <1>1, <2>1, <2>4 DEF Effect
    <2> QED BY <2>2, <2>3, <2>5
  <1>7. ASSUME Moving, NEW q \in Peers, q \notin Disconnected' PROVE Served(q)'
    <2>1. Served(q) /\ peers'[q] = peers[q]
      BY <1>3, <1>4, <1>7 DEF MovingInv
    <2> QED BY <1>0, <2>1, ServedKept
  <1>8. \A e \in Disconnects : disc'[e].pc = "idle" => disc'[e].peer = "none"
    BY <1>2 DEF MovingInv
  <1> QED BY <1>0, <1>5, <1>6, <1>7, <1>8 DEF MovingInv, Moving
-----------------------------------------------------------------------------

\* A command changes its peer's entry, and with "wg set" takes the address
\* from whoever had it.
LEMMA CommandChanges ==
  ASSUME Core, NEW c \in Callers, Answered(c), NEW n \in Nodes, NEW q \in Peers
  PROVE  LET k == call[c] IN
         \/ wg'[n][q] = wg[n][q]
         \/ n = k.node /\ q = k.peer /\ k.pc \in {"set", "unset"}
         \/ /\ n = k.node /\ q # k.peer /\ k.pc = "set"
            /\ wg[n][q] = k.ip /\ wg'[n][q] = NoIP
  <1>1. CallsTypeOK /\ CallOK(c) /\ CallStep(c)
    BY DEF Core, TypeOK, FramesOK, Answered
  <1>2. /\ \A b \in Nodes : b # call[c].node => wg'[b] = wg[b]
        /\ call[c].pc \notin {"set", "unset"} => wg' = wg
        /\ call[c].pc = "set" => wg' = wg \/ HasSet(call[c])
        /\ call[c].pc = "unset" => wg' = wg \/ HasUnset(call[c])
    BY <1>1, CommandEffects
  <1> QED BY <1>2 DEF HasSet, HasUnset

\* What there is to show of a peer whose row has left its node.
LEMMA ServedAway ==
  ASSUME NEW q \in Peers, Present(q)', peers'[q].node # Home[q],
         \A l \in Migrations : Leaves(l, q) => \A u : u = Route[l].target =>
            /\ Before(l, q)' => peers'[q].node = Home[q]
            /\ q = mig'[l].peer /\ mig'[l].pc \in {"getTarget", "add"} =>
                  peers'[q].node = u /\ peers'[q].ip = mig'[l].ip
            /\ After(l, q)' => peers'[q].node = u
            /\ peers'[q].node = u =>
                 /\ Half(l, q)' \/ After(l, q)'
                 /\ \A n \in Nodes \ {Home[q], u} : wg'[n][q] = Absent
                 /\ Half(l, q)' => wg'[Home[q]][q] \in Addresses
                 /\ After(l, q)' => wg'[u][q] = peers'[q].ip
                 /\ q \in mig'[l].moved \ mig'[l].warned => wg'[Home[q]][q] = Absent
  PROVE  Served(q)'
  BY DEF Served, Leaves

\* A migration's own "wg set": the target has the peer, the old node goes on.
LEMMA ServedByBoth ==
  ASSUME Core, MovingInv, Moving, NEW m \in Migrations,
         mig[m].pc = "add", NEW q \in Peers \ Disconnected, q = mig[m].peer,
         UNCHANGED <<peers, mig>>,
         \A n \in Nodes : n # Route[m].target => wg'[n][q] = wg[n][q]
  PROVE  Served(q)'
  <1> DEFINE h == Home[q]
             t == Route[m].target
  <1>1. Served(q) /\ SetsOK(m) /\ q \in Peers
    BY DEF MovingInv
  <1>2. /\ Leaves(m, q) /\ Half(m, q) /\ ~ After(m, q) /\ q \notin mig[m].moved
    BY <1>1 DEF SetsOK, InHand, Half, After
  <1>3. /\ h \in Nodes /\ t \in Nodes /\ h # t /\ t # NoNode
        /\ \A l \in Migrations : Leaves(l, q) => l = m
    BY <1>1, <1>2, RoutesApart
  <1>4. /\ peers[q].node = t /\ peers[q].ip = mig[m].ip
        /\ ~ Before(m, q) /\ wg[h][q] \in Addresses
        /\ \A n \in Nodes \ {h, t} : wg[n][q] = Absent
    <2>1. peers[q].node = t /\ peers[q].ip = mig[m].ip
      BY <1>1, <1>2 DEF Served
    <2>2. ~ Before(m, q)
      BY <1>1, <1>3, <2>1, <1>2 DEF Served
    <2> QED BY <1>1, <1>2, <2>1, <2>2 DEF Served
  <1>5. Present(q) /\ UNCHANGED <<Before(m, q), Half(m, q), After(m, q), Present(q)>>
    BY <1>3, <1>4 DEF Present, NoPeer, Before, Half, After
  <1>6. ASSUME NEW l \in Migrations, Leaves(l, q), NEW u, u = Route[l].target
        PROVE  /\ Before(l, q)' => peers'[q].node = h
               /\ q = mig'[l].peer /\ mig'[l].pc \in {"getTarget", "add"} =>
                     peers'[q].node = u /\ peers'[q].ip = mig'[l].ip
               /\ After(l, q)' => peers'[q].node = u
               /\ peers'[q].node = u =>
                    /\ Half(l, q)' \/ After(l, q)'
                    /\ \A n \in Nodes \ {h, u} : wg'[n][q] = Absent
                    /\ Half(l, q)' => wg'[h][q] \in Addresses
                    /\ After(l, q)' => wg'[u][q] = peers'[q].ip
                    /\ q \in mig'[l].moved \ mig'[l].warned => wg'[h][q] = Absent
    <2>1. l = m /\ u = t
      BY <1>3, <1>6
    <2> QED BY <1>2, <1>3, <1>4, <1>5, <2>1
  <1>7. Present(q)' /\ peers'[q].node # h
    BY <1>3, <1>4, <1>5
  <1> QED BY <1>1, <1>6, <1>7, ServedAway

\* Its own removal: the target has had the peer for long.
LEMMA ServedByTarget ==
  ASSUME Core, MovingInv, Moving, NEW m \in Migrations,
         mig[m].pc = "remove", NEW q \in Peers \ Disconnected, q = mig[m].peer,
         UNCHANGED <<peers, mig>>,
         wg'[Home[q]][q] \in {wg[Home[q]][q], Absent},
         \A n \in Nodes : n # Home[q] => wg'[n][q] = wg[n][q]
  PROVE  Served(q)'
  <1> DEFINE h == Home[q]
             t == Route[m].target
  <1>1. Served(q) /\ SetsOK(m) /\ q \in Peers
    BY DEF MovingInv
  <1>2. /\ Leaves(m, q) /\ After(m, q) /\ ~ Half(m, q) /\ q \notin mig[m].moved
    BY <1>1 DEF SetsOK, InHand, Half, After
  <1>3. /\ h \in Nodes /\ t \in Nodes /\ h # t /\ t # NoNode
        /\ \A l \in Migrations : Leaves(l, q) => l = m
    BY <1>1, <1>2, RoutesApart
  <1>4. /\ peers[q].node = t /\ wg[t][q] = peers[q].ip /\ ~ Before(m, q)
        /\ \A n \in Nodes \ {h, t} : wg[n][q] = Absent
    <2>1. peers[q].node = t
      BY <1>1, <1>2 DEF Served
    <2>2. ~ Before(m, q)
      BY <1>1, <1>2, <1>3, <2>1 DEF Served
    <2> QED BY <1>1, <1>2, <2>1, <2>2 DEF Served
  <1>5. Present(q) /\ UNCHANGED <<Before(m, q), Half(m, q), After(m, q), Present(q)>>
    BY <1>3, <1>4 DEF Present, NoPeer, Before, Half, After
  <1>6. ASSUME NEW l \in Migrations, Leaves(l, q), NEW u, u = Route[l].target
        PROVE  /\ Before(l, q)' => peers'[q].node = h
               /\ q = mig'[l].peer /\ mig'[l].pc \in {"getTarget", "add"} =>
                     peers'[q].node = u /\ peers'[q].ip = mig'[l].ip
               /\ After(l, q)' => peers'[q].node = u
               /\ peers'[q].node = u =>
                    /\ Half(l, q)' \/ After(l, q)'
                    /\ \A n \in Nodes \ {h, u} : wg'[n][q] = Absent
                    /\ Half(l, q)' => wg'[h][q] \in Addresses
                    /\ After(l, q)' => wg'[u][q] = peers'[q].ip
                    /\ q \in mig'[l].moved \ mig'[l].warned => wg'[h][q] = Absent
    <2>1. l = m /\ u = t
      BY <1>3, <1>6
    <2>2. ~ (q = mig'[l].peer /\ mig'[l].pc \in {"getTarget", "add"})
      BY <2>1
    <2> QED BY <1>2, <1>3, <1>4, <1>5, <2>1, <2>2
  <1>7. Present(q)' /\ peers'[q].node # h
    BY <1>3, <1>4, <1>5
  <1> QED BY <1>1, <1>6, <1>7, ServedAway
-----------------------------------------------------------------------------

\* Another migration's "wg set" takes no address a peer is served with.
LEMMA ServedByAll ==
  ASSUME Core, MovingInv, Moving, NEW m \in Migrations, mig[m].pc = "add",
         NEW q \in Peers \ Disconnected, q # mig[m].peer, UNCHANGED <<peers, mig>>,
         \A n \in Nodes : \/ wg'[n][q] = wg[n][q]
                          \/ n = Route[m].target /\ wg[n][q] = mig[m].ip
  PROVE  Served(q)'
  <1> DEFINE h == Home[q]
             t == Route[m].target
             i == mig[m].ip
  <1>1. /\ Served(q) /\ Reserved(m) /\ q \in Peers
        /\ i \in Addresses /\ i # Absent
    BY DEF MovingInv, Core, FramesOK, MigOK, InHand, Addresses, Absent
  <1>2. \A n \in Nodes : wg[n][q] = Absent => wg'[n][q] = Absent
    BY <1>1
  <1>3. \A n \in Nodes : Present(q) /\ peers[q].node = n /\ wg[n][q] = peers[q].ip
                            => wg'[n][q] = wg[n][q]
    BY <1>1 DEF Reserved
  <1>4. \A l \in Migrations : Leaves(l, q) =>
           /\ wg'[h][q] = wg[h][q] /\ h \in Nodes
           /\ Route[l].target \in Nodes /\ Route[l].target # h
    BY <1>1, RoutesApart DEF Leaves
  <1>5. \A l \in Migrations : UNCHANGED <<Before(l, q), Half(l, q), After(l, q), Present(q)>>
    BY DEF Before, Half, After, Present
  <1>6. /\ ~Present(q)' => \A n \in Nodes : wg'[n][q] = Absent
        /\ Present(q)' /\ peers'[q].node = h =>
              /\ wg'[h][q] = peers'[q].ip
              /\ \A n \in Nodes \ {h} : wg'[n][q] = Absent
    BY <1>1, <1>2, <1>3, <1>5, RoutesApart DEF Served, Present
  <1>7. ASSUME NEW l \in Migrations, Leaves(l, q), NEW u, u = Route[l].target
        PROVE  /\ Before(l, q)' => peers'[q].node = h
               /\ q = mig'[l].peer /\ mig'[l].pc \in {"getTarget", "add"} =>
                     peers'[q].node = u /\ peers'[q].ip = mig'[l].ip
               /\ After(l, q)' => peers'[q].node = u
               /\ peers'[q].node = u =>
                    /\ Half(l, q)' \/ After(l, q)'
                    /\ \A n \in Nodes \ {h, u} : wg'[n][q] = Absent
                    /\ Half(l, q)' => wg'[h][q] \in Addresses
                    /\ After(l, q)' => wg'[u][q] = peers'[q].ip
                    /\ q \in mig'[l].moved \ mig'[l].warned => wg'[h][q] = Absent
    <2>1. /\ Before(l, q) => peers[q].node = h
          /\ q = mig[l].peer /\ mig[l].pc \in {"getTarget", "add"} =>
                peers[q].node = u /\ peers[q].ip = mig[l].ip
          /\ After(l, q) => peers[q].node = u
      BY <1>1, <1>7 DEF Served
    <2>2. peers[q].node = u =>
             /\ Half(l, q) \/ After(l, q)
             /\ \A n \in Nodes \ {h, u} : wg[n][q] = Absent
             /\ Half(l, q) => wg[h][q] \in Addresses
             /\ After(l, q) => wg[u][q] = peers[q].ip
             /\ q \in mig[l].moved \ mig[l].warned => wg[h][q] = Absent
      BY <1>1, <1>7 DEF Served
    <2>3. peers[q].node = u => Present(q)
      BY <1>7, RoutesApart DEF Present, NoPeer
    <2>4. peers[q].node = u /\ After(l, q) => wg'[u][q] = peers[q].ip
      BY <1>3, <1>4, <1>7, <2>2, <2>3
    <2> QED BY <1>2, <1>4, <1>5, <1>7, <2>1, <2>2, <2>4
  <1> QED BY <1>6, <1>7 DEF Served, Leaves
-----------------------------------------------------------------------------

\* While an answer is on its way the entry stays as the command left it.
LEMMA CommandEffect ==
  ASSUME Core, MovingInv, NEW m \in Migrations, Answered(m)
  PROVE  Effect(m)'
  <1> DEFINE f == mig[m]
             k == call[m]
             g == call'[m]
             t == Route[m].target
             s == Route[m].source
  <1>0. /\ m \in Callers /\ CallsTypeOK /\ CallOK(m) /\ CallStep(m)
        /\ MigOK(m) /\ Effect(m) /\ UNCHANGED <<mig, disc>> /\ t \in Nodes /\ s \in Nodes
    BY ScenesAssumption, RotationAssumption
       DEF Core, TypeOK, FramesOK, Answered, frames, MovingInv
  <1>1. Follows(k, g) /\ k \in Frame
    BY <1>0, CommandFollows DEF CallsTypeOK
  <1>2. /\ k.pc \notin {"set", "unset"} => wg' = wg
        /\ k.pc = "set" => (wg' = wg /\ g.pc = "failed") \/ HasSet(k)
        /\ k.pc = "unset" => (wg' = wg /\ g.pc \in {"failed", "list"}) \/ HasUnset(k)
        /\ k.pc = "look" /\ g.pc # "unset" => wg[k.node][k.peer] = Absent
    BY <1>0, CommandEffects
  <1>3. CASE f.pc = "add"
    <2>1. Adding(k, t, f.peer, f.ip) /\ f.peer \in Peers
      BY <1>0, <1>3 DEF MigOK, InHand
    <2>2. g.pc \in {"verify", "ok"} \/ (g.pc \in {"save", "show", "write"} /\ g.after = "ok")
            => \/ k.pc = "set" /\ g.pc = "verify"
               \/ k.pc = "verify"
               \/ k.pc \in {"save", "show", "write"} /\ k.after = "ok"
      BY <1>1, <2>1 DEF Follows, Adding, Frame, Commands, Returned
    <2>3. HasSet(k) => wg'[t][f.peer] = f.ip
      BY <2>1 DEF HasSet, Adding
    <2>4. /\ f.peer \notin Disconnected
          /\ k.pc = "verify" \/ (k.pc \in {"save", "show", "write"} /\ k.after = "ok")
          => wg[t][f.peer] = f.ip
      BY <1>0, <1>3 DEF Effect
    <2>5. /\ f.peer \notin Disconnected
          /\ k.pc = "verify" \/ (k.pc \in {"save", "show", "write"} /\ k.after = "ok")
          => wg'[t][f.peer] = f.ip
      BY <1>2, <2>4
    <2>6. k.pc = "set" /\ g.pc = "verify" => wg'[t][f.peer] = f.ip
      BY <1>2, <2>3
    <2>7. /\ f.peer \notin Disconnected
          /\ g.pc \in {"verify", "ok"} \/ (g.pc \in {"save", "show", "write"} /\ g.after = "ok")
          => wg'[t][f.peer] = f.ip
      BY <2>2, <2>5, <2>6
    <2>8. mig'[m] = f /\ Disconnected' = Disconnected
      BY <1>0 DEF Disconnected
    <2> QED BY <1>3, <2>7, <2>8 DEF Effect
  <1>4. CASE f.pc = "remove"
    <2>1. Removing(k, s, f.peer) /\ f.peer \in Peers
      BY <1>0, <1>4 DEF MigOK, InHand
    <2>2. g.pc \in {"save", "show", "write", "ok"} =>
             \/ k.pc = "unset" /\ g.pc = "save"
             \/ k.pc = "look" /\ g.pc # "unset"
             \/ k.pc \in {"save", "show", "write"}
      BY <1>1, <2>1 DEF Follows, Removing, Frame, Commands, Returned
    <2>3. HasUnset(k) => wg'[s][f.peer] = Absent
      BY <2>1 DEF HasUnset, Removing
    <2>4. f.peer \notin Disconnected /\ k.pc \in {"save", "show", "write"}
             => wg'[s][f.peer] = Absent
      BY <1>0, <1>2, <1>4 DEF Effect
    <2>5. k.pc = "unset" /\ g.pc = "save" => wg'[s][f.peer] = Absent
      BY <1>2, <2>3
    <2>6. k.pc = "look" /\ g.pc # "unset" => wg'[s][f.peer] = Absent
      BY <1>2, <2>1 DEF Removing
    <2> QED BY <1>0, <1>4, <2>2, <2>4, <2>5, <2>6 DEF Effect, Disconnected
  <1>5. CASE f.pc \notin {"add", "remove"}
    BY <1>0, <1>5 DEF Effect
  <1> QED BY <1>3, <1>4, <1>5

\* Whose command it is.
LEMMA CommandOf ==
  ASSUME Core, MovingInv, NEW c \in Callers, c \notin Syncs, Answered(c)
  PROVE  LET k == call[c] IN
         /\ k.peer \in Peers
         /\ \/ /\ c \in Migrations /\ mig[c].pc = "add" /\ Leaves(c, k.peer)
               /\ k.node = Route[c].target /\ k.peer = mig[c].peer /\ k.ip = mig[c].ip
               /\ k.ip \in Addresses
            \/ /\ c \in Migrations /\ mig[c].pc = "remove" /\ Leaves(c, k.peer)
               /\ k.node = Route[c].source /\ k.peer = mig[c].peer /\ k.pc # "set"
            \/ c \in Disconnects /\ k.peer \in Disconnected /\ k.pc # "set"
  <1> DEFINE k == call[c]
  <1>0. /\ CallsTypeOK /\ CallStep(c) /\ FramesOK /\ TypeOK
        /\ c \in Migrations \/ c \in Disconnects
    BY ScenesAssumption DEF Core, TypeOK, Answered
  <1>1. Follows(k, call'[c]) /\ k # NoCall
    <2>1. Follows(k, call'[c])
      BY <1>0, CommandFollows
    <2> QED BY <2>1 DEF Follows, NoCall
  <1>2. CASE c \in Migrations
    <2>1. MigOK(c) /\ SetsOK(c)
      BY <1>0, <1>2 DEF FramesOK, MovingInv
    <2>2. mig[c].pc \in {"add", "remove"}
      BY <1>1, <2>1 DEF MigOK
    <2>3. mig[c].peer \in Peers /\ mig[c].ip \in Addresses /\ Leaves(c, mig[c].peer)
      BY <2>1, <2>2 DEF MigOK, SetsOK, InHand
    <2>4. CASE mig[c].pc = "add"
      BY <1>2, <2>1, <2>3, <2>4 DEF MigOK, Adding
    <2>5. CASE mig[c].pc = "remove"
      BY <1>2, <2>1, <2>3, <2>5 DEF MigOK, Removing, Commands, Returned
    <2> QED BY <2>2, <2>4, <2>5
  <1>3. CASE c \in Disconnects
    <2>1. DiscOK(c)
      BY <1>0, <1>3 DEF FramesOK
    <2>2. Removing(k, disc[c].node, disc[c].peer) /\ disc[c].peer \in Peers
      BY <1>1, <2>1 DEF DiscOK
    <2> QED BY <1>3, <2>2 DEF Removing, Commands, Returned, Disconnected
  <1> QED BY <1>0, <1>2, <1>3

\* Nobody undoes what another migration's call has done.
LEMMA OthersEffect ==
  ASSUME Core, MovingInv, NEW c \in Callers, c \notin Syncs, Answered(c),
         NEW l \in Migrations, l # c
  PROVE  Effect(l)'
  <1> DEFINE k == call[c]
             t == Route[l].target
             s == Route[l].source
  <1>0. /\ UNCHANGED <<peers, mig, disc>> /\ call'[l] = call[l]
        /\ MigOK(l) /\ SetsOK(l) /\ Effect(l) /\ t \in Nodes /\ s \in Nodes
    <2>1. CallsTypeOK /\ CallStep(c) /\ l \in Callers
      BY ScenesAssumption DEF Core, TypeOK, Answered
    <2>2. call'[l] = call[l]
      BY <2>1, CommandFollows DEF CallsTypeOK
    <2> QED BY <2>2, RoutesApart DEF Core, FramesOK, MovingInv, Answered, tables, frames
  <1>1. CASE mig[l].pc \notin {"add", "remove"}
    BY <1>0, <1>1 DEF Effect
  <1>2. ASSUME mig[l].pc \in {"add", "remove"},
               NEW x \in Peers, x = mig[l].peer, x \notin Disconnected
        PROVE  /\ mig[l].pc = "add" /\ wg[t][x] = mig[l].ip => wg'[t][x] = mig[l].ip
               /\ mig[l].pc = "remove" /\ wg[s][x] = Absent => wg'[s][x] = Absent
    <2>1. Leaves(l, x) /\ Moving /\ Served(x)
      BY <1>0, <1>2, MovingScene DEF SetsOK, InHand, MovingInv
    <2>2. /\ k.peer # x
          /\ k.pc = "set" => /\ c \in Migrations /\ mig[c].pc = "add"
                             /\ k.node = Route[c].target /\ k.peer = mig[c].peer
                             /\ k.ip = mig[c].ip /\ k.ip \in Addresses
      <3>1. /\ \/ /\ c \in Migrations /\ mig[c].pc = "add" /\ Leaves(c, k.peer)
                  /\ k.node = Route[c].target /\ k.peer = mig[c].peer /\ k.ip = mig[c].ip
                  /\ k.ip \in Addresses
               \/ /\ c \in Migrations /\ mig[c].pc = "remove" /\ Leaves(c, k.peer)
                  /\ k.node = Route[c].source /\ k.peer = mig[c].peer /\ k.pc # "set"
               \/ c \in Disconnects /\ k.peer \in Disconnected /\ k.pc # "set"
            /\ k.peer \in Peers
        BY CommandOf
      <3>2. c \in Migrations /\ Leaves(c, k.peer) => k.peer # x
        BY <2>1, RoutesApart
      <3> QED BY <1>2, <3>1, <3>2
    <2>3. \A n \in Nodes : \/ wg'[n][x] = wg[n][x]
                           \/ n = k.node /\ k.pc = "set" /\ wg[n][x] = k.ip
      BY <2>2, CommandChanges
    <2>4. wg[s][x] = Absent => wg'[s][x] = Absent
      BY <1>0, <2>2, <2>3 DEF Addresses, Absent
    <2>5. ASSUME mig[l].pc = "add", k.pc = "set", k.node = t
          PROVE  k.ip # mig[l].ip
      <3>1. peers[x].node = t /\ peers[x].ip = mig[l].ip /\ t # NoNode
        BY <1>0, <1>2, <2>1, <2>5, RoutesApart DEF Served
      <3>2. Reserved(c) /\ x # mig[c].peer
        BY <2>2, <2>5 DEF MovingInv
      <3> QED BY <2>2, <2>5, <3>1, <3>2 DEF Reserved, Present, NoPeer
    <2> QED BY <1>0, <2>3, <2>4, <2>5
  <1>3. CASE mig[l].pc \in {"add", "remove"}
    <2>1. mig[l].peer \in Peers
      BY <1>0, <1>3 DEF MigOK, InHand
    <2> QED BY <1>0, <1>2, <1>3, <2>1 DEF Effect, Disconnected
  <1> QED BY <1>1, <1>3

\* No command cuts off a peer that is not being disconnected.
LEMMA CommandServed ==
  ASSUME Core, MovingInv, Moving, NEW c \in Callers, c \notin Syncs, Answered(c),
         NEW q \in Peers \ Disconnected
  PROVE  Served(q)'
  <1> DEFINE k == call[c]
  <1>0. /\ UNCHANGED <<peers, mig>> /\ Served(q) /\ q \in Peers
        /\ CallsTypeOK /\ CallOK(c) /\ CallStep(c)
    BY DEF Core, TypeOK, FramesOK, MovingInv, Answered, tables, frames
  <1>1. /\ k.peer \in Peers
        /\ \/ /\ c \in Migrations /\ mig[c].pc = "add" /\ Leaves(c, k.peer)
              /\ k.node = Route[c].target /\ k.peer = mig[c].peer /\ k.ip = mig[c].ip
              /\ k.ip \in Addresses
           \/ /\ c \in Migrations /\ mig[c].pc = "remove" /\ Leaves(c, k.peer)
              /\ k.node = Route[c].source /\ k.peer = mig[c].peer /\ k.pc # "set"
           \/ c \in Disconnects /\ k.peer \in Disconnected /\ k.pc # "set"
    BY CommandOf
  <1>2. \A n \in Nodes : \/ wg'[n][q] = wg[n][q]
                         \/ n = k.node /\ q = k.peer
                         \/ /\ n = k.node /\ q # k.peer /\ k.pc = "set"
                            /\ wg[n][q] = k.ip
    BY <1>0, CommandChanges
  <1>3. CASE q = k.peer /\ c \in Migrations /\ mig[c].pc = "add"
    <2>1. q = mig[c].peer /\ \A n \in Nodes : n # Route[c].target => wg'[n][q] = wg[n][q]
      BY <1>1, <1>2, <1>3
    <2> QED BY <1>0, <1>3, <2>1, ServedByBoth
  <1>4. CASE q = k.peer /\ c \in Migrations /\ mig[c].pc = "remove"
    <2>1. /\ q = mig[c].peer /\ k.node = Home[q] /\ k.pc # "set"
          /\ Home[q] \in Nodes
      BY <1>0, <1>1, <1>4, RoutesApart DEF Leaves
    <2>2. wg' = wg \/ HasUnset(k)
      BY <1>0, <2>1, CommandEffects
    <2>3. wg'[Home[q]][q] \in {wg[Home[q]][q], Absent}
      BY <1>0, <1>4, <2>1, <2>2 DEF HasUnset
    <2>4. \A n \in Nodes : n # Home[q] => wg'[n][q] = wg[n][q]
      BY <1>2, <1>4, <2>1
    <2> QED BY <1>0, <1>4, <2>1, <2>3, <2>4, ServedByTarget
  <1>5. CASE q # k.peer /\ k.pc = "set"
    <2>1. /\ c \in Migrations /\ mig[c].pc = "add" /\ q # mig[c].peer
          /\ \A n \in Nodes : \/ wg'[n][q] = wg[n][q]
                              \/ n = Route[c].target /\ wg[n][q] = mig[c].ip
      BY <1>1, <1>2, <1>5
    <2> QED BY <1>0, <2>1, ServedByAll
  <1>6. CASE q # k.peer /\ k.pc # "set"
    <2>1. \A n \in Nodes : wg'[n][q] = wg[n][q]
      BY <1>2, <1>6
    <2> QED BY <1>0, <2>1, ServedKept
  <1> QED BY <1>1, <1>3, <1>4, <1>5, <1>6

\* Without a migration nothing is claimed of the interfaces.
LEMMA StillKept ==
  ASSUME Core, MovingInv, ~Moving, UNCHANGED <<scene, peers, mig, disc>>
  PROVE  MovingInv'
  <1>1. \A m \in Migrations : mig[m].pc = "idle"
    BY SyncAlone DEF Moving
  <1>2. \A p \in Peers : PlaceOK(p)'
    BY DEF MovingInv, PlaceOK, Present, Leaves
  <1>3. ASSUME NEW m \in Migrations PROVE SetsOK(m)' /\ Reserved(m)' /\ Effect(m)'
    BY <1>1 DEF MovingInv, SetsOK, Reserved, Effect, Leaves, Only, Present
  <1> QED BY <1>2, <1>3 DEF MovingInv, Moving

\* Commands.
LEMMA CommandMoves ==
  ASSUME Core, MovingInv, NEW c \in Callers, Answered(c)
  PROVE  MovingInv'
  <1>0. UNCHANGED <<scene, peers, mig, disc>> /\ CallsTypeOK /\ CallStep(c)
    BY DEF Core, TypeOK, Answered, tables, frames
  <1>1. c \in Syncs => ~Moving
    <2>1. Follows(call[c], call'[c])
      BY <1>0, CommandFollows
    <2>2. call[c] # NoCall
      BY <2>1 DEF Follows, NoCall
    <2> QED BY <2>2 DEF Core, FramesOK, SyncOK, Moving
  <1>2. CASE ~Moving
    BY <1>0, <1>2, StillKept
  <1>3. CASE Moving
    <2>1. \A q \in Peers \ Disconnected : Served(q)'
      BY <1>1, <1>3, CommandServed
    <2>2. \A p \in Peers : PlaceOK(p)'
      BY <1>0 DEF MovingInv, PlaceOK, Present, Leaves
    <2>3. ASSUME NEW m \in Migrations PROVE SetsOK(m)' /\ Reserved(m)'
      BY <1>0 DEF MovingInv, SetsOK, Reserved, Leaves, Only, Present
    <2>4. ASSUME NEW m \in Migrations PROVE Effect(m)'
      BY <1>1, <1>3, CommandEffect, OthersEffect
    <2>5. Disconnected' = Disconnected /\ Moving' = Moving
      BY <1>0 DEF Disconnected, Moving
    <2>6. \A d \in Disconnects : disc'[d].pc = "idle" => disc'[d].peer = "none"
      BY <1>0 DEF MovingInv
    <2> QED BY <2>1, <2>2, <2>3, <2>4, <2>5, <2>6 DEF MovingInv
  <1> QED BY <1>2, <1>3

\* Steps that touch neither rows nor interfaces, frames nor calls.
LEMMA StandsStill ==
  ASSUME MovingInv, UNCHANGED <<scene, peers, wg, mig, disc>>,
         \A m \in Migrations : call'[m] = call[m]
  PROVE  MovingInv'
  <1>1. \A p \in Peers : PlaceOK(p)'
    BY DEF MovingInv, PlaceOK, Present, Leaves
  <1>2. ASSUME NEW m \in Migrations PROVE SetsOK(m)' /\ Reserved(m)' /\ Effect(m)'
    BY DEF MovingInv, SetsOK, Reserved, Effect, Leaves, Only, Present, Disconnected
  <1>3. Disconnected' = Disconnected /\ Moving' = Moving
    BY DEF Disconnected, Moving
  <1>4. ASSUME Moving, NEW p \in Peers \ Disconnected PROVE Served(p)'
    <2>1. Served(p) /\ p \in Peers
      BY <1>4 DEF MovingInv
    <2> QED BY <2>1, ServedKept
  <1> QED BY <1>1, <1>2, <1>3, <1>4 DEF MovingInv

\* A node whose row is deleted takes its peers' rows and entries along.
LEMMA DeletionMoves ==
  ASSUME Core, MovingInv, RoutesStand', NEW n \in Nodes, ~Standing(n)',
         UNCHANGED <<scene, mig, disc, call>>,
         peers' = [p \in Peers |-> IF peers[p].node = n THEN NoPeer ELSE peers[p]],
         wg' = [wg EXCEPT ![n] = Nobody]
  PROVE  MovingInv'
  <1>0. /\ wg \in [Nodes -> Config] /\ peers \in [Peers -> PeerRow \cup {NoPeer}]
        /\ \A p \in Peers : PlaceOK(p)
        /\ \A m \in Migrations : SetsOK(m) /\ Reserved(m) /\ Effect(m) /\ MigOK(m)
        /\ \A d \in Disconnects : disc[d].pc = "idle" => disc[d].peer = "none"
        /\ Moving => \A p \in Peers \ Disconnected : Served(p)
        /\ Disconnected' = Disconnected /\ Moving' = Moving
    BY DEF Core, TypeOK, CallsTypeOK, FramesOK, MovingInv, Disconnected, Moving
  <1>1. \A m \in Migrations \cap scene : Route[m].source # n /\ Route[m].target # n
    BY DEF RoutesStand
  <1>2. \A m \in Migrations : mig[m].pc = "idle" \/ m \in scene
    BY <1>0 DEF MigOK
  <1>3. \A q \in Peers : /\ peers'[q] = IF peers[q].node = n THEN NoPeer ELSE peers[q]
                         /\ wg'[n][q] = Absent
                         /\ \A x \in Nodes : x # n => wg'[x][q] = wg[x][q]
    BY <1>0 DEF Nobody
  <1>4. \A q \in Peers : Present(q)' => /\ Present(q) /\ peers'[q] = peers[q]
                                        /\ peers[q].node # n
    BY <1>3 DEF Present
  <1>5. \A q \in Peers : Present(q) /\ peers[q].node = n => Home[q] = n
    BY <1>0, <1>1 DEF PlaceOK
  <1>6. \A q \in Peers : PlaceOK(q)'
    BY <1>0, <1>4 DEF PlaceOK
  <1>7. ASSUME NEW m \in Migrations PROVE SetsOK(m)' /\ Reserved(m)' /\ Effect(m)'
    <2>1. SetsOK(m)'
      BY <1>0 DEF SetsOK, Leaves
    <2>2. Reserved(m)'
      BY <1>0, <1>4 DEF Reserved, Only
    <2>3. Effect(m)'
      <3>1. CASE mig[m].pc \in {"add", "remove"}
        <4>1. /\ m \in scene /\ mig[m].peer \in Peers
              /\ Route[m].source \in Nodes /\ Route[m].target \in Nodes
          BY <1>0, <3>1, RoutesApart DEF MigOK, InHand
        <4>2. /\ wg'[Route[m].target][mig[m].peer] = wg[Route[m].target][mig[m].peer]
              /\ wg'[Route[m].source][mig[m].peer] = wg[Route[m].source][mig[m].peer]
          BY <1>1, <1>3, <4>1
        <4> QED BY <1>0, <4>2 DEF Effect
      <3>2. CASE mig[m].pc \notin {"add", "remove"}
        BY <3>2 DEF Effect
      <3> QED BY <3>1, <3>2
    <2> QED BY <2>1, <2>2, <2>3
  <1>8. ASSUME Moving, NEW q \in Peers \ Disconnected PROVE Served(q)'
    <2>1. Served(q) /\ q \in Peers /\ q # "none" /\ Home[q] \in Nodes
      BY <1>0, <1>8, RoutesApart
    <2>2. CASE Home[q] = n
      <3>1. \A m \in Migrations : Leaves(m, q) => mig[m].pc = "idle"
        BY <1>1, <1>2, <2>2 DEF Leaves
      <3>2. \A m \in Migrations : Leaves(m, q) =>
               /\ ~Before(m, q)' /\ ~Half(m, q)' /\ ~After(m, q)'
               /\ q # mig'[m].peer /\ q \notin mig'[m].moved
        BY <1>0, <2>1, <3>1 DEF SetsOK, InHand, Before, Half, After
      <3>3. \A m \in Migrations : Leaves(m, q) => ~(m \in scene)
        BY <1>1, <2>2 DEF Leaves
      <3>4. ~Present(q)'
        BY <1>0, <1>4, <2>1, <2>2, <3>3 DEF PlaceOK
      <3>5. \A x \in Nodes : wg'[x][q] = Absent
        <4>1. \A x \in Nodes \ {n} : wg[x][q] = Absent
          BY <1>0, <2>1, <2>2, <3>3 DEF Served, PlaceOK
        <4> QED BY <1>3, <2>1, <4>1
      <3>6. peers'[q].node \notin Nodes
        BY <3>4, RoutesApart DEF Present, NoPeer
      <3> QED BY <3>2, <3>4, <3>5, <3>6, RoutesApart DEF Served, Leaves
    <2>3. CASE Home[q] # n
      <3>1. peers[q].node # n
        BY <1>5, <2>1, <2>3, RoutesApart DEF Present, NoPeer
      <3>2. peers'[q] = peers[q] /\ Present(q)' = Present(q)
        BY <1>3, <2>1, <3>1 DEF Present
      <3>3. /\ \A x \in Nodes : wg'[x][q] \in {wg[x][q], Absent}
            /\ \A x \in Nodes \ {n} : wg'[x][q] = wg[x][q]
        BY <1>3, <2>1
      <3>4. \A m \in Migrations : Leaves(m, q) =>
               /\ Before(m, q)' = Before(m, q) /\ Half(m, q)' = Half(m, q)
               /\ After(m, q)' = After(m, q)
        BY DEF Before, Half, After
      <3>5. \A m \in Migrations : Leaves(m, q) /\ peers[q].node = Route[m].target
               => Route[m].target # n
        BY <3>1
      <3> QED BY <2>1, <2>3, <3>2, <3>3, <3>4, <3>5, RoutesApart DEF Served, Leaves
    <2> QED BY <2>2, <2>3
  <1> QED BY <1>0, <1>6, <1>7, <1>8 DEF MovingInv

\* The steps of a clean-up that spares the ends of the migrations.
LEMMA CleanMoves ==
  ASSUME Core, MovingInv, RoutesStand', NEW k \in Cleaners, CleanMove(k)
  PROVE  MovingInv'
  <1> DEFINE n == Max(clean[k].todo)
  <1>1. /\ UNCHANGED <<scene, mig, disc, call>>
        /\ DeleteNode(k) \/ UNCHANGED <<peers, wg>>
    BY CleanTouches DEF Core
  <1>2. CASE UNCHANGED <<peers, wg>>
    BY <1>1, <1>2, StandsStill
  <1>3. CASE DeleteNode(k) /\ ~UNCHANGED <<peers, wg>>
    <2>1. n \in Nodes /\ status \in [Nodes -> Statuses]
      BY <1>3, CleanInHand DEF Core, TypeOK, Statuses
    <2>2. PICK x \in Nodes :
             /\ status' = [status EXCEPT ![x] = "deleted"]
             /\ peers' = [p \in Peers |-> IF peers[p].node = x THEN NoPeer ELSE peers[p]]
             /\ wg' = [wg EXCEPT ![x] = Nobody]
      BY <1>3, <2>1 DEF DeleteNode, tables
    <2>3. ~Standing(x)'
      BY <2>1, <2>2 DEF Standing
    <2> QED BY <1>1, <2>2, <2>3, DeletionMoves
  <1> QED BY <1>1, <1>2, <1>3

\* While the ends of the migrations stand, only other calls go unanswered.
LEMMA UnansweredMoves ==
  ASSUME Core, MovingInv, RoutesStand, NEW c \in Callers, Unanswered(c)
  PROVE  MovingInv'
  <1>1. /\ call[c].pc \notin Returned \cup {"idle"} /\ ~Standing(call[c].node)
        /\ \A b \in Callers \ {c} : call'[b] = call[b]
        /\ UNCHANGED <<scene, peers, wg, mig, disc>>
    BY UnansweredEnds DEF Core, TypeOK, tables, frames
  <1>2. c \notin Migrations
    <2> SUFFICES ASSUME c \in Migrations PROVE FALSE
      OBVIOUS
    <2>1. MigOK(c) /\ call[c] # NoCall
      BY <1>1 DEF Core, FramesOK, NoCall
    <2>2. /\ c \in scene
          /\ call[c].node \in {Route[c].source, Route[c].target}
      BY <2>1 DEF MigOK, Adding, Removing
    <2> QED BY <1>1, <2>2 DEF RoutesStand
  <1>3. \A m \in Migrations : m \in Callers /\ m # c /\ call'[m] = call[m]
    BY <1>1, <1>2, ScenesAssumption
  <1> QED BY <1>1, <1>3, StandsStill

\* Synchronisations run where nothing is claimed.
LEMMA SyncMoves ==
  ASSUME Core, MovingInv, NEW s \in Syncs, SyncMove(s)
  PROVE  MovingInv'
  <1>1. UNCHANGED <<scene, peers, mig, disc>>
    BY DEF SyncMove, SyncStep, SyncPeers, SyncOne, SyncReturned, EndSync,
           RestartWireGuard, tables, frames
  <1>2. s \in scene
    BY DEF SyncMove, SyncStep, SyncPeers, SyncOne, SyncReturned, EndSync,
           RestartWireGuard, Core, FramesOK, SyncOK
  <1> QED BY <1>1, <1>2, StillKept DEF Moving

\* The ends of the migrations that stand after a step stood before it.
LEMMA RoutesStood ==
  ASSUME Core, [Next]_vars, RoutesStand'
  PROVE  RoutesStand
  <1>1. UNCHANGED scene
    <2>1. ASSUME NEW c \in Cycles, ListActiveNodes(c) \/ CycleStep(c) PROVE UNCHANGED scene
      BY <2>1 DEF ListActiveNodes, CycleStep, CheckNode, Decide, createReplacementNode
    <2>2. ASSUME NEW k \in Cleaners, CleanMove(k) PROVE UNCHANGED scene
      BY <2>2, CleanTouches DEF Core
    <2>3. CASE UNCHANGED vars \/ Provision
      BY <2>3 DEF vars, Provision
    <2>4. CASE \/ \E m \in Migrations : MigrationMove(m)
               \/ \E d \in Disconnects : DisconnectMove(d)
               \/ \E x \in Syncs : SyncMove(x)
               \/ \E c \in Callers : RemoteStep(c)
      BY <2>4, CallersStatus
    <2> QED BY <2>1, <2>2, <2>3, <2>4
            DEF Next, CleanMove, MigrationMove, DisconnectMove, SyncMove
  <1>2. \A m \in Migrations : Route[m].source \in Nodes /\ Route[m].target \in Nodes
    BY RoutesApart
  <1>3. \A n \in Nodes : Standing(n)' => Standing(n)
    BY FallenStays
  <1> QED BY <1>1, <1>2, <1>3 DEF RoutesStand

\* Every step keeps the invariant, as long as the migrations' ends stand.
LEMMA NextMoving ==
  ASSUME Apart, Core, MovingInv, RoutesStand', [Next]_vars
  PROVE  MovingInv'
  <1>1. CASE UNCHANGED vars
    BY <1>1, StandsStill, ScenesAssumption DEF vars, tables, frames, calls
  <1>2. CASE Next
    <2>1. ASSUME NEW c \in Cycles, ListActiveNodes(c) \/ CycleStep(c) PROVE MovingInv'
      <3>1. UNCHANGED <<scene, peers, wg, mig, disc, call>>
        BY <2>1 DEF ListActiveNodes, CycleStep, CheckNode, Decide, createReplacementNode,
                    tables, calls
      <3> QED BY <3>1, StandsStill, ScenesAssumption
    <2>2. CASE Provision
      BY <2>2, StandsStill, ScenesAssumption DEF Provision, frames, calls
    <2>3. ASSUME NEW k \in Cleaners, CleanMove(k) PROVE MovingInv'
      BY <2>3, CleanMoves
    <2>4. ASSUME NEW m \in Migrations, MigrationMove(m) PROVE MovingInv'
      BY <2>4, MigrationMoves, UpdateMoves
    <2>5. ASSUME NEW d \in Disconnects, DisconnectMove(d) PROVE MovingInv'
      BY <2>5, DisconnectMoves
    <2>6. ASSUME NEW s \in Syncs, SyncMove(s) PROVE MovingInv'
      BY <2>6, SyncMoves
    <2>7. ASSUME NEW c \in Callers, RemoteStep(c) PROVE MovingInv'
      BY <2>7, RemoteSteps, RoutesStood, CommandMoves, UnansweredMoves
    <2> QED BY <1>2, <2>1, <2>2, <2>3, <2>4, <2>5, <2>6, <2>7
            DEF Next, CleanMove, MigrationMove, DisconnectMove, SyncMove
  <1> QED BY <1>1, <1>2

\* At the start every peer is at home, and nowhere else.
LEMMA InitMoving ==
  ASSUME Init
  PROVE  MovingInv
  <1>1. /\ mig = [m \in Migrations |-> NewMig] /\ disc = [d \in Disconnects |-> NewDisc]
        /\ peers = [p \in Peers |-> [node |-> Home[p], status |-> "active",
                                     ip |-> subnets[Home[p]].start + Offset[p]]]
    BY DEF Init
  <1>2. \A m \in Migrations :
           /\ mig[m].pc = "idle" /\ mig[m].peer = "none"
           /\ mig[m].todo = {} /\ mig[m].moved = {} /\ mig[m].errors = {} /\ mig[m].warned = {}
    BY <1>1 DEF NewMig
  <1>3. \A d \in Disconnects : disc[d].peer = "none"
    BY <1>1 DEF NewDisc
  <1>4. \A p \in Peers : /\ peers[p].node = Home[p] /\ Home[p] \in Nodes
                         /\ Present(p) /\ p # "none"
    BY <1>1, RoutesApart DEF Present, NoPeer
  <1>5. \A p \in Peers : PlaceOK(p)
    BY <1>4 DEF PlaceOK
  <1>6. ASSUME NEW m \in Migrations PROVE SetsOK(m) /\ Reserved(m) /\ Effect(m)
    BY <1>2 DEF SetsOK, Reserved, Effect, InHand
  <1>7. ASSUME Moving, NEW p \in Peers PROVE Served(p)
    <2>1. wg = [n \in Nodes |-> Rows(n)]
      <3>1. wg = [n \in Nodes |-> IF n = SyncNode THEN Rows(SyncNode) ELSE Rows(n)]
        BY <1>7 DEF Init, Moving
      <3> QED BY <3>1
    <2>2. \A n \in Nodes : wg[n][p] = IF n = Home[p] THEN peers[p].ip ELSE Absent
      BY <1>4, <2>1 DEF Rows
    <2>3. \A m \in Migrations : /\ ~Before(m, p) /\ ~Half(m, p) /\ ~After(m, p)
                                /\ p # mig[m].peer /\ p \notin mig[m].moved
      BY <1>2, <1>4 DEF Before, Half, After
    <2>4. \A m \in Migrations : Leaves(m, p) => peers[p].node # Route[m].target
      BY <1>4, RoutesApart
    <2> QED BY <1>4, <2>2, <2>3, <2>4 DEF Served
  <1> QED BY <1>3, <1>5, <1>6, <1>7 DEF MovingInv

\* What the invariant says of the peers is what was to be shown.
LEMMA MovingFollows ==
  ASSUME Core, RoutesStand => MovingInv
  PROVE  MigrationSound
  <1> SUFFICES ASSUME MovingInv
               PROVE  NeverCutOff /\ MigratedIsConfigured /\ LeftBehindIsLogged
    BY DEF MigrationSound
  <1>0. /\ \A p \in Peers : PlaceOK(p)
        /\ \A m \in Migrations : SetsOK(m)
        /\ Moving => \A p \in Peers \ Disconnected : Served(p)
        /\ mig \in [Migrations -> Mig] /\ peers \in [Peers -> PeerRow \cup {NoPeer}]
    BY DEF MovingInv, Core, TypeOK
  <1>1. \A p \in Peers : Present(p) => peers[p].ip \in Addresses
    BY <1>0 DEF Present, PeerRow
  <1>2. ASSUME Moving, NEW p \in Peers \ Disconnected, Present(p), peers[p].node # Home[p]
        PROVE  \E m \in Migrations :
                  LET t == Route[m].target IN
                  /\ peers[p].node = t /\ t \in Nodes /\ Home[p] \in Nodes
                  /\ Half(m, p) \/ After(m, p)
                  /\ \A n \in Nodes \ {Home[p], t} : wg[n][p] = Absent
                  /\ Half(m, p) => wg[Home[p]][p] \in Addresses
                  /\ After(m, p) => wg[t][p] = peers[p].ip
                  /\ p \in mig[m].moved \ mig[m].warned => wg[Home[p]][p] = Absent
    <2>1. p \in Peers /\ Served(p)
      BY <1>0, <1>2
    <2>2. PICK m \in Migrations : Leaves(m, p) /\ peers[p].node = Route[m].target
      BY <1>0, <1>2, <2>1 DEF PlaceOK
    <2> QED BY <2>1, <2>2, RoutesApart DEF Served
  <1>3. ASSUME Moving, NEW p \in Peers \ Disconnected,
               Present(p) => peers[p].node = Home[p]
        PROVE  /\ Present(p) => wg[Home[p]][p] = peers[p].ip
               /\ \A n \in Nodes : ~(Present(p) /\ peers[p].node = n) => wg[n][p] = Absent
    BY <1>0, <1>3 DEF Served
  <1>4. NeverCutOff
    <2> SUFFICES ASSUME Moving, NEW p \in Peers, Present(p), p \notin Disconnected
                 PROVE  \E n \in Nodes : wg[n][p] \in Addresses
      BY DEF NeverCutOff
    <2>1. CASE peers[p].node = Home[p]
      BY <1>1, <1>3, <2>1, RoutesApart
    <2>2. CASE peers[p].node # Home[p]
      BY <1>1, <1>2, <2>2
    <2> QED BY <2>1, <2>2
  <1>5. MigratedIsConfigured
    <2> SUFFICES ASSUME NEW p \in Migrated \ Disconnected, Present(p)
                 PROVE  wg[peers[p].node][p] = peers[p].ip
      BY DEF MigratedIsConfigured
    <2>1. PICK m \in Migrations : p \in mig[m].moved
      BY DEF Migrated
    <2>2. p \in Peers /\ Leaves(m, p) /\ mig[m].pc # "idle"
      BY <1>0, <2>1 DEF SetsOK, Mig
    <2>3. Served(p) /\ After(m, p)
      BY <1>0, <2>1, <2>2, MovingScene DEF After
    <2> QED BY <2>2, <2>3 DEF Served
  <1>6. LeftBehindIsLogged
    <2> SUFFICES ASSUME Moving, NEW n \in Nodes, NEW p \in Peers \ Disconnected,
                        wg[n][p] # Absent, ~(Present(p) /\ peers[p].node = n)
                 PROVE  p \in Logged \cup OnTheWay
      BY DEF LeftBehindIsLogged
    <2>1. Present(p) /\ peers[p].node # Home[p]
      BY <1>3
    <2>2. PICK m \in Migrations :
             /\ peers[p].node = Route[m].target
             /\ Half(m, p) \/ After(m, p)
             /\ \A k \in Nodes \ {Home[p], Route[m].target} : wg[k][p] = Absent
             /\ p \in mig[m].moved \ mig[m].warned => wg[Home[p]][p] = Absent
      BY <1>2, <2>1
    <2>3. n = Home[p]
      BY <2>1, <2>2
    <2>4. p \in mig[m].errors \/ p \in mig[m].warned \/ p = mig[m].peer
      BY <2>2, <2>3 DEF Half, After
    <2> QED BY <2>4 DEF Logged, OnTheWay
  <1> QED BY <1>4, <1>5, <1>6

\* As long as no clean-up has begun to destroy the source or the target of a
\* migration of the behaviour (RoutesStand), every peer that is not being
\* disconnected is served by a node, a migrated one is configured where its row
\* says, and nothing is left behind that is not logged or in hand.  It is so
\* whatever else fails, for migrations that overlap in any way with each other,
\* with rotations and with clean-ups that destroy other nodes or take subnets
\* away, and with disconnections if no two migrations go to one node (Apart);
\* behaviours of SyncPeers have no migration (migrateSinglePeer,
\* DisconnectPeer, cleanupOrphanedNodes).
THEOREM MigrationIsSound == ASSUME Apart PROVE Spec => []MigrationSound
  <1> DEFINE Inv == Core /\ (RoutesStand => MovingInv)
  <1>1. Init => Inv
    BY InitCore, InitMoving
  <1>2. Inv /\ [Next]_vars => Inv'
    <2> SUFFICES ASSUME Core, RoutesStand => MovingInv, [Next]_vars
                 PROVE  Core' /\ (RoutesStand => MovingInv)'
      OBVIOUS
    <2>1. ASSUME RoutesStand' PROVE MovingInv'
      BY <2>1, RoutesStood, NextMoving
    <2> QED BY <2>1, NextCore
  <1>3. Inv => MigrationSound
    BY MovingFollows
  <1> QED BY <1>1, <1>2, <1>3, PTL DEF Spec

=============================================================================
