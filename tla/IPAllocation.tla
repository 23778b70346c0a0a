----------------------------- MODULE IPAllocation -----------------------------
(***************************************************************************)
(* internal/rotator/ip: the arithmetic of subnets and client addresses.    *)
(* An address is a number of AddressBits bits (32 in the program), a       *)
(* subnet its network address with what NewSubnet derives from it.         *)
(***************************************************************************)
EXTENDS Integers, FiniteSets

CONSTANTS
    AddressBits,   \* the width of an address
    BaseNetwork,   \* NetworkConfig.BaseNetwork, its address ...
    BaseMask,      \* ... and its mask
    SubnetMask     \* NetworkConfig.SubnetMask

SpaceSize == 2 ^ AddressBits
SubnetSize == 2 ^ (AddressBits - SubnetMask)
BlockSize == 2 ^ (AddressBits - BaseMask)
MaxSubnets == 2 ^ (SubnetMask - BaseMask)

\* NetworkConfig.Validate ("max /30" of 32 bits), and what it leaves open:
\* the base is a network address.  With host bits set the generated CIDRs
\* never equal the stored ones.
ASSUME NetworkAssumption ==
    /\ AddressBits \in Nat /\ BaseMask \in Nat /\ SubnetMask \in Nat
    /\ BaseMask < SubnetMask
    /\ SubnetMask <= AddressBits - 2
    /\ BaseNetwork \in 0 .. SpaceSize - 1
    /\ BaseNetwork % BlockSize = 0

\* What follows by the laws of powers, of which the provers know nothing.
ASSUME PowersAssumption ==
    /\ SubnetSize \in Nat /\ SubnetSize >= 4
    /\ MaxSubnets \in Nat \ {0} /\ 2 ^ BaseMask \in Nat \ {0}
    /\ BlockSize = MaxSubnets * SubnetSize
    /\ SpaceSize = 2 ^ BaseMask * BlockSize

Addresses == 0 .. SpaceSize - 1
NoAddress == -1
NoSubnet == [network |-> -1, gateway |-> -1, start |-> -1, end |-> -1]

\* A shift by one bit too few: neighbours overlap.
BadGenerateSubnetCIDR(i) == (BaseNetwork + i * (SubnetSize \div 2)) % SpaceSize

GenerateSubnetCIDR(i) == (BaseNetwork + i * SubnetSize) % SpaceSize

\* The last address of the network: every host bit set.
Broadcast(network) == network + SubnetSize - 1

NewSubnet(network) ==
    [network |-> network, gateway |-> network + 1, start |-> network + 2,
     end |-> Broadcast(network) - 1]

InNetwork(network, size, a) == a \in network .. network + size - 1

\* validateSubnetAlignment and validateSubnetInBaseNetwork.
ValidateSubnetAllocation(s) ==
    /\ s.network % SubnetSize = 0
    /\ InNetwork(BaseNetwork, BlockSize, s.network)

\* The subnet of the first index whose network no other subnet has.
FindNextAvailableSubnet(used) ==
    LET free == {i \in 0 .. MaxSubnets - 1 : GenerateSubnetCIDR(i) \notin used}
    IN  IF free = {} THEN NoSubnet
        ELSE NewSubnet(GenerateSubnetCIDR(
                 CHOOSE i \in free : \A j \in free : i <= j))

\* The walk of FindNextAvailableIP: an address is looked at before the next
\* one is compared with the end of the range.
FindNextAvailableIP(s, allocated) ==
    LET Walk[a \in s.start .. s.end] ==
            IF a \notin allocated THEN a
            ELSE IF ~InNetwork(s.network, SubnetSize, a + 1) \/ a + 1 > s.end
            THEN NoAddress ELSE Walk[a + 1]
    IN  Walk[s.start]

\* CalculateCapacityInfo: the addresses but network, gateway and broadcast.
TotalIPs == SubnetSize - 3
AvailableIPs(allocated) ==
    IF TotalIPs < allocated THEN 0 ELSE TotalIPs - allocated
=============================================================================
