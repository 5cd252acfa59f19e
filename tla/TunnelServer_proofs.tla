------------------------ MODULE TunnelServer_proofs -------------------------
(***************************************************************************)
(* Theorems about TunnelServer: channel ids, tunnel addresses and          *)
(* reserved slots, for every pool, reservation and number of slots.        *)
(***************************************************************************)
EXTENDS TunnelServer, FiniteSetTheorems, WellFoundedInduction, TLAPS

-----------------------------------------------------------------------------
(* Arithmetic.                                                             *)

(* A nonempty set of naturals has a least element.                         *)
LEMMA NatMin ==
  ASSUME NEW T, T \subseteq Nat, T # {}
  PROVE \E x \in T : \A y \in T : x <= y
<1> DEFINE R == OpToRel(<, Nat)
<1>1. IsWellFoundedOn(R, Nat)
  BY NatLessThanWellFounded
<1>2. PICK x \in T : \A y \in T : ~(<<y, x>> \in R)
  <2> HIDE DEF R
  <2> QED BY <1>1, WFMin
<1>3. ASSUME NEW y \in T PROVE x <= y
  <2>1. x \in Nat /\ y \in Nat OBVIOUS
  <2>2. R = {ss \in Nat \X Nat : ss[1] < ss[2]}
    BY DEF OpToRel
  <2>3. ~(<<y, x>> \in R) BY <1>2
  <2> HIDE DEF R
  <2> QED BY <2>1, <2>2, <2>3
<1> QED BY <1>3

(* Quotient and remainder are unique.                                       *)
LEMMA ModIs ==
  ASSUME NEW c \in Nat, NEW M \in Nat, M > 1, NEW q \in Int, NEW r \in 0..M-1,
         c = M * q + r
  PROVE  c % M = r
<1> DEFINE p == c \div M  s == c % M
<1>1. c = M * p + s /\ s \in 0..M-1 /\ p \in Nat
  OBVIOUS
<1> HIDE DEF p, s
<1>3. s - r = M * (q - p)
  BY <1>1
<1>4. q = p
  <2>1. CASE q > p
    <3>1. M * (q-p) >= M BY <2>1, <1>1
    <3> QED BY <3>1, <1>3, <1>1
  <2>2. CASE q < p
    <3>1. M * (q-p) <= -M BY <2>2, <1>1
    <3> QED BY <3>1, <1>3, <1>1
  <2> QED BY <2>1, <2>2, <1>1
<1> QED BY <1>1, <1>3, <1>4 DEF s

Pool == [Slot -> Address]

-----------------------------------------------------------------------------
(* Least slots.                                                            *)

(* A choice among slots takes one of them.                                 *)
LEMMA MinSlot ==
  ASSUME NEW S, S \subseteq Slot, S # {}
  PROVE  Min(S) \in S
<1>1. S \subseteq Nat BY SlotAssumption DEF Slot
<1>2. \E x \in S : \A y \in S : x <= y BY <1>1, NatMin
<1> QED BY <1>2 DEF Min

-----------------------------------------------------------------------------
(* The address pool.                                                       *)

LEMMA DefaultBound ==
  ASSUME NEW l \in 0 .. 255, NEW i \in 0 .. 12, NEW s \in 0 .. 1
  PROVE  l * 256 + 241 + i + s \in Address
<1> DEFINE n == l * 256 + 241 + i + s
<1>1. n \in Nat /\ n \div 256 = l OBVIOUS
<1> QED BY <1>1 DEF Address

(* The default addresses are addresses: the device part ends below .255.   *)
LEMMA DefaultType ==
  ASSUME NEW a \in Address
  PROVE  DefaultTunnelAddresses(a) \in Pool
<1> DEFINE skips(i) == IF Device(a) \in 241 .. 241 + i THEN 1 ELSE 0
<1>1. Line(a) \in 0 .. 255
  <2>1. a \div 256 \in 0 .. 255 BY DEF Address
  <2> QED BY <2>1 DEF Line
<1>2. \A i \in Slot : i \in 0 .. 12 /\ skips(i) \in 0 .. 1
  BY SlotAssumption DEF Slot
<1>3. \A i \in Slot : Line(a) * 256 + 241 + i + skips(i) \in Address
  <2> HIDE DEF skips
  <2> QED BY <1>1, <1>2, DefaultBound
<1>4. DefaultTunnelAddresses(a) = [i \in Slot |-> Line(a) * 256 + 241 + i + skips(i)]
  BY DEF DefaultTunnelAddresses
<1> HIDE DEF skips
<1> QED BY <1>3, <1>4 DEF Pool

LEMMA CurrentPoolType ==
  ASSUME own \in Address, pool \in Pool \union {Empty}
  PROVE  CurrentPool \in Pool
<1>1. DOMAIN Empty = {} BY DEF Empty
<1>2. CASE DOMAIN pool = Slot /\ IsCurrentTunnelPool(own, pool)
  <2>1. CASE pool \in Pool BY <1>2, <2>1 DEF CurrentPool
  <2>2. CASE pool = Empty
    <3>1. Slot = {} BY <1>1, <1>2, <2>2
    <3>2. pool \in Pool BY <1>1, <2>2, <3>1 DEF Pool, Empty
    <3> QED BY <1>2, <3>2 DEF CurrentPool
  <2> QED BY <2>1, <2>2
<1>3. CASE ~(DOMAIN pool = Slot /\ IsCurrentTunnelPool(own, pool))
  BY <1>3, DefaultType DEF CurrentPool
<1> QED BY <1>2, <1>3

(* Making a pool anew does not change what it is.                          *)
LEMMA RenewKeepsPool ==
  ASSUME own \in Address, pool \in Pool \union {Empty},
         own' = own, pool' = CurrentPool
  PROVE  CurrentPool' = CurrentPool
BY DEF CurrentPool

LEMMA RenewKeepsDefended ==
  ASSUME own' = own, CurrentPool' = CurrentPool
  PROVE  DefendedPool' = DefendedPool
BY DEF DefendedPool

(* What a tunnel is given: nothing, or an address of the pool that is      *)
(* usable and that no open connection of the table has.                    *)
LEMMA AddressGiven ==
  ASSUME NEW i \in Slot, NEW keepsOwn \in BOOLEAN, NEW table,
         CurrentPool \in Pool, own \in Address,
         TunnelAddress(i, keepsOwn, table) # 0
  PROVE  \E a \in Slot :
           /\ TunnelAddress(i, keepsOwn, table) = CurrentPool[a]
           /\ IsUsableTunnelAddress(own, CurrentPool[a])
           /\ ~TunnelAddressInUse(table, CurrentPool[a])
           /\ IF keepsOwn THEN a = i ELSE ~Reserved(a)
<1> DEFINE from == IF keepsOwn THEN {i} ELSE {a \in Slot : ~Reserved(a)}
           free == {a \in from : /\ IsUsableTunnelAddress(own, CurrentPool[a])
                                 /\ ~TunnelAddressInUse(table, CurrentPool[a])}
<1>1. TunnelAddress(i, keepsOwn, table) = IF free = {} THEN 0 ELSE CurrentPool[Min(free)]
  BY DEF TunnelAddress
<1>2. free \subseteq Slot OBVIOUS
<1>3. free # {} BY <1>1
<1>4. Min(free) \in free
  <2> HIDE DEF free
  <2> QED BY <1>2, <1>3, MinSlot
<1>5. TunnelAddress(i, keepsOwn, table) = CurrentPool[Min(free)] BY <1>1, <1>3
<1> DEFINE a == Min(free)
<1>6. a \in free BY <1>4
<1> HIDE DEF a
<1>7. /\ a \in Slot
      /\ IsUsableTunnelAddress(own, CurrentPool[a])
      /\ ~TunnelAddressInUse(table, CurrentPool[a])
      /\ IF keepsOwn THEN a = i ELSE ~Reserved(a)
  BY <1>6
<1> QED BY <1>5, <1>7 DEF a

(* A usable address is an address other than 0.                            *)
LEMMA UsableType ==
  ASSUME NEW a \in Slot, CurrentPool \in Pool,
         IsUsableTunnelAddress(own, CurrentPool[a])
  PROVE  CurrentPool[a] \in Address /\ CurrentPool[a] # 0
<1>1. CurrentPool[a] \in Address BY DEF Pool
<1>2. 0 % 256 = 0 OBVIOUS
<1> QED BY <1>1, <1>2 DEF IsUsableTunnelAddress, Device

-----------------------------------------------------------------------------
(* Channel ids.                                                            *)

(* There are more ids than connections.                                    *)
LEMMA FreeId ==
  ASSUME NEW table \in [Slot -> Connection]
  PROVE  \E id \in 0 .. IdMod - 1 : \A i \in Slot : table[i].ChannelId # id
<1>1. SUFFICES ASSUME \A id \in 0 .. IdMod - 1 : \E i \in Slot : table[i].ChannelId = id
               PROVE  FALSE
  OBVIOUS
<1> DEFINE Ids == 0 .. IdMod - 1
           holder == [id \in Ids |-> CHOOSE i \in Slot : table[i].ChannelId = id]
<1>2. \A id \in Ids : holder[id] \in Slot /\ table[holder[id]].ChannelId = id
  BY <1>1
<1>3. holder \in [Ids -> Slot] BY <1>2
<1>4. /\ IsFiniteSet(Ids) /\ Cardinality(Ids) = IdMod
      /\ IsFiniteSet(Slot) /\ Cardinality(Slot) = NumSlots
  <2>1. IsFiniteSet(Ids) /\ Cardinality(Ids) = IdMod
    <3>1. /\ 0 \in Int /\ IdMod - 1 \in Int /\ ~(0 > IdMod - 1)
          /\ (IdMod - 1) - 0 + 1 = IdMod
      BY SlotAssumption
    <3> QED BY <3>1, FS_Interval
  <2>2. IsFiniteSet(Slot) /\ Cardinality(Slot) = NumSlots
    <3>1. /\ 0 \in Int /\ NumSlots - 1 \in Int
          /\ IF 0 > NumSlots - 1 THEN NumSlots = 0 ELSE (NumSlots - 1) - 0 + 1 = NumSlots
      BY SlotAssumption
    <3> QED BY <3>1, FS_Interval DEF Slot
  <2> QED BY <2>1, <2>2
<1>5. Cardinality(Slot) < Cardinality(Ids) BY <1>4, SlotAssumption
<1> HIDE DEF holder, Ids
<1>6. \E x, y \in Ids : x # y /\ holder[x] = holder[y]
  BY <1>3, <1>4, <1>5, FS_PigeonHole
<1> QED BY <1>2, <1>6

LEMMA ModRange ==
  ASSUME NEW n \in Int, NEW M \in Nat, M > 0
  PROVE  n % M \in 0 .. M - 1
OBVIOUS

(* A table with a free slot leaves an id for it that is not 0.             *)
LEMMA NextIdIsNew ==
  ASSUME NEW table \in [Slot -> Connection], NEW i \in Slot,
         table[i].ChannelId = 0, lastChannelId \in 0 .. IdMod - 2
  PROVE  /\ NextChannelId(table) \in 1 .. IdMod - 1
         /\ \A j \in Slot : table[j].ChannelId # NextChannelId(table)
<1> DEFINE After(k) == (lastChannelId + k) % IdMod
           K == {k \in 1 .. IdMod : \A j \in Slot : table[j].ChannelId # After(k)}
<1>1. K # {}
  <2>1. PICK id \in 0 .. IdMod - 1 : \A j \in Slot : table[j].ChannelId # id
    BY FreeId
  <2>2. CASE id > lastChannelId
    <3>1. After(id - lastChannelId) = id BY <2>2, SlotAssumption
    <3>2. id - lastChannelId \in 1 .. IdMod BY <2>2, SlotAssumption
    <3> QED BY <2>1, <3>1, <3>2
  <2>3. CASE id <= lastChannelId
    <3>1. After(id + IdMod - lastChannelId) = (IdMod + id) % IdMod
      BY <2>3, SlotAssumption
    <3>2. (IdMod + id) % IdMod = id
      <4>1. IdMod + id \in Nat /\ IdMod \in Nat /\ IdMod > 1 /\ IdMod + id = IdMod * 1 + id
        BY SlotAssumption
      <4> QED BY <4>1, ModIs
    <3>3. id + IdMod - lastChannelId \in 1 .. IdMod BY <2>3, SlotAssumption
    <3> QED BY <2>1, <3>1, <3>2, <3>3
  <2> QED BY <2>2, <2>3
<1>2. K \subseteq Nat OBVIOUS
<1>3. \E x \in K : \A y \in K : x <= y
  <2> HIDE DEF K
  <2> QED BY <1>1, <1>2, NatMin
<1>4. Min(K) \in K
  <2> HIDE DEF K
  <2> QED BY <1>3 DEF Min
<1>5. NextChannelId(table) = After(Min(K)) BY DEF NextChannelId
<1> DEFINE k == Min(K)
<1>6. k \in 1 .. IdMod /\ \A j \in Slot : table[j].ChannelId # After(k) BY <1>4
<1> HIDE DEF k
<1>7. After(k) \in 0 .. IdMod - 1
  <2>1. lastChannelId + k \in Int /\ IdMod \in Nat /\ IdMod > 0
    BY <1>6, SlotAssumption
  <2> QED BY <2>1, ModRange
<1> HIDE DEF After
<1>8. After(k) # 0 BY <1>6
<1> QED BY <1>5, <1>6, <1>7, <1>8 DEF k

-----------------------------------------------------------------------------
(* What a step does to a slot.                                             *)

(* It keeps what identifies the connection, or frees the slot.             *)
Kept(j) ==
  \/ slots'[j] = FreeSlot
  \/ /\ slots'[j].ChannelId = slots[j].ChannelId
     /\ slots'[j].IndividualAddress = slots[j].IndividualAddress
     /\ slots'[j].IpAddress = slots[j].IpAddress
     /\ slots'[j].IsConfig = slots[j].IsConfig

(* The address of a new tunnel on slot i.                                  *)
AddressFor(i, address) ==
  \E a \in Slot :
    /\ address = CurrentPool[a]
    /\ IsUsableTunnelAddress(own, address)
    /\ \A j \in Slot \ {i} : Open(j) => slots[j].IndividualAddress # address
    /\ a = i \/ ~Reserved(a)

(* It puts connection c on slot i and leaves the others alone.             *)
New(i, c) ==
  /\ slots' = [slots EXCEPT ![i] = c]
  /\ c.ChannelId # 0
  /\ \A j \in Slot \ {i} : slots[j].ChannelId # c.ChannelId
  /\ c.IsConfig => c.IndividualAddress = 0
  /\ ~c.IsConfig => AddressFor(i, c.IndividualAddress)
  /\ Reserved(i) => ~c.IsConfig /\ c.IpAddress = res[i].ip

(* One connection is new, or none.                                         *)
OneSlot ==
  /\ slots' \in [Slot -> Connection]
  /\ lastChannelId' \in 0 .. IdMod - 2
  /\ \/ \A j \in Slot : Kept(j)
     \/ \E i \in Slot, c \in Connection : New(i, c)

LEMMA FreeSlotType == FreeSlot \in Connection
BY SlotAssumption, LimitAssumption DEF FreeSlot, Connection, Address

(* A request on a slot that is free in the table, which is slots with that *)
(* slot freed.                                                             *)
LEMMA AssignStep ==
  ASSUME TypeOK, NEW r \in Request, NEW heard \in BOOLEAN,
         NEW keepsOwn \in BOOLEAN, NEW i \in Slot,
         NEW table \in [Slot -> Connection],
         table = slots \/ table = [slots EXCEPT ![i] = FreeSlot],
         table[i].ChannelId = 0,
         Reserved(i) => keepsOwn /\ r.type = "tunnel" /\ r.ip = res[i].ip,
         Assign(i, keepsOwn, table, r, heard)
  PROVE  OneSlot
<1> DEFINE address == TunnelAddress(i, keepsOwn, table)
           id == NextChannelId(table)
           c == [ChannelId |-> id,
                 IndividualAddress |-> IF r.type = "tunnel" THEN address ELSE 0,
                 IpAddress |-> r.ip, PeerAddress |-> r.src,
                 IsConfig |-> r.type = "config", age |-> 0, heard |-> heard]
<1>1. CurrentPool \in Pool /\ own \in Address
  BY CurrentPoolType DEF TypeOK, Pool
<1>2. \A j \in Slot \ {i} : table[j] = slots[j] BY DEF TypeOK
<1>3. /\ id \in 1 .. IdMod - 1
      /\ \A j \in Slot : table[j].ChannelId # id
  BY NextIdIsNew DEF TypeOK
<1>4. CASE r.type = "tunnel" /\ address = 0
  <2>1. slots' = table /\ lastChannelId' = lastChannelId BY <1>4 DEF Assign
  <2>2. slots' = slots \/ slots' = [slots EXCEPT ![i] = FreeSlot] BY <2>1
  <2>3. \A j \in Slot : Kept(j) BY <2>2 DEF Kept, TypeOK
  <2> QED BY <2>1, <2>3 DEF TypeOK, OneSlot
<1>5. CASE ~(r.type = "tunnel" /\ address = 0)
  <2>1. /\ slots' = [table EXCEPT ![i] = c]
        /\ lastChannelId' = IF id = IdMod - 1 THEN 0 ELSE id
    BY <1>5 DEF Assign
  <2>2. lastChannelId' \in 0 .. IdMod - 2
    <3> HIDE DEF id
    <3> QED BY <2>1, <1>3, SlotAssumption
  <2>3. r.type = "tunnel" => /\ AddressFor(i, address)
                             /\ address \in Address
    <3>1. SUFFICES ASSUME r.type = "tunnel"
                   PROVE  AddressFor(i, address) /\ address \in Address
      OBVIOUS
    <3>2. address # 0 BY <1>5, <3>1
    <3> DEFINE ad == address
    <3>3. PICK a \in Slot :
            /\ ad = CurrentPool[a]
            /\ IsUsableTunnelAddress(own, CurrentPool[a])
            /\ ~TunnelAddressInUse(table, CurrentPool[a])
            /\ IF keepsOwn THEN a = i ELSE ~Reserved(a)
      BY <1>1, <3>2, AddressGiven
    <3> HIDE DEF ad
    <3>4. ad \in Address BY <1>1, <3>3, UsableType
    <3>5. \A j \in Slot \ {i} : Open(j) => slots[j].IndividualAddress # ad
      BY <1>2, <3>3 DEF TunnelAddressInUse, Open
    <3>6. AddressFor(i, ad) BY <3>3, <3>5 DEF AddressFor
    <3> QED BY <3>4, <3>6 DEF ad
  <2> HIDE DEF address, id
  <2>4. c \in Connection
    <3>1. r.ip \in Hosts /\ r.src \in Hosts BY DEF Request
    <3>2. id \in 0 .. IdMod - 1 BY <1>3, SlotAssumption
    <3>3. (IF r.type = "tunnel" THEN address ELSE 0) \in Address
      <4>1. CASE r.type = "tunnel" BY <2>3, <4>1
      <4>2. CASE r.type # "tunnel" BY <4>2 DEF Address
      <4> QED BY <4>1, <4>2
    <3>4. 0 \in 0 .. HeartbeatLimit BY LimitAssumption
    <3> QED BY <3>1, <3>2, <3>3, <3>4 DEF Connection
  <2>5. slots' \in [Slot -> Connection] BY <2>1, <2>4
  <2>6. slots' = [slots EXCEPT ![i] = c]
    BY <2>1, <2>5 DEF TypeOK
  <2>7. r.type \in {"tunnel", "config"} BY DEF Request
  <2>8. New(i, c)
    <3>1. c.ChannelId = id /\ c.IpAddress = r.ip /\ (c.IsConfig <=> r.type = "config")
      OBVIOUS
    <3>2. c.IndividualAddress = IF r.type = "tunnel" THEN address ELSE 0 OBVIOUS
    <3>3. \A j \in Slot \ {i} : slots[j].ChannelId # id BY <1>2, <1>3
    <3>4. id # 0 BY <1>3
    <3> HIDE DEF c
    <3> QED BY <2>3, <2>6, <2>7, <3>1, <3>2, <3>3, <3>4 DEF New
  <2> QED BY <2>2, <2>4, <2>5, <2>8 DEF OneSlot
<1> QED BY <1>4, <1>5

(* What a connect request does.                                            *)
LEMMA ConnectStep ==
  ASSUME TypeOK, NEW r \in Request, NEW heard \in BOOLEAN,
         ConnectRequest(r, heard)
  PROVE  OneSlot /\ RenewPool
<1>1. CASE ConnectReserved(r, heard)
  <2> DEFINE i == Min(FreeReserved(r))
  <2>1. i \in FreeReserved(r)
    BY <1>1, MinSlot DEF ConnectReserved, FreeReserved, ReservedFor
  <2>2. Assign(i, TRUE, slots, r, heard) /\ RenewPool BY <1>1 DEF ConnectReserved
  <2> HIDE DEF i
  <2>3. /\ i \in Slot /\ slots[i].ChannelId = 0
        /\ r.type = "tunnel" /\ r.ip = res[i].ip
    BY <2>1 DEF FreeReserved, ReservedFor, Open
  <2>4. slots \in [Slot -> Connection] BY DEF TypeOK
  <2> QED BY <2>2, <2>3, <2>4, AssignStep
<1>2. CASE ConnectTakingOver(r, heard)
  <2> DEFINE i == Min(ReservedFor(r))
             table == [slots EXCEPT ![i] = FreeSlot]
  <2>1. i \in ReservedFor(r)
    BY <1>2, MinSlot DEF ConnectTakingOver, OnlyOccupied, ReservedFor
  <2>2. Assign(i, TRUE, table, r, heard) /\ RenewPool
    BY <1>2 DEF ConnectTakingOver
  <2> HIDE DEF i
  <2>3. i \in Slot /\ r.type = "tunnel" /\ r.ip = res[i].ip
    BY <2>1 DEF ReservedFor
  <2>4. table \in [Slot -> Connection] /\ table[i].ChannelId = 0
    <3>1. FreeSlot.ChannelId = 0 BY DEF FreeSlot
    <3> QED BY <2>3, <3>1, FreeSlotType DEF TypeOK
  <2> HIDE DEF table
  <2>5. table = [slots EXCEPT ![i] = FreeSlot] BY DEF table
  <2> QED BY <2>2, <2>3, <2>4, <2>5, AssignStep
<1>3. CASE ConnectUnreserved(r, heard)
  <2> DEFINE i == Min(FreeUnreserved)
  <2>1. i \in FreeUnreserved
    BY <1>3, MinSlot DEF ConnectUnreserved, FreeUnreserved
  <2>2. Assign(i, FALSE, slots, r, heard) /\ RenewPool
    BY <1>3 DEF ConnectUnreserved
  <2> HIDE DEF i
  <2>3. i \in Slot /\ slots[i].ChannelId = 0 /\ ~Reserved(i)
    BY <2>1 DEF FreeUnreserved, Open
  <2>4. slots \in [Slot -> Connection] BY DEF TypeOK
  <2> QED BY <2>2, <2>3, <2>4, AssignStep
<1>4. CASE ConnectRefused(r)
  BY <1>4 DEF ConnectRefused, Kept, TypeOK, OneSlot
<1> QED BY <1>1, <1>2, <1>3, <1>4 DEF ConnectRequest

(* What any step does to the slots.                                        *)
LEMMA SlotStep ==
  ASSUME TypeOK, [Next]_vars
  PROVE  OneSlot
<1> USE DEF TypeOK
<1>1. ASSUME NEW r \in Requests, NEW heard \in BOOLEAN, ConnectRequest(r, heard)
      PROVE  OneSlot
  <2>1. r \in Request BY RequestAssumption
  <2> QED BY <1>1, <2>1, ConnectStep
<1>2. ASSUME NEW host \in Hosts, NEW i \in Slot, ConnectionStateRequest(host, i)
      PROVE  OneSlot
  <2>1. slots' = [slots EXCEPT ![i].age = 0] /\ lastChannelId' = lastChannelId
    BY <1>2 DEF ConnectionStateRequest
  <2>2. 0 \in 0 .. HeartbeatLimit BY LimitAssumption
  <2>3. \A j \in Slot : Kept(j) BY <2>1 DEF Kept, Connection
  <2> QED BY <2>1, <2>2, <2>3 DEF Connection, OneSlot
<1>3. ASSUME NEW i \in Slot, slots' = [slots EXCEPT ![i] = FreeSlot],
             UNCHANGED lastChannelId
      PROVE  OneSlot
  <2>1. \A j \in Slot : Kept(j) BY <1>3 DEF Kept
  <2> QED BY <1>3, <2>1, FreeSlotType DEF OneSlot
<1>4. ASSUME NEW i \in Slot, ClientGone(i) PROVE OneSlot
  <2>1. slots' = [slots EXCEPT ![i].heard = FALSE] /\ lastChannelId' = lastChannelId
    BY <1>4 DEF ClientGone
  <2>2. \A j \in Slot : Kept(j) BY <2>1 DEF Kept, Connection
  <2> QED BY <2>1, <2>2 DEF Connection, OneSlot
<1>5. CASE Tick
  <2>1. /\ \A i \in Slot : Open(i) => slots[i].age < HeartbeatLimit
        /\ lastChannelId' = lastChannelId
        /\ slots' = [i \in Slot |-> IF Open(i) THEN [slots[i] EXCEPT !.age = @ + 1]
                                               ELSE slots[i]]
    BY <1>5 DEF Tick
  <2>2. \A j \in Slot : Kept(j) BY <2>1 DEF Kept, Connection
  <2>3. \A j \in Slot : slots'[j] \in Connection
    <3>1. TAKE j \in Slot
    <3>2. CASE ~Open(j) BY <2>1, <3>2
    <3>3. CASE Open(j)
      <4>1. slots[j].age + 1 \in 0 .. HeartbeatLimit
        BY <2>1, <3>3, LimitAssumption DEF Connection
      <4>2. slots'[j] = [slots[j] EXCEPT !.age = slots[j].age + 1]
        BY <2>1, <3>3
      <4> QED BY <4>1, <4>2 DEF Connection
    <3> QED BY <3>2, <3>3
  <2> QED BY <2>1, <2>2, <2>3 DEF OneSlot
<1>6. CASE UNCHANGED <<slots, lastChannelId>>
  BY <1>6 DEF Kept, OneSlot
<1>7. /\ RefreshDefendedTunnelAddresses \/ Configure => UNCHANGED <<slots, lastChannelId>>
      /\ UNCHANGED vars => UNCHANGED <<slots, lastChannelId>>
  BY DEF RefreshDefendedTunnelAddresses, Configure, vars
<1>8. ASSUME NEW i \in Slot, NEW host \in Hosts,
             DisconnectRequest(host, i) \/ HeartbeatTimeout(i) \/ CloseUnacknowledged(i)
      PROVE  OneSlot
  BY <1>3, <1>8 DEF DisconnectRequest, HeartbeatTimeout, CloseUnacknowledged
<1>9. ASSUME NEW i \in Slot, HeartbeatTimeout(i) \/ CloseUnacknowledged(i)
      PROVE  OneSlot
  BY <1>3, <1>9 DEF HeartbeatTimeout, CloseUnacknowledged
<1> QED
  BY <1>1, <1>2, <1>4, <1>5, <1>6, <1>7, <1>8, <1>9 DEF Next, Connections

-----------------------------------------------------------------------------
(* Types.                                                                  *)

(* What a step that is not a write does to the configuration.              *)
LEMMA SettledStep ==
  ASSUME TypeOK, [Connections]_vars
  PROVE  RenewPool \/ RefreshDefendedTunnelAddresses \/ UNCHANGED config
<1>1. ASSUME NEW r \in Requests, NEW heard \in BOOLEAN, ConnectRequest(r, heard)
      PROVE  RenewPool
  BY <1>1 DEF ConnectRequest, ConnectReserved, ConnectTakingOver,
              ConnectUnreserved, ConnectRefused
<1>2. ASSUME NEW i \in Slot, NEW host \in Hosts,
             ConnectionStateRequest(host, i) \/ DisconnectRequest(host, i)
      PROVE  UNCHANGED config
  BY <1>2 DEF ConnectionStateRequest, DisconnectRequest
<1>3. ASSUME NEW i \in Slot,
             HeartbeatTimeout(i) \/ CloseUnacknowledged(i) \/ ClientGone(i)
      PROVE  UNCHANGED config
  BY <1>3 DEF HeartbeatTimeout, CloseUnacknowledged, ClientGone
<1>4. Tick \/ UNCHANGED vars => UNCHANGED config
  BY DEF Tick, vars, config
<1> QED BY <1>1, <1>2, <1>3, <1>4 DEF Connections

LEMMA ConfigStep ==
  ASSUME TypeOK, [Next]_vars
  PROVE  \/ RenewPool
         \/ RefreshDefendedTunnelAddresses
         \/ Configure
         \/ UNCHANGED config
BY SettledStep DEF Next

LEMMA DefendedType ==
  ASSUME own \in Address, pool \in Pool \union {Empty}
  PROVE  DefendedPool \subseteq Address
<1>1. CurrentPool \in Pool BY CurrentPoolType
<1> QED BY <1>1 DEF DefendedPool, Pool

(* Every connection, the last channel id, pool and defended addresses keep *)
(* their types: the octet of the channel id never stands at 255, and the   *)
(* addresses made from the device's own one end below .255.                *)
THEOREM TypeCorrect == Spec => []TypeOK
<1>1. Init => TypeOK
  <2>1. SUFFICES ASSUME Init PROVE TypeOK OBVIOUS
  <2>2. own \in Address /\ pool \in Pool \union {Empty}
    BY <2>1, OwnAssumption, PoolAssumption DEF Init, Pool
  <2>3. res \in [Slot -> Reservation] \union {Empty}
    BY <2>1, ReservationAssumption DEF Init
  <2>4. defended \subseteq Address BY <2>1, <2>2, DefendedType DEF Init
  <2>5. slots \in [Slot -> Connection] BY <2>1, FreeSlotType DEF Init
  <2>6. lastChannelId \in 0 .. IdMod - 2 BY <2>1, SlotAssumption DEF Init
  <2>7. stale \in BOOLEAN BY <2>1 DEF Init
  <2> QED BY <2>2, <2>3, <2>4, <2>5, <2>6, <2>7 DEF TypeOK, Pool
<1>2. TypeOK /\ [Next]_vars => TypeOK'
  <2>1. SUFFICES ASSUME TypeOK, [Next]_vars PROVE TypeOK' OBVIOUS
  <2>2. own \in Address /\ pool \in Pool \union {Empty} BY <2>1 DEF TypeOK, Pool
  <2>3. /\ own' \in Address /\ pool' \in Pool \union {Empty}
        /\ res' \in [Slot -> Reservation] \union {Empty}
        /\ defended' \subseteq Address /\ stale' \in BOOLEAN
    <3>1. CASE RenewPool
      BY <2>1, <2>2, <3>1, CurrentPoolType DEF RenewPool, TypeOK
    <3>2. CASE RefreshDefendedTunnelAddresses
      BY <2>1, <2>2, <3>2, DefendedType DEF RefreshDefendedTunnelAddresses, TypeOK
    <3>3. CASE Configure
      <4>1. OwnAddresses \subseteq Address /\ Pools \subseteq Pool \union {Empty}
            /\ Reservations \subseteq [Slot -> Reservation] \union {Empty}
        BY OwnAssumption, PoolAssumption, ReservationAssumption DEF Pool
      <4> QED BY <2>1, <2>2, <3>3, <4>1 DEF Configure, TypeOK
    <3>4. CASE UNCHANGED config BY <2>1, <2>2, <3>4 DEF config, TypeOK
    <3> QED BY <2>1, <3>1, <3>2, <3>3, <3>4, ConfigStep
  <2> QED BY <2>1, <2>3, SlotStep DEF TypeOK, Pool, OneSlot
<1> QED BY <1>1, <1>2, PTL DEF Spec

-----------------------------------------------------------------------------
(* Channel ids and addresses.                                              *)

LEMMA DifferStep ==
  ASSUME TypeOK, TypeOK', ConnectionsDiffer, [Next]_vars
  PROVE  ConnectionsDiffer'
<1> USE DEF Open, Tunnels
<1>1. slots \in [Slot -> Connection] /\ slots' \in [Slot -> Connection]
  BY DEF TypeOK
<1>2. CASE \A j \in Slot : Kept(j)
  <2>1. \A j \in Slot :
          \/ /\ slots'[j].ChannelId = 0 /\ slots'[j].IndividualAddress = 0
             /\ slots'[j].IsConfig = FALSE
          \/ /\ slots'[j].ChannelId = slots[j].ChannelId
             /\ slots'[j].IndividualAddress = slots[j].IndividualAddress
             /\ slots'[j].IsConfig = slots[j].IsConfig
    BY <1>2 DEF Kept, FreeSlot
  <2>2. UniqueChannelIds'
    BY <2>1 DEF ConnectionsDiffer, UniqueChannelIds
  <2>3. UniqueTunnelAddresses'
    BY <2>1 DEF ConnectionsDiffer, UniqueTunnelAddresses
  <2> QED BY <2>2, <2>3 DEF ConnectionsDiffer
<1>3. ASSUME NEW i \in Slot, NEW c \in Connection, New(i, c)
      PROVE  ConnectionsDiffer'
  <2>1. /\ slots'[i] = c /\ c.ChannelId # 0
        /\ \A j \in Slot \ {i} : slots'[j] = slots[j]
    BY <1>1, <1>3 DEF New
  <2>2. UniqueChannelIds'
    <3>1. \A j \in Slot \ {i} : slots[j].ChannelId # c.ChannelId
      BY <1>3 DEF New
    <3> QED BY <2>1, <3>1 DEF ConnectionsDiffer, UniqueChannelIds
  <2>3. c.IsConfig => c.IndividualAddress = 0 BY <1>3 DEF New
  <2>4. ~c.IsConfig =>
          /\ c.IndividualAddress # 0
          /\ \A j \in Slot \ {i} :
               slots[j].ChannelId # 0 => slots[j].IndividualAddress # c.IndividualAddress
    <3>1. SUFFICES ASSUME ~c.IsConfig
                   PROVE  /\ c.IndividualAddress # 0
                          /\ \A j \in Slot \ {i} :
                               slots[j].ChannelId # 0 =>
                                 slots[j].IndividualAddress # c.IndividualAddress
      OBVIOUS
    <3>2. AddressFor(i, c.IndividualAddress) BY <1>3, <3>1 DEF New
    <3>3. IsUsableTunnelAddress(own, c.IndividualAddress) BY <3>2 DEF AddressFor
    <3>4. 0 % 256 = 0 OBVIOUS
    <3>5. c.IndividualAddress # 0
      BY <3>3, <3>4 DEF IsUsableTunnelAddress, Device
    <3> QED BY <3>2, <3>5 DEF AddressFor
  <2>5. c.IsConfig \in BOOLEAN BY DEF Connection
  <2>6. UniqueTunnelAddresses'
    <3>1. \A j \in Slot : (j \in Tunnels') <=> slots'[j].ChannelId # 0 /\ ~slots'[j].IsConfig
      OBVIOUS
    <3>2. \A j \in Slot : (j \in Tunnels') <=> slots'[j].IndividualAddress # 0
      BY <2>1, <2>3, <2>4, <2>5 DEF ConnectionsDiffer, UniqueTunnelAddresses
    <3>3. ASSUME NEW j \in Tunnels', NEW k \in Tunnels', j # k
          PROVE  slots'[j].IndividualAddress # slots'[k].IndividualAddress
      <4>1. CASE j # i /\ k # i
        BY <2>1, <3>3, <4>1 DEF ConnectionsDiffer, UniqueTunnelAddresses
      <4>2. CASE j = i
        <5>1. ~c.IsConfig /\ k \in Slot \ {i} /\ slots[k].ChannelId # 0
          BY <2>1, <3>3, <4>2
        <5> QED BY <2>1, <2>4, <4>2, <5>1
      <4>3. CASE k = i
        <5>1. ~c.IsConfig /\ j \in Slot \ {i} /\ slots[j].ChannelId # 0
          BY <2>1, <3>3, <4>3
        <5> QED BY <2>1, <2>4, <4>3, <5>1
      <4> QED BY <4>1, <4>2, <4>3
    <3> QED BY <3>2, <3>3 DEF UniqueTunnelAddresses
  <2> QED BY <2>2, <2>6 DEF ConnectionsDiffer
<1> QED BY <1>2, <1>3, SlotStep DEF OneSlot

(* No two connections share a channel id and no two tunnels an individual  *)
(* address, for every number of slots below the number of ids, though the  *)
(* ids wrap and pool and reservations are rewritten under open tunnels.    *)
THEOREM ConnectionsApart == Spec => []ConnectionsDiffer
<1>1. Init => ConnectionsDiffer
  BY DEF Init, ConnectionsDiffer, UniqueChannelIds, UniqueTunnelAddresses,
         Tunnels, Open, FreeSlot
<1>2. TypeOK /\ TypeOK' /\ ConnectionsDiffer /\ [Next]_vars => ConnectionsDiffer'
  BY DifferStep
<1> QED BY <1>1, <1>2, TypeCorrect, PTL DEF Spec

-----------------------------------------------------------------------------
(* Defended addresses.                                                     *)

(* Between a write and the next refresh they may be anything.              *)
DefendedAgrees == ~stale => defended = DefendedPool

LEMMA DefendedStep ==
  ASSUME TypeOK, DefendedAgrees, [Next]_vars
  PROVE  DefendedAgrees'
<1>1. own \in Address /\ pool \in Pool \union {Empty} BY DEF TypeOK, Pool
<1>2. CASE RenewPool
  <2>1. own' = own /\ pool' = CurrentPool /\ defended' = defended /\ stale' = stale
    BY <1>2 DEF RenewPool
  <2>2. DefendedPool' = DefendedPool
    BY <1>1, <2>1, RenewKeepsPool, RenewKeepsDefended
  <2> QED BY <2>1, <2>2 DEF DefendedAgrees
<1>3. CASE RefreshDefendedTunnelAddresses
  BY <1>3 DEF RefreshDefendedTunnelAddresses, DefendedAgrees, DefendedPool, CurrentPool
<1>4. CASE Configure
  BY <1>4 DEF Configure, DefendedAgrees
<1>5. CASE UNCHANGED config
  BY <1>5 DEF config, DefendedAgrees, DefendedPool, CurrentPool
<1> QED BY <1>2, <1>3, <1>4, <1>5, ConfigStep

(* Unless something was written since, the address a connect hands out is  *)
(* one the last refresh put under defence.                                 *)
THEOREM AddressesDefended == Spec => NewAddressIsDefended
<1>1. Init => DefendedAgrees BY DEF Init, DefendedAgrees
<1>2. TypeOK /\ DefendedAgrees /\ [Next]_vars => DefendedAgrees'
  BY DefendedStep
<1>3. TypeOK /\ DefendedAgrees /\ [Next]_vars =>
        [\A i \in Slot : NewTunnel(i) /\ ~stale /\ own # Unprogrammed =>
           slots'[i].IndividualAddress \in defended]_vars
  <2>1. SUFFICES ASSUME TypeOK, DefendedAgrees, [Next]_vars, NEW i \in Slot,
                        NewTunnel(i), ~stale, own # Unprogrammed
                 PROVE  slots'[i].IndividualAddress \in defended
    OBVIOUS
  <2>2. ~Kept(i)
    BY <2>1 DEF NewTunnel, Tunnels, Open, Kept, FreeSlot
  <2>3. PICK j \in Slot, c \in Connection : New(j, c)
    BY <2>1, <2>2, SlotStep DEF OneSlot
  <2>4. j = i /\ slots'[i] = c
    BY <2>1, <2>3 DEF New, TypeOK, NewTunnel
  <2>5. ~c.IsConfig BY <2>1, <2>4 DEF NewTunnel, Tunnels
  <2>6. AddressFor(i, c.IndividualAddress) BY <2>3, <2>4, <2>5 DEF New
  <2>7. c.IndividualAddress \in DefendedPool
    BY <2>1, <2>6 DEF AddressFor, DefendedPool
  <2> QED BY <2>1, <2>4, <2>7 DEF DefendedAgrees
<1> QED BY <1>1, <1>2, <1>3, TypeCorrect, PTL DEF Spec, NewAddressIsDefended

-----------------------------------------------------------------------------
(* Reserved slots.                                                         *)

(* Who is on a reserved slot, and who has its address: nobody but a tunnel *)
(* on that slot, if the pool has the address once.                         *)
ReservationsHeld ==
  \A i \in Slot : Reserved(i) =>
    /\ Open(i) => slots[i].IpAddress = res[i].ip /\ ~slots[i].IsConfig
    /\ (\A j \in Slot \ {i} : CurrentPool[j] # CurrentPool[i]) =>
         \A j \in Tunnels \ {i} : slots[j].IndividualAddress # CurrentPool[i]

LEMMA HeldStep ==
  ASSUME TypeOK, ReservationsHeld, [Connections]_vars
  PROVE  ReservationsHeld'
<1>1. [Next]_vars BY DEF Next
<1>2. own \in Address /\ pool \in Pool \union {Empty} BY DEF TypeOK, Pool
<1>3. res' = res /\ CurrentPool' = CurrentPool
  <2>1. CASE RenewPool
    <3>1. own' = own /\ pool' = CurrentPool /\ res' = res BY <2>1 DEF RenewPool
    <3> QED BY <1>2, <3>1, RenewKeepsPool
  <2>2. RefreshDefendedTunnelAddresses \/ UNCHANGED config => UNCHANGED <<own, pool, res>>
    BY DEF RefreshDefendedTunnelAddresses, config
  <2>3. UNCHANGED <<own, pool, res>> => res' = res /\ CurrentPool' = CurrentPool
    BY DEF CurrentPool
  <2> QED BY <2>1, <2>2, <2>3, SettledStep
<1>4. \A i \in Slot : Reserved(i)' <=> Reserved(i) BY <1>3 DEF Reserved
<1>5. slots \in [Slot -> Connection] BY DEF TypeOK
<1>6. SUFFICES ASSUME NEW i \in Slot, Reserved(i)
               PROVE  /\ Open(i)' => slots'[i].IpAddress = res[i].ip /\ ~slots'[i].IsConfig
                      /\ (\A j \in Slot \ {i} : CurrentPool[j] # CurrentPool[i]) =>
                           \A j \in Tunnels' \ {i} :
                             slots'[j].IndividualAddress # CurrentPool[i]
  BY <1>3, <1>4 DEF ReservationsHeld
<1>7. /\ Open(i) => slots[i].IpAddress = res[i].ip /\ ~slots[i].IsConfig
      /\ (\A j \in Slot \ {i} : CurrentPool[j] # CurrentPool[i]) =>
           \A j \in Tunnels \ {i} : slots[j].IndividualAddress # CurrentPool[i]
  BY <1>6 DEF ReservationsHeld
<1>8. CASE \A j \in Slot : Kept(j)
  <2>1. \A j \in Slot :
          \/ slots'[j].ChannelId = 0
          \/ /\ slots'[j].ChannelId = slots[j].ChannelId
             /\ slots'[j].IndividualAddress = slots[j].IndividualAddress
             /\ slots'[j].IpAddress = slots[j].IpAddress
             /\ slots'[j].IsConfig = slots[j].IsConfig
    BY <1>8 DEF Kept, FreeSlot
  <2> QED BY <1>7, <2>1 DEF Open, Tunnels
<1>9. ASSUME NEW n \in Slot, NEW c \in Connection, New(n, c)
      PROVE  /\ Open(i)' => slots'[i].IpAddress = res[i].ip /\ ~slots'[i].IsConfig
             /\ (\A j \in Slot \ {i} : CurrentPool[j] # CurrentPool[i]) =>
                  \A j \in Tunnels' \ {i} :
                    slots'[j].IndividualAddress # CurrentPool[i]
  <2>1. slots'[n] = c /\ \A j \in Slot \ {n} : slots'[j] = slots[j]
    BY <1>5, <1>9 DEF New
  <2>2. Open(i)' => slots'[i].IpAddress = res[i].ip /\ ~slots'[i].IsConfig
    <3>1. CASE n = i BY <1>6, <1>9, <2>1, <3>1 DEF New
    <3>2. CASE n # i BY <1>7, <2>1, <3>2 DEF Open
    <3> QED BY <3>1, <3>2
  <2>3. ASSUME \A j \in Slot \ {i} : CurrentPool[j] # CurrentPool[i],
               NEW j \in Tunnels' \ {i}
        PROVE  slots'[j].IndividualAddress # CurrentPool[i]
    <3>1. CASE n # j
      <4>1. j \in Tunnels \ {i} BY <2>1, <3>1 DEF Tunnels, Open
      <4> QED BY <1>7, <2>1, <2>3, <3>1, <4>1 DEF Tunnels
    <3>2. CASE n = j
      <4>1. ~c.IsConfig BY <2>1, <3>2 DEF Tunnels
      <4>2. PICK a \in Slot : c.IndividualAddress = CurrentPool[a] /\ (a = n \/ ~Reserved(a))
        BY <1>9, <4>1 DEF New, AddressFor
      <4>3. a # i BY <1>6, <3>2, <4>2
      <4> QED BY <2>1, <2>3, <3>2, <4>2, <4>3
    <3> QED BY <3>1, <3>2
  <2> QED BY <2>2, <2>3
<1> QED BY <1>1, <1>8, <1>9, SlotStep DEF OneSlot

(* With a settled configuration a reserved slot and its address stay free  *)
(* for the client they are reserved for.                                   *)
THEOREM ReservationsKept == SettledSpec => []ReservedSlotsKept
<1>1. SettledSpec => Spec
  <2>1. [Connections]_vars => [Next]_vars BY DEF Next
  <2> QED BY <2>1, PTL DEF SettledSpec, Spec
<1>2. Init => ReservationsHeld
  BY DEF Init, ReservationsHeld, Open, Tunnels, FreeSlot
<1>3. TypeOK /\ ReservationsHeld /\ [Connections]_vars => ReservationsHeld'
  BY HeldStep
<1>4. ReservationsHeld => ReservedSlotsKept
  BY DEF ReservationsHeld, ReservedSlotsKept, Tunnels
<1> QED BY <1>1, <1>2, <1>3, <1>4, TypeCorrect, PTL DEF SettledSpec

=============================================================================
