--------------------------- MODULE BVHPager_proofs ---------------------------
(***************************************************************************)
(* The pager throws away exactly what has not been used for longer than    *)
(* `expiry', and loses no request, for any nodes, any width of the use     *)
(* stamps and any bounds.                                                  *)
(***************************************************************************)
EXTENDS BVHPager, TLAPS

(* The list has every node once, the longest unused first.                 *)
ListOrdered ==
    /\ \A i, j \in DOMAIN pageNodeList :
          pageNodeList[i] = pageNodeList[j] => i = j
    /\ \A i, j \in DOMAIN pageNodeList :
          i <= j => age[pageNodeList[j]] <= age[pageNodeList[i]]

(* A stamp is the age of its node back from the stamp of the pager, and no *)
(* node of the list is older than the last update has left it.             *)
StampsAreAges ==
    \A n \in Listed :
        /\ stamp[n] + age[n] \in {useStamp, useStamp + Modulus}
        /\ age[n] <= Expiry + lag

(* What the loader loads is a node.                                        *)
LoadsANode == loader.pc = "load" => loader.node \in Nodes

ExpiryInv == TypeOK /\ LoadsANode /\ ListOrdered /\ StampsAreAges

-----------------------------------------------------------------------------
LEMMA ModulusFacts ==
    /\ Half \in Nat \ {0} /\ Expiry \in Nat /\ Expiry < Half
    /\ MaxLag \in Nat /\ MaxLag <= Half
    /\ Modulus \in Nat \ {0} /\ Modulus = Half + Half
BY PagerAssumption DEF Modulus

(* Wrapping around once, either way.                                       *)
LEMMA ModSmall == ASSUME NEW M \in Nat \ {0}, NEW x \in 0 .. M - 1 PROVE x % M = x
OBVIOUS

LEMMA ModUp == ASSUME NEW M \in Nat \ {0}, NEW x \in M .. 2 * M - 1 PROVE x % M = x - M
OBVIOUS

LEMMA ModDown == ASSUME NEW M \in Nat \ {0}, NEW x \in -M .. -1 PROVE x % M = x + M
OBVIOUS

LEMMA ListedFacts ==
    ASSUME TypeOK
    PROVE  /\ Listed \subseteq Nodes
           /\ \A i \in DOMAIN pageNodeList : pageNodeList[i] \in Listed
           /\ \A n \in Listed : \E i \in DOMAIN pageNodeList : pageNodeList[i] = n
BY DEF TypeOK, Listed, Range

(* The sign bit tells whether a node of the list has been used.            *)
LEMMA SignBit ==
    ASSUME ExpiryInv, NEW n \in Listed
    PROVE  InUse(n) <=> age[n] <= Expiry
<1> DEFINE x == stamp[n] - (useStamp - Expiry)
<1>1. /\ stamp[n] \in 0 .. Modulus - 1 /\ useStamp \in 0 .. Modulus - 1
      /\ age[n] \in Nat /\ lag \in 0 .. MaxLag
  BY ListedFacts DEF ExpiryInv, TypeOK
<1>2. age[n] <= Expiry + lag /\ stamp[n] + age[n] \in {useStamp, useStamp + Modulus}
  BY DEF ExpiryInv, StampsAreAges
<1>3. x \in {Expiry - age[n], Expiry - age[n] + Modulus}
  BY <1>1, <1>2, ModulusFacts
<1>4. x % Modulus = IF age[n] <= Expiry THEN Expiry - age[n] ELSE Expiry - age[n] + Modulus
  <2> HIDE DEF x
  <2>1. CASE age[n] <= Expiry /\ x = Expiry - age[n]
    BY <2>1, <1>1, ModulusFacts, ModSmall
  <2>2. CASE age[n] <= Expiry /\ x = Expiry - age[n] + Modulus
    BY <2>2, <1>1, ModulusFacts, ModUp
  <2>3. CASE age[n] > Expiry /\ x = Expiry - age[n]
    <3>1. x \in -Modulus .. -1
      BY <2>3, <1>1, <1>2, ModulusFacts
    <3>2. QED
      BY <1>1, <2>3, <3>1, ModulusFacts, ModDown
  <2>4. CASE age[n] > Expiry /\ x = Expiry - age[n] + Modulus
    <3>1. x \in 0 .. Modulus - 1
      BY <2>4, <1>1, <1>2, ModulusFacts
    <3>2. QED
      BY <1>1, <2>4, <3>1, ModulusFacts, ModSmall
  <2>5. QED
    BY <1>1, <1>3, <2>1, <2>2, <2>3, <2>4, ModulusFacts
<1>5. QED
  BY <1>1, <1>2, <1>4, ModulusFacts DEF InUse

LEMMA InitExpiry == Init => ExpiryInv
<1>1. SUFFICES ASSUME Init PROVE ExpiryInv
  OBVIOUS
<1>2. TypeOK
  <2>1. stamp \in [Nodes -> 0 .. Modulus - 1] /\ age \in [Nodes -> Nat]
    BY <1>1, ModulusFacts DEF Init
  <2>2. useStamp \in 0 .. Modulus - 1 /\ lag \in 0 .. MaxLag
    BY <1>1, ModulusFacts DEF Init
  <2>3. content \in [Nodes -> BOOLEAN]
    BY <1>1 DEF Init
  <2>4. loader \in [pc : {"none", "pop", "check", "asleep", "load", "ended"},
                    node : Nodes \cup {NoNode}]
    BY <1>1 DEF Init
  <2>5. /\ pageNodeList \in Seq(Nodes) /\ processed \in Seq(Nodes)
        /\ pending \in Seq(Nodes \cup {NoNode})
    BY <1>1 DEF Init
  <2>6. QED
    BY <1>1, <2>1, <2>2, <2>3, <2>4, <2>5 DEF Init, TypeOK
<1>3. Listed = {} /\ DOMAIN pageNodeList = {}
  BY <1>1 DEF Init, Listed, Range
<1>4. QED
  BY <1>1, <1>2, <1>3 DEF Init, ExpiryInv, LoadsANode, ListOrdered, StampsAreAges

-----------------------------------------------------------------------------
(* Types.                                                                  *)

LEMMA ModRange == ASSUME NEW M \in Nat \ {0}, NEW x \in Int PROVE x % M \in 0 .. M - 1
OBVIOUS

LoaderStates == [pc : {"none", "pop", "check", "asleep", "load", "ended"},
                 node : Nodes \cup {NoNode}]

LEMMA PushType ==
    ASSUME TypeOK, LoadsANode, NEW r \in Nodes \cup {NoNode}, Push(r)
    PROVE  /\ pending' \in Seq(Nodes \cup {NoNode}) /\ ready' \in BOOLEAN
           /\ loader' \in LoaderStates /\ LoadsANode'
<1>1. pending' \in Seq(Nodes \cup {NoNode})
  BY DEF TypeOK, Push
<1>2. ready' \in BOOLEAN
  BY Zenon DEF TypeOK, Push
<1>3. loader' \in LoaderStates
  BY DEF TypeOK, Push, LoaderStates
<1>4. LoadsANode'
  BY DEF TypeOK, Push, LoadsANode
<1>5. QED
  BY <1>1, <1>2, <1>3, <1>4

LEMMA LoaderTypes == ASSUME TypeOK, LoadsANode, Loader \/ Disturbance PROVE TypeOK' /\ LoadsANode'
<1> USE DEF Loader, Disturbance, LoaderGoes
<1>1. CASE Pop /\ UNCHANGED processed
  <2>1. pending # <<>> /\ Head(pending) \in Nodes \cup {NoNode}
        /\ Tail(pending) \in Seq(Nodes \cup {NoNode})
    BY <1>1 DEF TypeOK, Pop
  <2>2. loader' \in LoaderStates /\ LoadsANode'
    BY <1>1, <2>1 DEF TypeOK, LoaderStates, LoadsANode, Pop
  <2>3. QED
    BY <1>1, <2>1, <2>2 DEF TypeOK, LoaderStates, Pop
<1>2. CASE PopWaits /\ UNCHANGED processed
  BY <1>2 DEF TypeOK, LoadsANode, PopWaits
<1>3. CASE Check /\ UNCHANGED processed
  <2>1. loader' \in LoaderStates /\ LoadsANode'
    BY <1>3 DEF TypeOK, LoaderStates, LoadsANode, Check
  <2>2. QED
    BY <1>3, <2>1 DEF TypeOK, LoaderStates, Check
<1>4. CASE Load /\ UNCHANGED <<pending, ready>>
  BY <1>4 DEF TypeOK, LoadsANode, Load
<1>5. CASE SpuriousWakeup /\ UNCHANGED processed
  BY <1>5 DEF TypeOK, LoadsANode, SpuriousWakeup
<1>6. QED
  BY <1>1, <1>2, <1>3, <1>4, <1>5

(* Moving an entry to the end of the list moves those behind it forward.   *)
LEMMA MovedFacts ==
    ASSUME TypeOK, NEW k \in DOMAIN pageNodeList
    PROVE  /\ MovedToEnd(k) \in Seq(Nodes)
           /\ Len(MovedToEnd(k)) = Len(pageNodeList)
           /\ DOMAIN MovedToEnd(k) = DOMAIN pageNodeList
           /\ DOMAIN pageNodeList = 1 .. Len(pageNodeList)
           /\ \A i \in DOMAIN pageNodeList :
                 MovedToEnd(k)[i] = pageNodeList[IF i < k THEN i
                                                 ELSE IF i < Len(pageNodeList) THEN i + 1 ELSE k]
<1> DEFINE at(i) == IF i < k THEN i ELSE IF i < Len(pageNodeList) THEN i + 1 ELSE k
<1>1. DOMAIN pageNodeList = 1 .. Len(pageNodeList) /\ Len(pageNodeList) \in Nat
  BY DEF TypeOK
<1>2. \A i \in DOMAIN pageNodeList : at(i) \in DOMAIN pageNodeList
  BY <1>1
<1>3. \A i \in DOMAIN pageNodeList : pageNodeList[at(i)] \in Nodes
  BY <1>1, <1>2 DEF TypeOK
<1>4. MovedToEnd(k) = [i \in 1 .. Len(pageNodeList) |-> pageNodeList[at(i)]]
  BY <1>1, Zenon DEF MovedToEnd
<1> HIDE DEF at
<1>5. MovedToEnd(k) \in Seq(Nodes) /\ Len(MovedToEnd(k)) = Len(pageNodeList)
  BY <1>1, <1>3, <1>4
<1>6. \A i \in DOMAIN pageNodeList : MovedToEnd(k)[i] = pageNodeList[at(i)]
  BY <1>1, <1>4
<1>7. QED
  BY <1>1, <1>4, <1>5, <1>6 DEF at

LEMMA MainTypes ==
    ASSUME TypeOK, LoadsANode,
           Program \/ Update \/ Insert \/ Inserted \/ Expire \/ Joined
    PROVE  TypeOK' /\ LoadsANode'
<1>1. CASE Start \/ Joined
  <2>1. loader' \in LoaderStates /\ LoadsANode'
    <3>1. CASE Start
      BY <3>1 DEF LoaderStates, LoadsANode, Start
    <3>2. CASE Joined
      BY <3>2 DEF TypeOK, LoaderStates, LoadsANode, Joined, LoaderGoes
    <3>3. QED
      BY <1>1, <3>1, <3>2
  <2>2. QED
    BY <1>1, <2>1 DEF TypeOK, LoaderStates, Start, Joined
<1>2. CASE Stop
  <2>1. Push(NoNode)
    BY <1>2 DEF Stop
  <2>2. QED
    BY <1>2, <2>1, PushType DEF TypeOK, LoaderStates, Stop
<1>3. ASSUME NEW step \in 1 .. MaxLag, SetUseStamp(step)
      PROVE  TypeOK' /\ LoadsANode'
  <2>1. useStamp' \in 0 .. Modulus - 1
    <3>1. useStamp + step \in Int
      BY ModulusFacts DEF TypeOK
    <3>2. QED
      BY <1>3, <3>1, ModulusFacts, ModRange DEF SetUseStamp
  <2>2. age' \in [Nodes -> Nat]
    BY <1>3, ModulusFacts DEF TypeOK, SetUseStamp
  <2>3. lag' \in 0 .. MaxLag
    BY <1>3, ModulusFacts DEF TypeOK, SetUseStamp
  <2>4. QED
    BY <1>3, <2>1, <2>2, <2>3 DEF TypeOK, LoadsANode, SetUseStamp
<1>4. ASSUME NEW n \in Nodes, UseListed(n)
      PROVE  TypeOK' /\ LoadsANode'
  <2>1. pageNodeList' \in Seq(Nodes)
    BY <1>4, MovedFacts DEF UseListed
  <2>2. stamp' \in [Nodes -> 0 .. Modulus - 1] /\ age' \in [Nodes -> Nat]
    BY <1>4 DEF TypeOK, UseListed, Used
  <2>3. QED
    BY <1>4, <2>1, <2>2 DEF TypeOK, LoadsANode, UseListed, Used
<1>5. ASSUME NEW n \in Nodes, UseRequested(n)
      PROVE  TypeOK' /\ LoadsANode'
  <2>1. stamp' \in [Nodes -> 0 .. Modulus - 1] /\ age' \in [Nodes -> Nat]
    BY <1>5 DEF TypeOK, UseRequested, Used
  <2>2. pageNodeList' \in Seq(Nodes)
    BY <1>5 DEF TypeOK, UseRequested
  <2>3. content' \in [Nodes -> BOOLEAN]
    BY <1>5 DEF TypeOK, UseRequested
  <2>4. /\ pending' \in Seq(Nodes \cup {NoNode}) /\ ready' \in BOOLEAN
        /\ loader' \in LoaderStates /\ LoadsANode'
    <3>1. CASE Push(n)
      BY <3>1, PushType
    <3>2. CASE UNCHANGED <<pending, ready, loader>>
      BY <3>2 DEF TypeOK, LoadsANode, LoaderStates
    <3>3. QED
      BY <1>5, <3>1, <3>2 DEF UseRequested
  <2>5. QED
    BY <1>5, <2>1, <2>2, <2>3, <2>4 DEF TypeOK, LoaderStates, UseRequested, Used
<1>6. CASE Update \/ Inserted
  BY <1>6 DEF TypeOK, LoadsANode, Update, Inserted
<1>7. CASE Insert
  <2>1. content' \in [Nodes -> BOOLEAN] /\ processed' \in Seq(Nodes)
    BY <1>7 DEF TypeOK, Insert
  <2>2. QED
    BY <1>7, <2>1 DEF TypeOK, LoadsANode, Insert
<1>8. CASE Expire
  <2>1. PICK k \in 0 .. Len(pageNodeList) :
           /\ pageNodeList' = SubSeq(pageNodeList, k + 1, Len(pageNodeList))
           /\ content' = [n \in Nodes |->
                            /\ content[n]
                            /\ \A i \in 1 .. k : n # pageNodeList[i]]
    BY <1>8 DEF Expire
  <2>2. pageNodeList' \in Seq(Nodes)
    BY <2>1 DEF TypeOK
  <2>3. content' \in [Nodes -> BOOLEAN]
    BY <2>1, Zenon
  <2>4. lag' \in 0 .. MaxLag
    BY <1>8, ModulusFacts DEF Expire
  <2>5. QED
    BY <1>8, <2>2, <2>3, <2>4 DEF TypeOK, LoadsANode, Expire
<1>9. QED
  BY <1>1, <1>2, <1>3, <1>4, <1>5, <1>6, <1>7, <1>8 DEF Program

-----------------------------------------------------------------------------
(* Expiry.                                                                 *)

LEMMA SetUseStampKeeps ==
    ASSUME ExpiryInv, NEW step \in 1 .. MaxLag, SetUseStamp(step)
    PROVE  ListOrdered' /\ StampsAreAges'
<1>1. Listed' = Listed /\ pageNodeList' = pageNodeList /\ stamp' = stamp
  BY DEF SetUseStamp, Listed
<1>2. \A n \in Listed : age'[n] = age[n] + step
  BY ListedFacts DEF ExpiryInv, SetUseStamp
<1>3. /\ step \in Nat /\ lag \in Nat /\ lag' = lag + step /\ lag + step <= MaxLag
      /\ \A n \in Listed : age[n] \in Nat /\ stamp[n] \in 0 .. Modulus - 1
      /\ useStamp \in 0 .. Modulus - 1
  BY ListedFacts, ModulusFacts DEF ExpiryInv, TypeOK, SetUseStamp
<1>4. useStamp' = IF useStamp + step < Modulus THEN useStamp + step ELSE useStamp + step - Modulus
  <2>1. CASE useStamp + step < Modulus
    <3>1. useStamp + step \in 0 .. Modulus - 1
      BY <1>3, <2>1, ModulusFacts
    <3>2. QED
      BY <2>1, <3>1, ModulusFacts, ModSmall DEF SetUseStamp
  <2>2. CASE ~(useStamp + step < Modulus)
    <3> DEFINE x == useStamp + step
    <3>1. x \in Modulus .. 2 * Modulus - 1
      BY <1>3, <2>2, ModulusFacts
    <3>2. x % Modulus = x - Modulus
      <4> HIDE DEF x
      <4>1. QED
        BY <3>1, ModulusFacts, ModUp
    <3>3. useStamp' = x % Modulus
      BY DEF SetUseStamp
    <3>4. useStamp' = x - Modulus
      <4> HIDE DEF x
      <4>1. QED
        BY <3>2, <3>3
    <3>5. QED
      BY <1>3, <2>2, <3>4, ModulusFacts
  <2>3. QED
    BY <2>1, <2>2
<1>5. ListOrdered'
  BY <1>1, <1>2, <1>3, ListedFacts DEF ExpiryInv, ListOrdered
<1>6. StampsAreAges'
  <2>1. SUFFICES ASSUME NEW n \in Listed
                 PROVE  /\ stamp[n] + age[n] + step \in {useStamp', useStamp' + Modulus}
                        /\ age[n] + step <= Expiry + lag'
    BY <1>1, <1>2, <1>3 DEF StampsAreAges, Modulus
  <2>2. age[n] <= Expiry + lag /\ stamp[n] + age[n] \in {useStamp, useStamp + Modulus}
    BY DEF ExpiryInv, StampsAreAges
  <2>3. QED
    BY <1>3, <1>4, <2>2, ModulusFacts
<1>7. QED
  BY <1>5, <1>6

LEMMA UseListedKeeps ==
    ASSUME ExpiryInv, NEW n \in Nodes, UseListed(n)
    PROVE  ListOrdered' /\ StampsAreAges'
<1> DEFINE len == Len(pageNodeList)
<1>1. PICK k \in DOMAIN pageNodeList : pageNodeList[k] = n /\ pageNodeList' = MovedToEnd(k)
  BY DEF UseListed
<1> DEFINE at(i) == IF i < k THEN i ELSE IF i < len THEN i + 1 ELSE k
<1>2. /\ DOMAIN pageNodeList = 1 .. len /\ DOMAIN pageNodeList' = 1 .. len /\ len \in Nat
      /\ \A i \in 1 .. len : pageNodeList'[i] = pageNodeList[at(i)] /\ at(i) \in 1 .. len
  <2>1. /\ DOMAIN MovedToEnd(k) = DOMAIN pageNodeList /\ DOMAIN pageNodeList = 1 .. len
        /\ \A i \in DOMAIN pageNodeList : MovedToEnd(k)[i] = pageNodeList[at(i)]
    BY MovedFacts DEF ExpiryInv
  <2>2. len \in Nat
    BY DEF ExpiryInv, TypeOK
  <2>3. \A i \in 1 .. len : at(i) \in 1 .. len
    BY <2>1, <2>2
  <2> HIDE DEF at, len
  <2>4. QED
    BY <1>1, <2>1, <2>2, <2>3
<1>3. Listed' \subseteq Listed
  BY <1>2 DEF Listed, Range
<1>4. /\ \A m \in Nodes : age'[m] = IF m = n THEN 0 ELSE age[m]
      /\ \A m \in Nodes : stamp'[m] = IF m = n THEN useStamp ELSE stamp[m]
      /\ useStamp' = useStamp /\ lag' = lag
  BY DEF ExpiryInv, TypeOK, UseListed, Used
<1>5. \A i, j \in 1 .. len : i <= j => at(i) <= at(j) \/ j = len
  BY <1>2
<1>6. \A i, j \in 1 .. len : at(i) = at(j) => i = j
  <2>1. k \in 1 .. len /\ len \in Nat
    BY <1>1, <1>2
  <2> HIDE DEF len
  <2>2. \A i \in 1 .. len : /\ i < k => at(i) = i
                            /\ k <= i /\ i < len => at(i) = i + 1
                            /\ i = len => at(i) = k
    <3>1. ASSUME NEW i \in 1 .. len, i < k PROVE at(i) = i
      BY <3>1
    <3>2. ASSUME NEW i \in 1 .. len, k <= i, i < len PROVE at(i) = i + 1
      <4>1. ~(i < k)
        BY <2>1, <3>2
      <4>2. QED
        BY <3>2, <4>1
    <3>3. ASSUME NEW i \in 1 .. len, i = len PROVE at(i) = k
      <4>1. ~(i < k) /\ ~(i < len)
        BY <2>1, <3>3
      <4>2. QED
        BY <4>1
    <3> HIDE DEF at
    <3>4. QED
      BY <3>1, <3>2, <3>3
  <2> HIDE DEF at
  <2>3. SUFFICES ASSUME NEW i \in 1 .. len, NEW j \in 1 .. len, at(i) = at(j)
                 PROVE  i = j
    OBVIOUS
  <2>4. QED
    BY <2>1, <2>2, <2>3
<1>7. at(len) = k /\ \A i \in 1 .. len : at(i) = k => i = len
  <2>1. k \in 1 .. len /\ len \in Nat
    BY <1>1, <1>2
  <2> HIDE DEF len
  <2>2. at(len) = k
    BY <2>1
  <2>3. ASSUME NEW i \in 1 .. len, at(i) = k PROVE i = len
    BY <2>1, <2>3
  <2>4. QED
    BY <2>2, <2>3
<1> HIDE DEF at, len
<1>8. \A i, j \in DOMAIN pageNodeList' : pageNodeList'[i] = pageNodeList'[j] => i = j
  BY <1>2, <1>6 DEF ExpiryInv, ListOrdered
<1>9. \A i, j \in DOMAIN pageNodeList' :
         i <= j => age'[pageNodeList'[j]] <= age'[pageNodeList'[i]]
  <2>1. SUFFICES ASSUME NEW i \in 1 .. len, NEW j \in 1 .. len, i <= j
                 PROVE  age'[pageNodeList[at(j)]] <= age'[pageNodeList[at(i)]]
    BY <1>2
  <2>2. /\ pageNodeList[at(i)] \in Nodes /\ pageNodeList[at(j)] \in Nodes
        /\ age[pageNodeList[at(i)]] \in Nat
    BY <1>2, ListedFacts DEF ExpiryInv, TypeOK
  <2>3. CASE j = len
    BY <1>1, <1>4, <1>7, <2>2, <2>3
  <2>4. CASE j # len
    <3>1. at(i) # k /\ at(j) # k /\ at(i) <= at(j)
      BY <1>2, <1>5, <1>7, <2>1, <2>4
    <3>2. pageNodeList[at(i)] # n /\ pageNodeList[at(j)] # n
      BY <1>1, <1>2, <3>1 DEF ExpiryInv, ListOrdered
    <3>3. age[pageNodeList[at(j)]] <= age[pageNodeList[at(i)]]
      BY <1>2, <3>1 DEF ExpiryInv, ListOrdered
    <3>4. QED
      BY <1>4, <2>2, <3>2, <3>3
  <2>5. QED
    BY <2>3, <2>4
<1>10. StampsAreAges'
  <2>1. SUFFICES ASSUME NEW m \in Listed
                 PROVE  /\ stamp'[m] + age'[m] \in {useStamp, useStamp + Modulus}
                        /\ age'[m] <= Expiry + lag
    BY <1>3, <1>4 DEF StampsAreAges, Modulus
  <2>2. m \in Nodes /\ useStamp \in Nat /\ lag \in Nat
    BY ListedFacts, ModulusFacts DEF ExpiryInv, TypeOK
  <2>3. QED
    BY <1>4, <2>2, ModulusFacts DEF ExpiryInv, StampsAreAges
<1>11. QED
  BY <1>8, <1>9, <1>10 DEF ListOrdered

LEMMA UseRequestedKeeps ==
    ASSUME ExpiryInv, NEW n \in Nodes, UseRequested(n)
    PROVE  ListOrdered' /\ StampsAreAges'
<1> DEFINE len == Len(pageNodeList)
<1>1. /\ n \notin Listed
      /\ DOMAIN pageNodeList = 1 .. len /\ DOMAIN pageNodeList' = 1 .. len + 1 /\ len \in Nat
      /\ pageNodeList'[len + 1] = n
      /\ \A i \in 1 .. len : pageNodeList'[i] = pageNodeList[i] /\ pageNodeList[i] \in Listed
  <2>1. /\ n \notin Listed /\ pageNodeList' = Append(pageNodeList, n)
        /\ pageNodeList \in Seq(Nodes)
    BY DEF ExpiryInv, TypeOK, UseRequested
  <2>2. \A i \in DOMAIN pageNodeList : pageNodeList[i] \in Listed
    BY ListedFacts DEF ExpiryInv
  <2>3. QED
    BY <2>1, <2>2
<1>2. Listed' \subseteq Listed \cup {n}
  BY <1>1 DEF Listed, Range
<1>3. /\ \A m \in Nodes : age'[m] = IF m = n THEN 0 ELSE age[m]
      /\ \A m \in Nodes : stamp'[m] = IF m = n THEN useStamp ELSE stamp[m]
      /\ useStamp' = useStamp /\ lag' = lag
  BY DEF ExpiryInv, TypeOK, UseRequested, Used
<1>4. \A m \in Listed : m \in Nodes /\ age[m] \in Nat
  BY ListedFacts DEF ExpiryInv, TypeOK
<1> HIDE DEF len
<1>5. ListOrdered'
  BY <1>1, <1>3, <1>4 DEF ExpiryInv, ListOrdered
<1>6. StampsAreAges'
  <2>1. SUFFICES ASSUME NEW m \in Listed \cup {n}
                 PROVE  /\ stamp'[m] + age'[m] \in {useStamp, useStamp + Modulus}
                        /\ age'[m] <= Expiry + lag
    BY <1>2, <1>3 DEF StampsAreAges, Modulus
  <2>2. useStamp \in Nat /\ lag \in Nat
    BY ModulusFacts DEF ExpiryInv, TypeOK
  <2>3. QED
    BY <1>3, <1>4, <2>2, ModulusFacts DEF ExpiryInv, StampsAreAges
<1>7. QED
  BY <1>5, <1>6

(* What update() leaves is the end of the list: since that is ordered by   *)
(* age and the first of the rest is in use, it is all that is in use.      *)
LEMMA ExpireFacts ==
    ASSUME ExpiryInv, Expire
    PROVE  /\ Listed' = {n \in Listed : age[n] <= Expiry}
           /\ \A n \in Listed' : content'[n] = content[n]
           /\ ListOrdered' /\ StampsAreAges'
<1> DEFINE len == Len(pageNodeList)
<1>1. PICK k \in 0 .. len :
         /\ \A i \in 1 .. k : ~InUse(pageNodeList[i])
         /\ k < len => InUse(pageNodeList[k + 1])
         /\ pageNodeList' = SubSeq(pageNodeList, k + 1, len)
         /\ content' = [n \in Nodes |-> /\ content[n]
                                        /\ \A i \in 1 .. k : n # pageNodeList[i]]
  BY DEF Expire
<1>2. /\ pageNodeList \in Seq(Nodes) /\ len \in Nat
      /\ DOMAIN pageNodeList = 1 .. len
  BY DEF ExpiryInv, TypeOK
<1>3. /\ DOMAIN pageNodeList' = 1 .. len - k
      /\ \A i \in 1 .. len - k : pageNodeList'[i] = pageNodeList[i + k]
  BY <1>1, <1>2
<1>4. /\ \A i \in 1 .. len : pageNodeList[i] \in Listed
      /\ \A n \in Listed : n \in Nodes /\ \E i \in 1 .. len : pageNodeList[i] = n
  BY <1>2, ListedFacts DEF ExpiryInv
<1>5. /\ \A i \in 1 .. len : age[pageNodeList[i]] \in Nat
      /\ \A i, j \in 1 .. len : i <= j => age[pageNodeList[j]] <= age[pageNodeList[i]]
      /\ \A i, j \in 1 .. len : pageNodeList[i] = pageNodeList[j] => i = j
  BY <1>2, <1>4 DEF ExpiryInv, TypeOK, ListOrdered
<1> HIDE DEF len
<1>6. \A i \in 1 .. len : InUse(pageNodeList[i]) <=> age[pageNodeList[i]] <= Expiry
  BY <1>4, SignBit
<1>7. \A i \in 1 .. len : age[pageNodeList[i]] <= Expiry <=> i > k
  <2>1. \A i \in 1 .. k : ~(age[pageNodeList[i]] <= Expiry)
    BY <1>1, <1>2, <1>6
  <2>2. ASSUME NEW i \in 1 .. len, i > k
        PROVE  age[pageNodeList[i]] <= Expiry
    <3>1. k + 1 \in 1 .. len /\ k < len /\ k + 1 <= i
      BY <1>1, <1>2, <2>2
    <3>2. age[pageNodeList[k + 1]] <= Expiry /\ age[pageNodeList[i]] <= age[pageNodeList[k + 1]]
      BY <1>1, <1>5, <1>6, <3>1
    <3>3. QED
      BY <1>5, <3>1, <3>2, ModulusFacts
  <2>3. QED
    BY <1>1, <1>2, <2>1, <2>2
<1>8. Listed' = {n \in Listed : age[n] <= Expiry}
  <2>1. ASSUME NEW n \in Listed' PROVE n \in Listed /\ age[n] <= Expiry
    <3>1. PICK i \in 1 .. len - k : n = pageNodeList[i + k]
      BY <1>3 DEF Listed, Range
    <3>2. i + k \in 1 .. len /\ i + k > k
      BY <1>1, <1>2, <3>1
    <3>3. QED
      BY <1>4, <1>7, <3>1, <3>2
  <2>2. ASSUME NEW n \in Listed, age[n] <= Expiry PROVE n \in Listed'
    <3>1. PICK i \in 1 .. len : pageNodeList[i] = n
      BY <1>4
    <3>2. i > k
      BY <1>7, <2>2, <3>1
    <3>3. i - k \in 1 .. len - k /\ (i - k) + k = i
      BY <1>1, <1>2, <3>2
    <3>4. pageNodeList'[i - k] = n
      BY <1>3, <3>1, <3>3
    <3>5. QED
      BY <1>3, <3>3, <3>4 DEF Listed, Range
  <2>3. QED
    BY <2>1, <2>2
<1>9. age' = age /\ stamp' = stamp /\ useStamp' = useStamp /\ lag' = 0
  BY DEF Expire
<1>10. ListOrdered'
  <2>1. \A i \in 1 .. len - k : i + k \in 1 .. len
    BY <1>1, <1>2
  <2>2. \A i, j \in 1 .. len - k : (i <= j => i + k <= j + k) /\ (i + k = j + k => i = j)
    BY <1>1, <1>2
  <2>3. QED
    BY <1>3, <1>5, <1>9, <2>1, <2>2 DEF ListOrdered
<1>11. StampsAreAges'
  <2>1. SUFFICES ASSUME NEW n \in Listed, age[n] <= Expiry
                 PROVE  /\ stamp[n] + age[n] \in {useStamp, useStamp + Modulus}
                        /\ age[n] <= Expiry + 0
    BY <1>8, <1>9 DEF StampsAreAges, Modulus
  <2>2. QED
    BY <1>4, <2>1, ModulusFacts DEF ExpiryInv, TypeOK, StampsAreAges
<1>12. ASSUME NEW n \in Listed' PROVE content'[n] = content[n]
  <2>1. n \in Listed /\ age[n] <= Expiry
    BY <1>8
  <2>2. \A i \in 1 .. k : n # pageNodeList[i]
    BY <1>1, <1>2, <1>7, <2>1
  <2>3. n \in Nodes /\ content[n] \in BOOLEAN
    BY <1>4, <2>1 DEF ExpiryInv, TypeOK
  <2>4. content'[n] = (content[n] /\ \A i \in 1 .. k : n # pageNodeList[i])
    BY <1>1, <2>3, Zenon
  <2>5. QED
    BY <2>2, <2>3, <2>4, Zenon
<1>13. QED
  BY <1>8, <1>10, <1>11, <1>12

LEMMA StepExpiry == ExpiryInv /\ [Next]_vars => ExpiryInv'
<1>1. SUFFICES ASSUME ExpiryInv, [Next]_vars PROVE ExpiryInv'
  OBVIOUS
<1>2. TypeOK /\ LoadsANode
  BY <1>1 DEF ExpiryInv
<1>3. TypeOK' /\ LoadsANode'
  <2>1. CASE UNCHANGED vars
    BY <1>2, <2>1 DEF vars, TypeOK, LoadsANode
  <2>2. CASE Next
    BY <1>2, <2>2, LoaderTypes, MainTypes DEF Next
  <2>3. QED
    BY <1>1, <2>1, <2>2
<1>4. ASSUME UNCHANGED <<pageNodeList, stamp, useStamp, age, lag>>
      PROVE  ListOrdered' /\ StampsAreAges'
  BY <1>1, <1>4 DEF ExpiryInv, ListOrdered, StampsAreAges, Listed, Modulus
<1>5. ListOrdered' /\ StampsAreAges'
  <2>1. CASE UNCHANGED vars
    BY <1>4, <2>1 DEF vars
  <2>2. CASE Loader \/ Disturbance
    BY <1>4, <2>2 DEF Loader, Disturbance
  <2>3. CASE Start \/ Stop \/ Joined
    BY <1>4, <2>3 DEF Start, Stop, Joined
  <2>4. CASE Update \/ Insert \/ Inserted
    BY <1>4, <2>4 DEF Update, Insert, Inserted
  <2>5. CASE \E step \in 1 .. MaxLag : SetUseStamp(step)
    BY <1>1, <2>5, SetUseStampKeeps
  <2>6. CASE \E n \in Nodes : UseListed(n) \/ UseRequested(n)
    BY <1>1, <2>6, UseListedKeeps, UseRequestedKeeps
  <2>7. CASE Expire
    BY <1>1, <2>7, ExpireFacts
  <2>8. QED
    BY <1>1, <2>1, <2>2, <2>3, <2>4, <2>5, <2>6, <2>7 DEF Next, Program
<1>6. QED
  BY <1>3, <1>5 DEF ExpiryInv

(* Every variable of the pager keeps its type.                             *)
THEOREM TypeCorrect == Spec => []TypeOK
<1>1. ExpiryInv => TypeOK
  BY DEF ExpiryInv
<1>2. QED
  BY <1>1, InitExpiry, StepExpiry, PTL DEF Spec

(* What update() throws away, by the sign bit of a difference of stamps    *)
(* that wrap around, from the front of the list to the first in use, is    *)
(* what has not been used for longer than `expiry' and nothing else.       *)
THEOREM PagerExpiresExactlyTheUnused == Spec => ExpiresExactlyTheUnused
<1> DEFINE Exact == main = "expire" /\ main' # main => Listed' = {n \in Listed : age[n] <= Expiry}
<1>1. ExpiryInv /\ [Next]_vars => [Exact]_vars
  <2>1. SUFFICES ASSUME ExpiryInv, Next, main = "expire", main' # main PROVE Expire
    BY ExpireFacts
  <2>2. ~Loader /\ ~Disturbance /\ ~Update /\ ~Insert /\ ~Inserted /\ ~Joined
    BY <2>1 DEF Loader, Disturbance, Update, Insert, Inserted, Joined
  <2>3. ~Program
    BY <2>1 DEF Program, Start, Stop, SetUseStamp, UseListed, UseRequested, Used
  <2>4. QED
    BY <2>1, <2>2, <2>3 DEF Next
<1>2. QED
  BY <1>1, InitExpiry, StepExpiry, PTL DEF Spec, ExpiresExactlyTheUnused

-----------------------------------------------------------------------------
(* Requests.                                                               *)

(* The null request is the last one, and no thread leaves requests behind. *)
StopComesLast ==
    /\ \A i \in DOMAIN pending : pending[i] = NoNode => main = "stop" /\ i = Len(pending)
    /\ loader.pc = "none" <=> ~started
    /\ loader.pc \in {"none", "ended"} => pending = <<>>
    /\ loader.pc = "ended" => main = "stop"
    /\ main = "stop" => started
    /\ loader.pc # "load" => loader.node = NoNode

(* A request is somewhere between the list and its node.                   *)
Somewhere(n) == n \in Range(processed) \/ loader.node = n \/ n \in Range(pending)

NothingLost == \A n \in Listed : content[n] \/ Somewhere(n)

RequestInv == ExpiryInv /\ StopComesLast /\ NothingLost

LEMMA RangeAppend ==
    ASSUME NEW S, NEW s \in Seq(S), NEW e \in S
    PROVE  Range(Append(s, e)) = Range(s) \cup {e}
<1>1. /\ Len(Append(s, e)) = Len(s) + 1 /\ Append(s, e)[Len(s) + 1] = e
      /\ \A i \in 1 .. Len(s) : Append(s, e)[i] = s[i]
      /\ DOMAIN s = 1 .. Len(s) /\ DOMAIN Append(s, e) = 1 .. Len(s) + 1
      /\ Len(s) \in Nat
  OBVIOUS
<1>2. QED
  BY <1>1 DEF Range

LEMMA RangeTail ==
    ASSUME NEW S, NEW s \in Seq(S), s # <<>>
    PROVE  /\ Range(s) = {Head(s)} \cup Range(Tail(s))
           /\ DOMAIN Tail(s) = 1 .. Len(s) - 1 /\ Len(Tail(s)) = Len(s) - 1
           /\ DOMAIN s = 1 .. Len(s) /\ Len(s) \in Nat \ {0}
           /\ \A i \in 1 .. Len(s) - 1 : Tail(s)[i] = s[i + 1]
<1>1. /\ DOMAIN Tail(s) = 1 .. Len(s) - 1 /\ Len(Tail(s)) = Len(s) - 1
      /\ DOMAIN s = 1 .. Len(s) /\ Len(s) \in Nat \ {0} /\ Head(s) = s[1]
      /\ \A i \in 1 .. Len(s) - 1 : Tail(s)[i] = s[i + 1]
  OBVIOUS
<1>2. ASSUME NEW e \in Range(s) PROVE e = Head(s) \/ e \in Range(Tail(s))
  <2>1. PICK i \in 1 .. Len(s) : s[i] = e
    BY <1>1 DEF Range
  <2>2. i # 1 => i - 1 \in 1 .. Len(s) - 1 /\ Tail(s)[i - 1] = e
    BY <1>1, <2>1
  <2>3. QED
    BY <1>1, <2>1, <2>2 DEF Range
<1>3. ASSUME NEW i \in 1 .. Len(s) - 1 PROVE Tail(s)[i] \in Range(s)
  BY <1>1 DEF Range
<1>4. Head(s) \in Range(s) /\ Range(Tail(s)) \subseteq Range(s)
  BY <1>1, <1>3 DEF Range
<1>5. QED
  BY <1>1, <1>2, <1>4

LEMMA InitRequests == Init => RequestInv
<1>1. SUFFICES ASSUME Init PROVE RequestInv
  OBVIOUS
<1>2. Listed = {} /\ DOMAIN pending = {}
  BY <1>1 DEF Init, Listed, Range
<1>3. QED
  BY <1>1, <1>2, InitExpiry DEF Init, RequestInv, StopComesLast, NothingLost

(* A push puts the request at the end.                                     *)
LEMMA PushKeeps ==
    ASSUME RequestInv, main = "free", started, NEW r \in Nodes \cup {NoNode}, Push(r)
    PROVE  /\ Range(pending') = Range(pending) \cup {r}
           /\ \A i \in DOMAIN pending' : pending'[i] = NoNode => r = NoNode /\ i = Len(pending')
           /\ loader'.pc \notin {"none", "ended"}
           /\ loader'.node = loader.node
           /\ loader'.pc # "load" => loader'.node = NoNode
<1>1. /\ pending \in Seq(Nodes \cup {NoNode}) /\ pending' = Append(pending, r)
      /\ loader \in LoaderStates
  BY DEF RequestInv, ExpiryInv, TypeOK, LoaderStates, Push
<1>2. Range(pending') = Range(pending) \cup {r}
  BY <1>1, RangeAppend
<1>3. \A i \in DOMAIN pending : pending[i] # NoNode
  BY DEF RequestInv, StopComesLast
<1>4. \A i \in DOMAIN pending' : pending'[i] = NoNode => r = NoNode /\ i = Len(pending')
  BY <1>1, <1>3
<1>5. loader.pc \notin {"none", "ended"} /\ (loader.pc # "load" => loader.node = NoNode)
  BY DEF RequestInv, StopComesLast
<1>6. QED
  BY <1>1, <1>2, <1>4, <1>5 DEF Push, LoaderStates

LEMMA LoaderRequests ==
    ASSUME RequestInv, Loader \/ Disturbance
    PROVE  StopComesLast' /\ NothingLost'
<1>1. /\ pending \in Seq(Nodes \cup {NoNode}) /\ processed \in Seq(Nodes)
      /\ loader \in LoaderStates /\ LoadsANode /\ StopComesLast
  BY DEF RequestInv, ExpiryInv, TypeOK, LoaderStates
<1>2. /\ Listed' = Listed /\ content' = content /\ started' = started /\ main' = main
  BY DEF Loader, Disturbance, Listed
<1>3. CASE Pop /\ UNCHANGED processed
  <2>1. /\ pending # <<>> /\ loader.pc = "pop" /\ loader.node = NoNode
        /\ pending' = Tail(pending) /\ Head(pending) = pending[1]
    BY <1>1, <1>3 DEF Pop, StopComesLast
  <2>2. /\ Range(pending) = {Head(pending)} \cup Range(pending')
        /\ DOMAIN pending' = 1 .. Len(pending) - 1 /\ Len(pending') = Len(pending) - 1
        /\ DOMAIN pending = 1 .. Len(pending) /\ Len(pending) \in Nat \ {0}
        /\ \A i \in 1 .. Len(pending) - 1 : pending'[i] = pending[i + 1]
    BY <1>1, <2>1, RangeTail
  <2>3. \A i \in DOMAIN pending' : pending'[i] = NoNode => main = "stop" /\ i = Len(pending')
    BY <1>1, <2>2 DEF StopComesLast
  <2>4. CASE Head(pending) = NoNode
    <3>1. main = "stop" /\ Len(pending) = 1
      BY <1>1, <2>1, <2>2, <2>4 DEF StopComesLast
    <3>2. pending' = <<>>
      BY <1>1, <2>1, <3>1
    <3>3. loader'.pc = "ended" /\ loader'.node = NoNode
      BY <1>1, <1>3, <2>1, <2>4 DEF Pop, LoaderStates
    <3>4. StopComesLast'
      BY <1>1, <1>2, <2>1, <2>3, <3>1, <3>2, <3>3 DEF StopComesLast
    <3>5. NoNode \notin Listed
      BY ListedFacts, PagerAssumption DEF RequestInv, ExpiryInv
    <3>6. QED
      BY <1>2, <1>3, <2>1, <2>2, <2>4, <3>3, <3>4, <3>5 DEF RequestInv, NothingLost, Somewhere
  <2>5. CASE Head(pending) # NoNode
    <3>1. loader' = [pc |-> "load", node |-> Head(pending)]
      BY <1>3, <2>5 DEF Pop
    <3>2. StopComesLast'
      BY <1>1, <1>2, <2>1, <2>3, <3>1 DEF StopComesLast
    <3>3. NoNode \notin Listed
      BY ListedFacts, PagerAssumption DEF RequestInv, ExpiryInv
    <3>4. QED
      BY <1>2, <1>3, <2>1, <2>2, <3>1, <3>2, <3>3 DEF RequestInv, NothingLost, Somewhere
  <2>6. QED
    BY <2>4, <2>5
<1>4. CASE (PopWaits \/ Check \/ SpuriousWakeup) /\ UNCHANGED processed
  <2>1. /\ pending' = pending /\ loader'.node = loader.node
        /\ loader.pc \in {"pop", "check", "asleep"} /\ loader'.pc \in {"pop", "check", "asleep"}
    BY <1>1, <1>4 DEF PopWaits, Check, SpuriousWakeup, LoaderGoes, LoaderStates
  <2>2. QED
    BY <1>1, <1>2, <1>4, <2>1 DEF RequestInv, StopComesLast, NothingLost, Somewhere
<1>5. CASE Load /\ UNCHANGED <<pending, ready>>
  <2>1. /\ loader.pc = "load" /\ loader.node \in Nodes
        /\ processed' = Append(processed, loader.node)
        /\ loader' = [pc |-> "pop", node |-> NoNode]
    BY <1>1, <1>5 DEF Load, LoadsANode
  <2>2. Range(processed') = Range(processed) \cup {loader.node}
    BY <1>1, <2>1, RangeAppend
  <2>3. QED
    BY <1>1, <1>2, <1>5, <2>1, <2>2 DEF RequestInv, StopComesLast, NothingLost, Somewhere
<1>6. QED
  BY <1>3, <1>4, <1>5 DEF Loader, Disturbance

LEMMA MainRequests ==
    ASSUME RequestInv, Program \/ Update \/ Insert \/ Inserted \/ Expire \/ Joined
    PROVE  StopComesLast' /\ NothingLost'
<1>1. /\ pending \in Seq(Nodes \cup {NoNode}) /\ processed \in Seq(Nodes)
      /\ loader \in LoaderStates /\ StopComesLast /\ NothingLost /\ ExpiryInv
      /\ content \in [Nodes -> BOOLEAN] /\ Listed \subseteq Nodes
  BY ListedFacts DEF RequestInv, ExpiryInv, TypeOK, LoaderStates
<1>2. CASE Start
  BY <1>1, <1>2 DEF Start, StopComesLast, NothingLost, Somewhere, Listed
<1>3. CASE Stop
  <2>1. /\ main = "free" /\ started /\ Push(NoNode) /\ main' = "stop"
        /\ UNCHANGED <<pageNodeList, content, processed, started>>
    BY <1>3 DEF Stop
  <2>2. QED
    BY <1>1, <2>1, PushKeeps DEF StopComesLast, NothingLost, Somewhere, Listed
<1>4. CASE Joined
  <2>1. loader.pc = "ended" /\ loader' = [loader EXCEPT !.pc = "none"] /\ pending = <<>>
    BY <1>1, <1>4 DEF Joined, LoaderGoes, StopComesLast
  <2>2. loader'.pc = "none" /\ loader'.node = loader.node
    BY <1>1, <2>1 DEF LoaderStates
  <2>3. QED
    BY <1>1, <1>4, <2>1, <2>2 DEF Joined, StopComesLast, NothingLost, Somewhere, Listed
<1>5. CASE \E step \in 1 .. MaxLag : SetUseStamp(step)
  BY <1>1, <1>5 DEF SetUseStamp, StopComesLast, NothingLost, Somewhere, Listed
<1>6. ASSUME NEW n \in Nodes, UseListed(n)
      PROVE  StopComesLast' /\ NothingLost'
  <2>1. Listed' \subseteq Listed
    <3>1. PICK k \in DOMAIN pageNodeList : pageNodeList' = MovedToEnd(k)
      BY <1>6 DEF UseListed
    <3>2. QED
      BY <1>1, <3>1, MovedFacts DEF Listed, Range, ExpiryInv
  <2>2. QED
    BY <1>1, <1>6, <2>1 DEF UseListed, Used, StopComesLast, NothingLost, Somewhere
<1>7. ASSUME NEW n \in Nodes, UseRequested(n)
      PROVE  StopComesLast' /\ NothingLost'
  <2>1. /\ main = "free" /\ main' = main /\ started' = started /\ processed' = processed
        /\ pageNodeList' = Append(pageNodeList, n) /\ pageNodeList \in Seq(Nodes)
    BY <1>1, <1>7 DEF UseRequested, Used, ExpiryInv, TypeOK
  <2>2. Listed' = Listed \cup {n}
    BY <2>1, RangeAppend DEF Listed
  <2>3. CASE started /\ Push(n) /\ UNCHANGED content
    <3>1. n # NoNode
      BY PagerAssumption
    <3>2. QED
      BY <1>1, <2>1, <2>2, <2>3, <3>1, PushKeeps DEF StopComesLast, NothingLost, Somewhere
  <2>4. CASE ~started /\ content' = [content EXCEPT ![n] = TRUE] /\ UNCHANGED <<pending, ready, loader>>
    BY <1>1, <2>1, <2>2, <2>4 DEF StopComesLast, NothingLost, Somewhere
  <2>5. QED
    BY <1>7, <2>3, <2>4 DEF UseRequested
<1>8. CASE Update \/ Inserted
  BY <1>1, <1>8 DEF Update, Inserted, StopComesLast, NothingLost, Somewhere, Listed
<1>9. CASE Insert
  <2>1. /\ processed # <<>> /\ content' = [content EXCEPT ![Head(processed)] = TRUE]
        /\ processed' = Tail(processed)
        /\ UNCHANGED <<pageNodeList, pending, loader, started, main>>
    BY <1>9 DEF Insert
  <2>2. Range(processed) = {Head(processed)} \cup Range(processed')
    BY <1>1, <2>1, RangeTail
  <2>3. \A n \in Listed : content'[n] \/ Somewhere(n)'
    BY <1>1, <2>1, <2>2 DEF NothingLost, Somewhere
  <2>4. QED
    BY <1>1, <2>1, <2>3 DEF StopComesLast, NothingLost, Listed
<1>10. CASE Expire
  <2>1. Listed' \subseteq Listed /\ \A n \in Listed' : content'[n] = content[n]
    BY <1>1, <1>10, ExpireFacts
  <2>2. UNCHANGED <<pending, processed, loader, started>> /\ main = "expire" /\ main' = "free"
    BY <1>10 DEF Expire
  <2>3. QED
    BY <1>1, <2>1, <2>2 DEF StopComesLast, NothingLost, Somewhere
<1>11. QED
  BY <1>2, <1>3, <1>4, <1>5, <1>6, <1>7, <1>8, <1>9, <1>10 DEF Program

LEMMA StepRequests == RequestInv /\ [Next]_vars => RequestInv'
<1>1. SUFFICES ASSUME RequestInv, [Next]_vars PROVE RequestInv'
  OBVIOUS
<1>2. ExpiryInv'
  BY <1>1, StepExpiry DEF RequestInv
<1>3. CASE UNCHANGED vars
  BY <1>1, <1>2, <1>3 DEF vars, RequestInv, StopComesLast, NothingLost, Somewhere, Listed
<1>4. CASE Next
  BY <1>1, <1>2, <1>4, LoaderRequests, MainRequests DEF Next, RequestInv
<1>5. QED
  BY <1>1, <1>3, <1>4

(* A node that is marked as requested, and so is not requested again, is   *)
(* there or on its way, however often stop() and start() are called and    *)
(* whatever expires meanwhile.                                             *)
THEOREM PagerLosesNoRequest == Spec => []RequestedIsLoadedOrUnderWay
<1>1. RequestInv => RequestedIsLoadedOrUnderWay
  <2>1. SUFFICES ASSUME RequestInv, NEW n \in Listed, n \in Range(pending)
                 PROVE  UnderWay(n)
    BY DEF RequestInv, NothingLost, Somewhere, UnderWay, RequestedIsLoadedOrUnderWay
  <2>2. PICK i \in DOMAIN pending : pending[i] = n
    BY <2>1 DEF Range
  <2>3. n # NoNode /\ pending \in Seq(Nodes \cup {NoNode})
    BY <2>1, ListedFacts, PagerAssumption DEF RequestInv, ExpiryInv, TypeOK
  <2>4. \A j \in 1 .. i : pending[j] # NoNode
    BY <2>1, <2>2, <2>3 DEF RequestInv, StopComesLast
  <2>5. loader.pc \notin {"none", "ended"}
    BY <2>1, <2>2 DEF RequestInv, StopComesLast
  <2>6. QED
    BY <2>2, <2>4, <2>5 DEF UnderWay
<1>2. QED
  BY <1>1, InitRequests, StepRequests, PTL DEF Spec
=============================================================================
