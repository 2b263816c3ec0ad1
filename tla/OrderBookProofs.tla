-------------------------- MODULE OrderBookProofs --------------------------
(***************************************************************************)
(* Proofs about the order book, for any orders, prices and quantities: the *)
(* heap, the map, the lists and ActiveOrders always agree, the lists keep  *)
(* time priority, the book is never crossed, and the book with all its     *)
(* indexes implements the abstract price-time book.                        *)
(***************************************************************************)
EXTENDS OrderBook, Sums, SequenceTheorems

(* What FifoLists needs to be inductive: an order rests with the stamp it  *)
(* was submitted with, and the incoming one is later than all of them.     *)
Stamps ==
  /\ \A o \in active : stamp[o] \in 1 .. now
  /\ incoming # NoOrder =>
       /\ now > 0
       /\ stamp[incoming] = now
       /\ \A o \in active : stamp[o] < now

Inv ==
  /\ TypeOK
  /\ LevelsInStep
  /\ ActiveInStep
  /\ FifoLists
  /\ Uncrossed
  /\ Stamps

\* DepthExact over the orders of a list rather than its positions.
Depths ==
  \A s \in Side : \A p \in levels[s] : total[s][p] = Sum(rem, Range(queue[s][p]))

-----------------------------------------------------------------------------
(* Prices and lists.                                                       *)

(* A non-empty set of prices has a smallest element: the heap of the asks  *)
(* has a top.                                                              *)
LEMMA LowestPrice ==
  ASSUME NEW H \in SUBSET Nat, H # {}
  PROVE  \E p \in H : \A q \in H : p <= q
<1>1. PICK p \in H : \A q \in H : <<q, p>> \notin OpToRel(<, Nat)
  BY NatLessThanWellFounded, WFMin
<1>2. \A q \in H : ~(q < p)
  BY <1>1 DEF OpToRel
<1>. QED  BY <1>2

(* It has a greatest element too, because the prices are bounded.          *)
LEMMA HighestPrice ==
  ASSUME NEW H \in SUBSET Price, H # {}
  PROVE  \E p \in H : \A q \in H : p >= q
<1>1. PICK top \in Price : \A p \in Price : p <= top
  BY PriceAssumption
<1>. DEFINE D == {top - p : p \in H}
<1>2. D \in SUBSET Nat /\ D # {}
  BY <1>1, PriceAssumption
<1>3. PICK d \in D : \A e \in D : d <= e
  BY <1>2, LowestPrice
<1>4. PICK p \in H : d = top - p
  BY <1>3
<1>5. \A q \in H : top - p <= top - q
  BY <1>3, <1>4
<1>. QED  BY <1>1, <1>5, PriceAssumption

(* BestPrice of a side that has a level is the top of its heap.            *)
LEMMA BestIsTop ==
  ASSUME NEW s \in Side, heap[s] \subseteq Price, heap[s] # {}
  PROVE  /\ Best(s) \in heap[s]
         /\ \A q \in heap[s] \ {Best(s)} : Better(s, Best(s), q)
<1>0. heap[s] \subseteq Nat
  BY PriceAssumption
<1>1. \E p \in heap[s] : IsTop(s, p)
  <2>1. CASE s = "BUY"
    <3>1. PICK p \in heap[s] : \A q \in heap[s] : p >= q
      BY HighestPrice
    <3>2. \A q \in heap[s] \ {p} : p > q
      BY <1>0, <3>1
    <3>. QED  BY <2>1, <3>2 DEF IsTop, Better
  <2>2. CASE s = "SELL"
    <3>1. PICK p \in heap[s] : \A q \in heap[s] : p <= q
      BY LowestPrice, PriceAssumption
    <3>2. \A q \in heap[s] \ {p} : p < q
      BY <1>0, <3>1
    <3>. QED  BY <2>2, <3>2 DEF IsTop, Better
  <2>. QED  BY <2>1, <2>2 DEF Side
<1>2. Best(s) \in heap[s] /\ IsTop(s, Best(s))
  BY <1>1 DEF Best
<1>. QED  BY <1>2 DEF IsTop

(* A list without its i-th element.                                        *)
LEMMA UnlinkProperties ==
  ASSUME NEW q \in Seq(OrderIds), NEW i \in 1 .. Len(q)
  PROVE  /\ Unlink(q, i) \in Seq(OrderIds)
         /\ Len(Unlink(q, i)) = Len(q) - 1
         /\ \A j \in 1 .. Len(q) - 1 :
              Unlink(q, i)[j] = IF j < i THEN q[j] ELSE q[j + 1]
<1>. DEFINE n == Len(q) - 1
            e(j) == IF j < i THEN q[j] ELSE q[j + 1]
<1>1. n \in Nat /\ \A j \in 1 .. n : e(j) \in OrderIds
  BY ElementOfSeq
<1>2. [j \in 1 .. n |-> e(j)] \in Seq(OrderIds)
  BY <1>1, IsASeq
<1>3. Unlink(q, i) = [j \in 1 .. n |-> e(j)]
  BY DEF Unlink
<1>. HIDE DEF n
<1>4. Len(Unlink(q, i)) = n
  BY <1>1, <1>2, <1>3, LenProperties
<1>. QED  BY <1>2, <1>3, <1>4 DEF n

-----------------------------------------------------------------------------
(* What the operations do to the maps, the heaps and the lists.            *)

(* LevelsInStep, price by price.                                           *)
LEMMA LevelIff ==
  ASSUME LevelsInStep, NEW t \in Side, NEW r \in Price
  PROVE  r \in levels[t] <=> queue[t][r] # <<>>
BY DEF LevelsInStep

(* Shrinking level p of side s to list q changes that list alone, and the  *)
(* map and the heap lose p exactly when q is empty.                        *)
LEMMA ShrinkEffect ==
  ASSUME TypeOK, LevelsInStep,
         NEW s \in Side, NEW p \in Price, NEW q \in Seq(OrderIds),
         p \in levels[s],
         ShrinkLevel(s, p, q)
  PROVE  /\ heap' \in [Side -> SUBSET Price]
         /\ levels' \in [Side -> SUBSET Price]
         /\ queue' \in [Side -> [Price -> Seq(OrderIds)]]
         /\ \A t \in Side, r \in Price :
              queue'[t][r] = IF t = s /\ r = p THEN q ELSE queue[t][r]
         /\ \A t \in Side : heap'[t] \subseteq heap[t]
         /\ LevelsInStep'
<1>1. heap' \in [Side -> SUBSET Price] /\ levels' \in [Side -> SUBSET Price]
  BY DEF ShrinkLevel, TypeOK
<1>2. queue' \in [Side -> [Price -> Seq(OrderIds)]]
  BY DEF ShrinkLevel, TypeOK
<1>3. \A t \in Side, r \in Price :
        queue'[t][r] = IF t = s /\ r = p THEN q ELSE queue[t][r]
  BY DEF ShrinkLevel, TypeOK
<1>4. \A t \in Side :
        /\ heap'[t] = IF t = s /\ q = <<>> THEN heap[t] \ {p} ELSE heap[t]
        /\ levels'[t] = IF t = s /\ q = <<>> THEN levels[t] \ {p} ELSE levels[t]
  BY DEF ShrinkLevel, TypeOK
<1>5. \A t \in Side : heap'[t] = levels'[t]
  BY <1>4 DEF LevelsInStep
<1>6. \A t \in Side, r \in Price : r \in levels'[t] <=> queue'[t][r] # <<>>
  <2>. SUFFICES ASSUME NEW t \in Side, NEW r \in Price
                PROVE  r \in levels'[t] <=> queue'[t][r] # <<>>
    OBVIOUS
  <2>1. r \in levels[t] <=> queue[t][r] # <<>>
    BY LevelIff
  <2>2. CASE t = s /\ r = p
    <3>1. queue'[t][r] = q /\ levels'[t] = IF q = <<>> THEN levels[t] \ {p} ELSE levels[t]
      BY <1>3, <1>4, <2>2
    <3>2. r \in levels[t]
      BY <2>2
    <3>. QED  BY <2>2, <3>1, <3>2
  <2>3. CASE ~(t = s /\ r = p)
    <3>1. queue'[t][r] = queue[t][r]
      BY <1>3, <2>3
    <3>2. r \in levels'[t] <=> r \in levels[t]
      BY <1>4, <2>3
    <3>. QED  BY <2>1, <3>1, <3>2
  <2>. QED  BY <2>2, <2>3
<1>7. \A t \in Side : levels'[t] = {r \in Price : queue'[t][r] # <<>>}
  BY <1>1, <1>6
<1>. QED  BY <1>1, <1>2, <1>3, <1>4, <1>5, <1>7 DEF LevelsInStep

(* Adding an order appends it to the list of its price, whether or not the *)
(* level existed, and the map and the heap gain that price.                *)
LEMMA AddEffect ==
  ASSUME TypeOK, LevelsInStep,
         NEW o \in OrderIds,
         AddOrder(o)
  PROVE  /\ heap' \in [Side -> SUBSET Price]
         /\ levels' \in [Side -> SUBSET Price]
         /\ queue' \in [Side -> [Price -> Seq(OrderIds)]]
         /\ total' \in [Side -> [Price -> Int]]
         /\ active' = active \cup {o}
         /\ \A t \in Side, r \in Price :
              queue'[t][r] = IF t = side[o] /\ r = price[o]
                             THEN Append(queue[t][r], o) ELSE queue[t][r]
         /\ \A t \in Side :
              heap'[t] = IF t = side[o] THEN heap[t] \cup {price[o]} ELSE heap[t]
         /\ LevelsInStep'
<1>. DEFINE s == side[o]
            p == price[o]
<1>1. s \in Side /\ p \in Price /\ rem[o] \in Nat /\ total[s][p] \in Int
  BY DEF TypeOK
<1>2. p \notin levels[s] => <<o>> = Append(queue[s][p], o)
  BY <1>1 DEF LevelsInStep
<1>3. Append(queue[s][p], o) \in Seq(OrderIds) /\ Append(queue[s][p], o) # <<>>
  <2>1. queue[s][p] \in Seq(OrderIds)
    BY <1>1 DEF TypeOK
  <2>. QED  BY <2>1, AppendProperties
<1>4. queue' = [queue EXCEPT ![s][p] = Append(queue[s][p], o)]
  BY <1>1, <1>2 DEF AddOrder, TypeOK
<1>5. queue' \in [Side -> [Price -> Seq(OrderIds)]]
  BY <1>1, <1>3, <1>4 DEF TypeOK
<1>6. \A t \in Side, r \in Price :
        queue'[t][r] = IF t = s /\ r = p THEN Append(queue[t][r], o) ELSE queue[t][r]
  BY <1>1, <1>4 DEF TypeOK
<1>7. total' \in [Side -> [Price -> Int]]
  BY <1>1, SMTT(60) DEF AddOrder, TypeOK
<1>8. levels' = [levels EXCEPT ![s] = levels[s] \cup {p}]
  BY <1>1 DEF AddOrder, TypeOK
<1>9. heap' = [heap EXCEPT ![s] = heap[s] \cup {p}]
  BY <1>1 DEF AddOrder, TypeOK, LevelsInStep
<1>10. \A t \in Side : levels'[t] = IF t = s THEN levels[t] \cup {p} ELSE levels[t]
  BY <1>1, <1>8 DEF TypeOK
<1>11. \A t \in Side : heap'[t] = IF t = s THEN heap[t] \cup {p} ELSE heap[t]
  BY <1>1, <1>9 DEF TypeOK
<1>12. heap' \in [Side -> SUBSET Price] /\ levels' \in [Side -> SUBSET Price]
  BY <1>1, <1>8, <1>9 DEF TypeOK
<1>13. \A t \in Side : levels'[t] = {r \in Price : queue'[t][r] # <<>>}
  <2>1. ASSUME NEW t \in Side, NEW r \in Price
        PROVE  r \in levels'[t] <=> queue'[t][r] # <<>>
    <3>1. CASE t = s /\ r = p
      BY <3>1, <1>1, <1>3, <1>6, <1>10
    <3>2. CASE ~(t = s /\ r = p)
      <4>1. queue'[t][r] = queue[t][r]
        BY <3>2, <1>6
      <4>2. r \in levels'[t] <=> r \in levels[t]
        BY <3>2, <1>10
      <4>. QED  BY <4>1, <4>2, LevelIff
    <3>. QED  BY <3>1, <3>2
  <2>. QED  BY <1>12, <2>1
<1>14. LevelsInStep'
  BY <1>10, <1>11, <1>13 DEF LevelsInStep
<1>. QED  BY <1>5, <1>6, <1>7, <1>11, <1>12, <1>14 DEF AddOrder

-----------------------------------------------------------------------------
(* The invariant is preserved when an order leaves the book.               *)

(* An order is nowhere twice in a list.                                    *)
LEMMA Distinct ==
  ASSUME TypeOK, FifoLists, NEW s \in Side, NEW p \in Price,
         NEW i \in 1 .. Len(queue[s][p]), NEW j \in 1 .. Len(queue[s][p]), i # j
  PROVE  queue[s][p][i] # queue[s][p][j]
<1>1. queue[s][p] \in Seq(OrderIds)
  BY DEF TypeOK
<1>2. Len(queue[s][p]) \in Nat /\ queue[s][p][i] \in OrderIds
  BY <1>1, ElementOfSeq
<1>3. i < j \/ j < i
  BY <1>2
<1>4. stamp[queue[s][p][i]] < stamp[queue[s][p][j]] \/ stamp[queue[s][p][j]] < stamp[queue[s][p][i]]
  BY <1>3 DEF FifoLists
<1>5. stamp[queue[s][p][i]] \in Nat
  BY <1>2 DEF TypeOK
<1>. QED  BY <1>4, <1>5

(* Taking the k-th order out of a list (the first when it is filled, any   *)
(* one when it is cancelled), out of ActiveOrders, and its level away when *)
(* it was the last one, keeps the whole book in step.                      *)
LEMMA RemovalKeepsInv ==
  ASSUME Inv,
         NEW s \in Side, NEW p \in Price, p \in levels[s],
         NEW k \in 1 .. Len(queue[s][p]),
         NEW q \in Seq(OrderIds),
         Len(q) = Len(queue[s][p]) - 1,
         \A j \in 1 .. Len(q) :
           q[j] = IF j < k THEN queue[s][p][j] ELSE queue[s][p][j + 1],
         ShrinkLevel(s, p, q),
         active' = active \ {queue[s][p][k]},
         \A x \in active' : rem'[x] > 0,
         UNCHANGED <<side, price, stamp, now, incoming>>
  PROVE  /\ heap' \in [Side -> SUBSET Price]
         /\ levels' \in [Side -> SUBSET Price]
         /\ queue' \in [Side -> [Price -> Seq(OrderIds)]]
         /\ active' \in SUBSET OrderIds
         /\ LevelsInStep'
         /\ ActiveInStep'
         /\ FifoLists'
         /\ Uncrossed'
         /\ Stamps'
<1>. DEFINE old == queue[s][p]
            gone == old[k]
<1>1. /\ heap' \in [Side -> SUBSET Price]
      /\ levels' \in [Side -> SUBSET Price]
      /\ queue' \in [Side -> [Price -> Seq(OrderIds)]]
      /\ \A t \in Side, r \in Price :
           queue'[t][r] = IF t = s /\ r = p THEN q ELSE queue[t][r]
      /\ \A t \in Side : heap'[t] \subseteq heap[t]
      /\ LevelsInStep'
  BY ShrinkEffect DEF Inv
<1>2. old \in Seq(OrderIds) /\ Len(old) \in Nat
  BY DEF Inv, TypeOK
<1>3. gone \in active /\ side[gone] = s /\ price[gone] = p
  BY DEF Inv, ActiveInStep
<1>4. \A i \in 1 .. Len(old) : i # k => old[i] # gone
  BY Distinct DEF Inv
<1>5. ASSUME NEW x \in active'
      PROVE  Queued(x, side[x], price[x])'
  <2>1. side[x] \in Side /\ price[x] \in Price
    BY DEF Inv, TypeOK
  <2>2. PICK i \in 1 .. Len(queue[side[x]][price[x]]) : queue[side[x]][price[x]][i] = x
    BY DEF Inv, ActiveInStep, Queued
  <2>3. CASE side[x] = s /\ price[x] = p
    <3>1. i # k
      BY <2>2, <2>3
    <3>2. queue'[s][p] = q
      BY <1>1
    <3>3. CASE i < k
      BY <1>2, <2>2, <2>3, <3>2, <3>3 DEF Queued
    <3>4. CASE i > k
      <4>1. i - 1 \in 1 .. Len(q) /\ q[i - 1] = x
        BY <1>2, <2>2, <2>3, <3>4
      <4>. QED  BY <2>3, <3>2, <4>1 DEF Queued
    <3>. QED  BY <1>2, <2>3, <3>1, <3>3, <3>4
  <2>4. CASE ~(side[x] = s /\ price[x] = p)
    <3>1. queue'[side[x]][price[x]] = queue[side[x]][price[x]]
      BY <1>1, <2>1, <2>4
    <3>. QED  BY <2>2, <3>1 DEF Queued
  <2>. QED  BY <2>3, <2>4
<1>6. ASSUME NEW t \in Side, NEW r \in Price, NEW i \in 1 .. Len(queue'[t][r])
      PROVE  LET o == queue'[t][r][i] IN
             o \in active' /\ side[o] = t /\ price[o] = r /\ rem'[o] > 0
  <2>1. CASE t = s /\ r = p
    <3>1. PICK h \in 1 .. Len(old) : h # k /\ queue'[t][r][i] = old[h]
      <4>1. queue'[t][r] = q /\ i \in 1 .. Len(q)
        BY <1>1, <2>1
      <4>2. CASE i < k
        BY <1>2, <4>1, <4>2
      <4>3. CASE ~(i < k)
        <5>1. i + 1 \in 1 .. Len(old) /\ i + 1 # k
          BY <1>2, <4>1, <4>3
        <5>. QED  BY <4>1, <4>3, <5>1
      <4>. QED  BY <4>2, <4>3
    <3>2. old[h] \in active /\ side[old[h]] = s /\ price[old[h]] = p
      BY DEF Inv, ActiveInStep
    <3>. QED  BY <1>4, <2>1, <3>1, <3>2
  <2>2. CASE ~(t = s /\ r = p)
    <3>1. queue'[t][r] = queue[t][r]
      BY <1>1, <2>2
    <3>2. LET o == queue[t][r][i] IN o \in active /\ side[o] = t /\ price[o] = r
      BY <3>1 DEF Inv, ActiveInStep
    <3>. QED  BY <1>3, <2>2, <3>1, <3>2
  <2>. QED  BY <2>1, <2>2
<1>7. ActiveInStep'
  BY <1>5, <1>6 DEF ActiveInStep
<1>8. FifoLists'
  <2>. SUFFICES ASSUME NEW t \in Side, NEW r \in Price,
                       NEW i \in 1 .. Len(queue'[t][r]),
                       NEW j \in 1 .. Len(queue'[t][r]), i < j
                PROVE  stamp[queue'[t][r][i]] < stamp[queue'[t][r][j]]
    BY DEF FifoLists
  <2>1. CASE t = s /\ r = p
    <3>1. queue'[t][r] = q
      BY <1>1, <2>1
    <3>. DEFINE h == IF i < k THEN i ELSE i + 1
                g == IF j < k THEN j ELSE j + 1
    <3>2. h \in 1 .. Len(old) /\ g \in 1 .. Len(old) /\ h < g
      BY <1>2, <3>1
    <3>3. q[i] = old[h] /\ q[j] = old[g]
      BY <3>1
    <3>. HIDE DEF h, g
    <3>4. stamp[old[h]] < stamp[old[g]]
      BY <3>2 DEF Inv, FifoLists
    <3>. QED  BY <3>1, <3>3, <3>4
  <2>2. CASE ~(t = s /\ r = p)
    <3>1. queue'[t][r] = queue[t][r]
      BY <1>1, <2>2
    <3>. QED  BY <3>1 DEF Inv, FifoLists
  <2>. QED  BY <2>1, <2>2
<1>9. Uncrossed'
  BY <1>1 DEF Inv, Uncrossed, Side
<1>10. Stamps'
  BY DEF Inv, Stamps
<1>. QED  BY <1>1, <1>7, <1>8, <1>9, <1>10 DEF Inv, TypeOK

-----------------------------------------------------------------------------
(* The invariant is preserved by every step.                               *)

LEMMA InitInv == Init => Inv
<1>. SUFFICES ASSUME Init PROVE Inv
  OBVIOUS
<1>1. AnyPrice \in Price
  BY PriceAssumption DEF AnyPrice
<1>2. "BUY" \in Side /\ <<>> \in Seq(OrderIds) /\ Len(<<>>) = 0
  BY EmptySeq DEF Side
<1>3. TypeOK
  BY <1>1, <1>2 DEF Init, TypeOK
<1>4. LevelsInStep
  BY DEF Init, LevelsInStep
<1>5. ActiveInStep /\ FifoLists
  BY <1>2 DEF Init, ActiveInStep, FifoLists
<1>6. Uncrossed /\ Stamps
  BY DEF Init, Uncrossed, Stamps, Side
<1>. QED  BY <1>3, <1>4, <1>5, <1>6 DEF Inv

(* A submitted order is not in the book yet: nothing there changes.        *)
LEMMA SubmitInv ==
  ASSUME Inv, NEW o \in OrderIds, NEW s \in Side, NEW p \in Price, NEW q \in Qty,
         Submit(o, s, p, q)
  PROVE  Inv'
<1>1. o \notin active
  BY DEF Inv, Stamps, TypeOK, Submit
<1>2. \A x \in active : /\ x # o
                        /\ side'[x] = side[x] /\ price'[x] = price[x]
                        /\ rem'[x] = rem[x] /\ stamp'[x] = stamp[x]
  BY <1>1 DEF Submit, Inv, TypeOK
<1>3. \A t \in Side, r \in Price : \A i \in 1 .. Len(queue[t][r]) :
        queue[t][r][i] \in active
  BY DEF Inv, ActiveInStep
<1>4. q \in Nat
  BY QtyAssumption
<1>5. TypeOK'
  BY <1>4 DEF Submit, Inv, TypeOK
<1>6. LevelsInStep' /\ Uncrossed'
  BY DEF Submit, Inv, LevelsInStep, Uncrossed
<1>7. ActiveInStep'
  BY <1>2, <1>3 DEF Submit, Inv, ActiveInStep, Queued
<1>8. FifoLists'
  BY <1>2, <1>3 DEF Submit, Inv, FifoLists
<1>9. Stamps'
  <2>1. now' = now + 1 /\ stamp'[o] = now + 1 /\ incoming' = o /\ active' = active /\ now \in Nat
    BY DEF Submit, Inv, TypeOK
  <2>2. \A x \in active : stamp'[x] \in 1 .. now
    BY <1>2 DEF Inv, Stamps
  <2>. QED  BY <2>1, <2>2 DEF Stamps
<1>. QED  BY <1>5, <1>6, <1>7, <1>8, <1>9 DEF Inv

(* What an iteration of Match works with: the best opposite level exists   *)
(* in the map and has a first order, which rests on that side and price.   *)
LEMMA MatchingFacts ==
  ASSUME Inv, Matching
  PROVE  /\ Opp \in Side
         /\ Best(Opp) \in Price
         /\ Best(Opp) \in levels[Opp]
         /\ \A q \in heap[Opp] \ {Best(Opp)} : Better(Opp, Best(Opp), q)
         /\ queue[Opp][Best(Opp)] \in Seq(OrderIds)
         /\ queue[Opp][Best(Opp)] # <<>>
         /\ Head(queue[Opp][Best(Opp)]) = queue[Opp][Best(Opp)][1]
         /\ 1 \in 1 .. Len(queue[Opp][Best(Opp)])
         /\ LET r == Head(queue[Opp][Best(Opp)]) IN
              /\ r \in active
              /\ r \in OrderIds
              /\ r # incoming
              /\ side[r] = Opp
              /\ price[r] = Best(Opp)
              /\ rem[r] > 0
<1>. DEFINE p == Best(Opp)
            q == queue[Opp][p]
<1>1. Opp \in Side
  BY DEF Opp, Opposite, Side
<1>2. heap[Opp] \subseteq Price /\ heap[Opp] # {}
  BY <1>1 DEF Inv, TypeOK, Matching
<1>3. p \in heap[Opp] /\ \A x \in heap[Opp] \ {p} : Better(Opp, p, x)
  BY <1>1, <1>2, BestIsTop
<1>4. p \in Price /\ p \in levels[Opp]
  BY <1>2, <1>3 DEF Matching
<1>5. q \in Seq(OrderIds) /\ q # <<>>
  BY <1>1, <1>4, LevelIff DEF Inv, TypeOK
<1>6. Head(q) = q[1] /\ Len(q) \in Nat \ {0}
  BY <1>5, EmptySeq
<1>7. 1 \in 1 .. Len(q)
  BY <1>6
<1>8. q[1] \in active /\ side[q[1]] = Opp /\ price[q[1]] = p /\ rem[q[1]] > 0
  BY <1>1, <1>4, <1>7 DEF Inv, ActiveInStep
<1>9. incoming \notin active
  BY DEF Inv, Stamps, TypeOK, Matching
<1>. QED  BY <1>1, <1>3, <1>4, <1>5, <1>6, <1>7, <1>8, <1>9 DEF Inv, TypeOK

LEMMA MatchOneInv ==
  ASSUME Inv, MatchOne
  PROVE  Inv'
<1>. DEFINE s == Opp
            p == Best(s)
            q == queue[s][p]
            r == Head(q)
            x == Least(rem[incoming], rem[r])
<1>1. Matching
  BY DEF MatchOne
<1>2. /\ s \in Side /\ p \in Price /\ p \in levels[s]
      /\ q \in Seq(OrderIds) /\ q # <<>> /\ r = q[1] /\ 1 \in 1 .. Len(q)
      /\ r \in active /\ r \in OrderIds /\ r # incoming /\ rem[r] > 0
  BY <1>1, MatchingFacts
<1>3. incoming \in OrderIds /\ rem[incoming] \in Nat /\ rem[r] \in Nat
  BY <1>1, <1>2 DEF Matching, Inv, TypeOK
<1>4. x \in Nat /\ x <= rem[incoming] /\ x <= rem[r]
  BY <1>3 DEF Least
<1>5. rem' = [rem EXCEPT ![incoming] = @ - x, ![r] = @ - x]
  BY DEF MatchOne
<1>6. /\ rem' \in [OrderIds -> Nat]
      /\ rem'[r] = rem[r] - x
      /\ \A o \in OrderIds \ {r, incoming} : rem'[o] = rem[o]
  <2>1. rem \in [OrderIds -> Nat]
    BY DEF Inv, TypeOK
  <2>. HIDE DEF r, x
  <2>. QED  BY <1>2, <1>3, <1>4, <1>5, <2>1
<1>7. total' \in [Side -> [Price -> Int]]
  <2>1. total' = [total EXCEPT ![s][p] = @ - x]
    BY DEF MatchOne
  <2>2. total \in [Side -> [Price -> Int]]
    BY DEF Inv, TypeOK
  <2>. HIDE DEF s, p, x
  <2>. QED  BY <1>2, <1>4, <2>1, <2>2
<1>8. UNCHANGED <<side, price, stamp, now, incoming>>
  BY DEF MatchOne
<1>9. incoming \notin active
  BY <1>1 DEF Inv, Stamps, TypeOK, Matching
<1>10. \A o \in active : rem[o] > 0
  <2>. SUFFICES ASSUME NEW o \in active PROVE rem[o] > 0
    OBVIOUS
  <2>1. side[o] \in Side /\ price[o] \in Price
    BY DEF Inv, TypeOK
  <2>. QED  BY <2>1 DEF Inv, ActiveInStep, Queued
<1>11. CASE rem[r] = x /\ ShrinkLevel(s, p, Tail(q)) /\ active' = active \ {r}
  <2>1. /\ Tail(q) \in Seq(OrderIds)
        /\ Len(Tail(q)) = Len(q) - 1
        /\ \A j \in 1 .. Len(Tail(q)) : Tail(q)[j] = q[j + 1]
    BY <1>2, HeadTailProperties
  <2>2. \A j \in 1 .. Len(Tail(q)) : Tail(q)[j] = IF j < 1 THEN q[j] ELSE q[j + 1]
    BY <2>1
  <2>3. \A o \in active' : rem'[o] > 0
    <3>1. \A o \in active' : o \in OrderIds \ {r, incoming} /\ o \in active
      BY <1>9, <1>11 DEF Inv, TypeOK
    <3>. QED  BY <1>6, <1>10, <3>1
  <2>. HIDE DEF s, p, q, r, x
  <2>4. active' = active \ {q[1]} /\ ShrinkLevel(s, p, Tail(q))
    BY <1>2, <1>11
  <2>5. /\ heap' \in [Side -> SUBSET Price]
        /\ levels' \in [Side -> SUBSET Price]
        /\ queue' \in [Side -> [Price -> Seq(OrderIds)]]
        /\ active' \in SUBSET OrderIds
        /\ LevelsInStep' /\ ActiveInStep' /\ FifoLists' /\ Uncrossed' /\ Stamps'
    BY <1>2, <1>8, <2>1, <2>2, <2>3, <2>4, RemovalKeepsInv DEF q
  <2>. QED  BY <1>6, <1>7, <1>8, <2>5 DEF Inv, TypeOK
<1>12. CASE rem[r] # x /\ UNCHANGED <<heap, levels, queue, active>>
  <2>1. \A o \in active' : rem'[o] > 0
    <3>1. \A o \in active' : o = r \/ (o \in OrderIds \ {r, incoming} /\ o \in active)
      BY <1>9, <1>12 DEF Inv, TypeOK
    <3>. HIDE DEF r, x
    <3>2. rem'[r] > 0
      BY <1>3, <1>4, <1>6, <1>12
    <3>. QED  BY <1>6, <1>10, <3>1, <3>2
  <2>2. TypeOK'
    BY <1>6, <1>7, <1>8, <1>12 DEF Inv, TypeOK
  <2>3. LevelsInStep' /\ FifoLists' /\ Uncrossed' /\ Stamps'
    BY <1>8, <1>12 DEF Inv, LevelsInStep, FifoLists, Uncrossed, Stamps
  <2>4. ActiveInStep'
    BY <1>8, <1>12, <2>1 DEF Inv, ActiveInStep, Queued
  <2>. QED  BY <2>2, <2>3, <2>4 DEF Inv
<1>. QED  BY <1>11, <1>12 DEF MatchOne, Retire

(* Resting the incoming order keeps its list in order of submission,       *)
(* because it is later than all the others, and the book uncrossed,        *)
(* because Match only stops at a best opposite price that does not cross.  *)
LEMMA FinishInv ==
  ASSUME Inv, Finish
  PROVE  Inv'
<1>1. incoming \in OrderIds /\ incoming \notin active
  BY DEF Finish, Inv, TypeOK, Stamps
<1>2. UNCHANGED <<side, price, rem, stamp, now>> /\ incoming' = NoOrder
  BY DEF Finish
<1>3. CASE UNCHANGED <<heap, levels, queue, total, active>>
  BY <1>2, <1>3 DEF Inv, TypeOK, LevelsInStep, ActiveInStep, Queued, FifoLists,
                    Uncrossed, Stamps
<1>4. CASE rem[incoming] > 0 /\ AddOrder(incoming)
  <2>. DEFINE n == incoming
              s == side[n]
              p == price[n]
              q == queue[s][p]
  <2>1. /\ heap' \in [Side -> SUBSET Price]
        /\ levels' \in [Side -> SUBSET Price]
        /\ queue' \in [Side -> [Price -> Seq(OrderIds)]]
        /\ total' \in [Side -> [Price -> Int]]
        /\ active' = active \cup {n}
        /\ \A t \in Side, r \in Price :
             queue'[t][r] = IF t = s /\ r = p THEN Append(queue[t][r], n) ELSE queue[t][r]
        /\ \A t \in Side :
             heap'[t] = IF t = s THEN heap[t] \cup {p} ELSE heap[t]
        /\ LevelsInStep'
    BY <1>1, <1>4, AddEffect DEF Inv
  <2>2. s \in Side /\ p \in Price /\ q \in Seq(OrderIds) /\ Len(q) \in Nat
    BY <1>1 DEF Inv, TypeOK
  <2>3. /\ Len(Append(q, n)) = Len(q) + 1
        /\ \A i \in 1 .. Len(q) : Append(q, n)[i] = q[i]
        /\ Append(q, n)[Len(q) + 1] = n
    BY <1>1, <2>2, AppendProperties
  <2>4. queue'[s][p] = Append(q, n)
    BY <2>1, <2>2
  <2>5. TypeOK'
    BY <1>1, <1>2, <2>1 DEF Inv, TypeOK
  <2>6. ASSUME NEW x \in active'
        PROVE  Queued(x, side[x], price[x])'
    <3>1. CASE x = n
      <4>1. Len(q) + 1 \in 1 .. Len(queue'[s][p]) /\ queue'[s][p][Len(q) + 1] = n
        BY <2>2, <2>3, <2>4
      <4>. QED  BY <1>2, <3>1, <4>1 DEF Queued
    <3>2. CASE x # n
      <4>1. x \in active /\ side[x] \in Side /\ price[x] \in Price
        BY <2>1, <3>2 DEF Inv, TypeOK
      <4>2. PICK i \in 1 .. Len(queue[side[x]][price[x]]) : queue[side[x]][price[x]][i] = x
        BY <4>1 DEF Inv, ActiveInStep, Queued
      <4>3. CASE side[x] = s /\ price[x] = p
        <5>1. i \in 1 .. Len(queue'[s][p]) /\ queue'[s][p][i] = x
          BY <2>2, <2>3, <2>4, <4>2, <4>3
        <5>. QED  BY <1>2, <4>3, <5>1 DEF Queued
      <4>4. CASE ~(side[x] = s /\ price[x] = p)
        <5>1. queue'[side[x]][price[x]] = queue[side[x]][price[x]]
          BY <2>1, <4>1, <4>4
        <5>. QED  BY <1>2, <4>2, <5>1 DEF Queued
      <4>. QED  BY <4>3, <4>4
    <3>. QED  BY <3>1, <3>2
  <2>7. ASSUME NEW t \in Side, NEW r \in Price, NEW i \in 1 .. Len(queue'[t][r])
        PROVE  \/ /\ t = s /\ r = p /\ i = Len(q) + 1
                  /\ queue'[t][r][i] = n
               \/ /\ i \in 1 .. Len(queue[t][r])
                  /\ queue'[t][r][i] = queue[t][r][i]
                  /\ queue[t][r][i] \in active
    <3>1. CASE t = s /\ r = p
      <4>1. i \in 1 .. Len(q) + 1
        BY <2>3, <2>4, <3>1
      <4>2. CASE i = Len(q) + 1
        BY <2>3, <2>4, <3>1, <4>2
      <4>3. CASE i \in 1 .. Len(q)
        BY <2>3, <2>4, <3>1, <4>3 DEF Inv, ActiveInStep
      <4>. QED  BY <2>2, <4>1, <4>2, <4>3
    <3>2. CASE ~(t = s /\ r = p)
      <4>1. queue'[t][r] = queue[t][r]
        BY <2>1, <3>2
      <4>. QED  BY <4>1 DEF Inv, ActiveInStep
    <3>. QED  BY <3>1, <3>2
  <2>8. ActiveInStep'
    <3>1. ASSUME NEW t \in Side, NEW r \in Price, NEW i \in 1 .. Len(queue'[t][r])
          PROVE  LET o == queue'[t][r][i] IN
                 o \in active' /\ side[o] = t /\ price[o] = r /\ rem[o] > 0
      <4>1. CASE t = s /\ r = p /\ queue'[t][r][i] = n
        BY <1>4, <2>1, <4>1
      <4>2. CASE /\ i \in 1 .. Len(queue[t][r])
                 /\ queue'[t][r][i] = queue[t][r][i]
        BY <2>1, <4>2 DEF Inv, ActiveInStep
      <4>. QED  BY <2>7, <4>1, <4>2
    <3>. QED  BY <1>2, <2>6, <3>1 DEF ActiveInStep
  <2>9. FifoLists'
    <3>. SUFFICES ASSUME NEW t \in Side, NEW r \in Price,
                         NEW i \in 1 .. Len(queue'[t][r]),
                         NEW j \in 1 .. Len(queue'[t][r]), i < j
                  PROVE  stamp[queue'[t][r][i]] < stamp[queue'[t][r][j]]
      BY <1>2 DEF FifoLists
    <3>1. \A o \in active : stamp[o] < stamp[n]
      BY <1>1, NoOrderAssumption DEF Inv, Stamps
    <3>2. CASE j \in 1 .. Len(queue[t][r]) /\ queue'[t][r][j] = queue[t][r][j]
      <4>1. i \in 1 .. Len(queue[t][r])
        BY <2>2, <2>7, <3>2
      <4>2. queue'[t][r][i] = queue[t][r][i]
        BY <2>2, <2>7, <3>2, <4>1
      <4>. QED  BY <3>2, <4>1, <4>2 DEF Inv, FifoLists
    <3>3. CASE t = s /\ r = p /\ j = Len(q) + 1 /\ queue'[t][r][j] = n
      <4>1. queue'[t][r][i] \in active
        BY <2>2, <2>7, <3>3
      <4>. QED  BY <3>1, <3>3, <4>1
    <3>. QED  BY <2>7, <3>2, <3>3
  <2>10. Uncrossed'
    <3>1. Opp \in Side /\ heap[Opp] \subseteq Price
      BY DEF Opp, Opposite, Side, Inv, TypeOK
    <3>2. \A c \in heap[Opp] : ~Crosses(s, p, c)
      <4>. SUFFICES ASSUME NEW c \in heap[Opp] PROVE ~Crosses(s, p, c)
        OBVIOUS
      <4>1. /\ Best(Opp) \in heap[Opp]
            /\ \A x \in heap[Opp] \ {Best(Opp)} : Better(Opp, Best(Opp), x)
        BY <3>1, BestIsTop
      <4>2. Best(Opp) \in levels[Opp]
        BY <3>1, <4>1 DEF Inv, LevelsInStep
      <4>3. ~Crosses(s, p, Best(Opp))
        BY <1>4, <4>1, <4>2 DEF Finish, Matching
      <4>4. p \in Nat /\ c \in Nat /\ Best(Opp) \in Nat
        BY <2>2, <3>1, <4>1, PriceAssumption
      <4>5. c = Best(Opp) \/ Better(Opp, Best(Opp), c)
        BY <4>1
      <4>. HIDE DEF s, p
      <4>6. Opp = Opposite(s)
        BY DEF Opp, s
      <4>. QED  BY <2>2, <4>3, <4>4, <4>5, <4>6 DEF Crosses, Better, Opposite, Side
    <3>3. \A t \in Side : heap[t] \subseteq Nat
      BY PriceAssumption DEF Inv, TypeOK
    <3>4. p \in Nat
      BY <2>2, PriceAssumption
    <3>. HIDE DEF p, s
    <3>5. CASE s = "BUY"
      <4>1. Opp = "SELL"
        BY <3>5 DEF Opp, Opposite, s
      <4>2. heap'["BUY"] = heap["BUY"] \cup {p} /\ heap'["SELL"] = heap["SELL"]
        BY <2>1, <3>5 DEF Side
      <4>3. \A a \in heap["SELL"] : p < a
        BY <3>2, <3>3, <3>4, <3>5, <4>1 DEF Crosses, Side
      <4>. QED  BY <4>2, <4>3 DEF Inv, Uncrossed
    <3>6. CASE s = "SELL"
      <4>1. Opp = "BUY"
        BY <3>6 DEF Opp, Opposite, s
      <4>2. heap'["SELL"] = heap["SELL"] \cup {p} /\ heap'["BUY"] = heap["BUY"]
        BY <2>1, <3>6 DEF Side
      <4>3. \A b \in heap["BUY"] : b < p
        BY <3>2, <3>3, <3>4, <3>6, <4>1 DEF Crosses, Side
      <4>. QED  BY <4>2, <4>3 DEF Inv, Uncrossed
    <3>. QED  BY <2>2, <3>5, <3>6 DEF Side
  <2>11. Stamps'
    <3>1. stamp[n] = now /\ now \in Nat \ {0}
      BY <1>1, NoOrderAssumption DEF Inv, Stamps, TypeOK
    <3>. QED  BY <1>2, <2>1, <3>1 DEF Inv, Stamps
  <2>. QED  BY <2>1, <2>5, <2>8, <2>9, <2>10, <2>11 DEF Inv
<1>. QED  BY <1>3, <1>4 DEF Finish

LEMMA CancelInv ==
  ASSUME Inv, NEW o \in OrderIds, Cancel(o)
  PROVE  Inv'
<1>. DEFINE s == side[o]
            p == price[o]
            q == queue[s][p]
<1>1. /\ s \in Side /\ p \in Price /\ p \in levels[s] /\ q \in Seq(OrderIds)
      /\ UNCHANGED <<side, price, rem, stamp, now, incoming>>
      /\ active' = active \ {o}
  BY DEF Cancel, Inv, TypeOK
<1>2. total' \in [Side -> [Price -> Int]]
  <2>1. rem[o] \in Nat /\ total \in [Side -> [Price -> Int]]
    BY DEF Inv, TypeOK
  <2>2. total' = [total EXCEPT ![s][p] = @ - rem[o]]
    BY DEF Cancel
  <2>. HIDE DEF s, p
  <2>. QED  BY <1>1, <2>1, <2>2
<1>3. PICK i \in 1 .. Len(q) : q[i] = o /\ ShrinkLevel(s, p, Unlink(q, i))
  BY DEF Cancel
<1>4. /\ Unlink(q, i) \in Seq(OrderIds)
      /\ Len(Unlink(q, i)) = Len(q) - 1
      /\ \A j \in 1 .. Len(q) - 1 :
           Unlink(q, i)[j] = IF j < i THEN q[j] ELSE q[j + 1]
  BY <1>1, <1>3, UnlinkProperties
<1>5. \A x \in active' : rem'[x] > 0
  <2>. SUFFICES ASSUME NEW x \in active PROVE rem[x] > 0
    BY <1>1
  <2>1. side[x] \in Side /\ price[x] \in Price
    BY DEF Inv, TypeOK
  <2>. QED  BY <2>1 DEF Inv, ActiveInStep, Queued
<1>. HIDE DEF s, p
<1>6. /\ heap' \in [Side -> SUBSET Price]
      /\ levels' \in [Side -> SUBSET Price]
      /\ queue' \in [Side -> [Price -> Seq(OrderIds)]]
      /\ active' \in SUBSET OrderIds
      /\ LevelsInStep' /\ ActiveInStep' /\ FifoLists' /\ Uncrossed' /\ Stamps'
  BY <1>1, <1>3, <1>4, <1>5, RemovalKeepsInv
<1>. QED  BY <1>1, <1>2, <1>6 DEF Inv, TypeOK

LEMMA NextInv == Inv /\ [Next]_vars => Inv'
<1>. SUFFICES ASSUME Inv, [Next]_vars PROVE Inv'
  OBVIOUS
<1>1. ASSUME NEW o \in OrderIds, NEW s \in Side, NEW p \in Price, NEW q \in Qty,
             Submit(o, s, p, q)
      PROVE  Inv'
  BY <1>1, SubmitInv
<1>2. CASE MatchOne
  BY <1>2, MatchOneInv
<1>3. CASE Finish
  BY <1>3, FinishInv
<1>4. ASSUME NEW o \in OrderIds, Cancel(o)
      PROVE  Inv'
  BY <1>4, CancelInv
<1>5. CASE UNCHANGED vars
  BY <1>5 DEF vars, Inv, TypeOK, LevelsInStep, ActiveInStep, Queued, FifoLists,
              Uncrossed, Stamps
<1>. QED  BY <1>1, <1>2, <1>3, <1>4, <1>5 DEF Next

LEMMA Invariance == Spec => []Inv
BY InitInv, NextInv, PTL DEF Spec

-----------------------------------------------------------------------------
(* The results.                                                            *)

(* The variables keep their types in every behaviour of the book.          *)
THEOREM BookTypes == Spec => []TypeOK
<1>1. Inv => TypeOK
  BY DEF Inv
<1>. QED  BY <1>1, Invariance, PTL

(* The heap, the map of levels and the lists never disagree, so Match      *)
(* never meets a nil front order and never stops before the best level.    *)
THEOREM BookInStep == Spec => []LevelsInStep
<1>1. Inv => LevelsInStep
  BY DEF Inv
<1>. QED  BY <1>1, Invariance, PTL

(* ActiveOrders and the lists never disagree: CancelOrder finds in its     *)
(* list every order it looks up, and no order that was filled.             *)
THEOREM CancelFindsOrder == Spec => []ActiveInStep
<1>1. Inv => ActiveInStep
  BY DEF Inv
<1>. QED  BY <1>1, Invariance, PTL

(* Orders of one price are matched in the order they were submitted.       *)
THEOREM TimePriority == Spec => []FifoLists
<1>1. Inv => FifoLists
  BY DEF Inv
<1>. QED  BY <1>1, Invariance, PTL

(* The book is never crossed.                                              *)
THEOREM NeverCrossed == Spec => []Uncrossed
<1>1. Inv => Uncrossed
  BY DEF Inv
<1>. QED  BY <1>1, Invariance, PTL

-----------------------------------------------------------------------------
(* The totals of the levels.                                               *)

(* Summing over the positions of a list in order of submission is summing  *)
(* over its orders, since none is in it twice.                             *)
LEMMA SumOverList ==
  ASSUME NEW q \in Seq(OrderIds), NEW st \in [OrderIds -> Nat],
         NEW f, \A o \in OrderIds : f[o] \in Nat,
         \A i, j \in 1 .. Len(q) : i < j => st[q[i]] < st[q[j]]
  PROVE  /\ IsFiniteSet(Range(q)) /\ Range(q) \subseteq OrderIds
         /\ SumFunction([i \in DOMAIN q |-> f[q[i]]]) = Sum(f, Range(q))
<1>. DEFINE S == 1 .. Len(q)
            g == [i \in DOMAIN q |-> f[q[i]]]
<1>1. Len(q) \in Nat /\ DOMAIN q = S /\ \A i \in S : q[i] \in OrderIds
  BY LenProperties, ElementOfSeq
<1>2. IsFiniteSet(S)
  BY <1>1, FS_Interval
<1>3. \A i \in S : f[q[i]] \in Int /\ g[i] = f[q[i]]
  BY <1>1
<1>4. \A i, j \in S : q[i] = q[j] => i = j
  <2>. SUFFICES ASSUME NEW i \in S, NEW j \in S, i < j PROVE q[i] # q[j]
    BY <1>1
  <2>1. st[q[i]] < st[q[j]] /\ st[q[i]] \in Nat
    BY <1>1
  <2>. QED  BY <2>1
<1>5. SumFunction(g) = Sum(g, S)
  BY <1>1, SumOfFunction
<1>. DEFINE b == [i \in S |-> q[i]]
<1>. HIDE DEF g
<1>6. \A i \in S : b[i] = q[i]
  OBVIOUS
<1>7. Range(q) = {b[i] : i \in S}
  BY <1>1, <1>6 DEF Range
<1>8. Range(q) \subseteq OrderIds
  BY <1>1, <1>6, <1>7
<1>. HIDE DEF S, b
<1>9. \A i \in S : f[b[i]] \in Int /\ g[i] = f[b[i]]
  BY <1>3, <1>6
<1>10. \A i, j \in S : b[i] = b[j] => i = j
  BY <1>4, <1>6
<1>11. IsFiniteSet({b[i] : i \in S}) /\ Sum(g, S) = Sum(f, {b[i] : i \in S})
  BY <1>2, <1>9, <1>10, SumRenamed
<1>. QED  BY <1>5, <1>7, <1>8, <1>11 DEF g

(* The orders of a list without its k-th element.                          *)
LEMMA RangeShrinks ==
  ASSUME TypeOK, FifoLists, NEW s \in Side, NEW p \in Price,
         NEW k \in 1 .. Len(queue[s][p]), NEW q \in Seq(OrderIds),
         Len(q) = Len(queue[s][p]) - 1,
         \A j \in 1 .. Len(q) :
           q[j] = IF j < k THEN queue[s][p][j] ELSE queue[s][p][j + 1]
  PROVE  Range(q) = Range(queue[s][p]) \ {queue[s][p][k]}
<1>. DEFINE old == queue[s][p]
<1>1. old \in Seq(OrderIds) /\ Len(old) \in Nat /\ DOMAIN old = 1 .. Len(old) /\ DOMAIN q = 1 .. Len(q)
  BY LenProperties DEF TypeOK
<1>2. \A i, j \in 1 .. Len(old) : i # j => old[i] # old[j]
  BY Distinct
<1>. HIDE DEF old
<1>3. ASSUME NEW x \in Range(q)
      PROVE  x \in Range(old) /\ x # old[k]
  <2>1. PICK j \in 1 .. Len(q) : x = q[j]
    BY <1>1 DEF Range
  <2>2. CASE j < k
    <3>1. x = old[j] /\ j \in 1 .. Len(old) /\ j # k
      BY <1>1, <2>1, <2>2 DEF old
    <3>. QED  BY <1>1, <1>2, <3>1 DEF Range, old
  <2>3. CASE ~(j < k)
    <3>1. x = old[j + 1] /\ j + 1 \in 1 .. Len(old) /\ j + 1 # k
      BY <1>1, <2>1, <2>3 DEF old
    <3>. QED  BY <1>1, <1>2, <3>1 DEF Range, old
  <2>. QED  BY <2>2, <2>3
<1>4. ASSUME NEW x \in Range(old), x # old[k]
      PROVE  x \in Range(q)
  <2>1. PICK i \in 1 .. Len(old) : x = old[i]
    BY <1>1 DEF Range
  <2>2. i # k /\ k \in 1 .. Len(old)
    BY <1>4, <2>1 DEF old
  <2>3. CASE i < k
    <3>1. i \in 1 .. Len(q) /\ q[i] = x
      BY <1>1, <2>1, <2>2, <2>3 DEF old
    <3>. QED  BY <1>1, <3>1 DEF Range
  <2>4. CASE k < i
    <3>1. i - 1 \in 1 .. Len(q) /\ q[i - 1] = x
      BY <1>1, <2>1, <2>2, <2>4 DEF old
    <3>. QED  BY <1>1, <3>1 DEF Range
  <2>. QED  BY <1>1, <2>2, <2>3, <2>4
<1>. QED  BY <1>3, <1>4 DEF old

(* What the orders of a list have in common.                               *)
LEMMA ListFacts ==
  ASSUME Inv, NEW s \in Side, NEW p \in Price
  PROVE  /\ queue[s][p] \in Seq(OrderIds)
         /\ IsFiniteSet(Range(queue[s][p]))
         /\ \A o \in Range(queue[s][p]) : o \in OrderIds /\ o \in active
         /\ \A o \in Range(queue[s][p]) : side[o] = s /\ price[o] = p
         /\ \A i \in 1 .. Len(queue[s][p]) : queue[s][p][i] \in Range(queue[s][p])
<1>. DEFINE q == queue[s][p]
<1>1. q \in Seq(OrderIds) /\ (\A o \in OrderIds : rem[o] \in Nat) /\ stamp \in [OrderIds -> Nat]
  BY DEF Inv, TypeOK
<1>2. DOMAIN q = 1 .. Len(q)
  BY <1>1, LenProperties
<1>3. \A i, j \in 1 .. Len(q) : i < j => stamp[q[i]] < stamp[q[j]]
  BY DEF Inv, FifoLists
<1>4. \A i \in 1 .. Len(q) : q[i] \in active /\ side[q[i]] = s /\ price[q[i]] = p
  BY DEF Inv, ActiveInStep
<1>. HIDE DEF q
<1>5. IsFiniteSet(Range(q)) /\ Range(q) \subseteq OrderIds
  BY <1>1, <1>3, SumOverList
<1>6. /\ \A o \in Range(q) : o \in OrderIds /\ o \in active
      /\ \A o \in Range(q) : side[o] = s /\ price[o] = p
      /\ \A i \in 1 .. Len(q) : q[i] \in Range(q)
  BY <1>2, <1>4, <1>5 DEF Range
<1>. QED  BY <1>1, <1>5, <1>6 DEF q

LEMMA ListSum ==
  ASSUME Inv, NEW s \in Side, NEW p \in Price
  PROVE  SumFunction([i \in DOMAIN queue[s][p] |-> rem[queue[s][p][i]]])
           = Sum(rem, Range(queue[s][p]))
<1>. DEFINE q == queue[s][p]
<1>1. q \in Seq(OrderIds) /\ (\A o \in OrderIds : rem[o] \in Nat) /\ stamp \in [OrderIds -> Nat]
  BY DEF Inv, TypeOK
<1>2. \A i, j \in 1 .. Len(q) : i < j => stamp[q[i]] < stamp[q[j]]
  BY DEF Inv, FifoLists
<1>. HIDE DEF q
<1>3. SumFunction([i \in DOMAIN q |-> rem[q[i]]]) = Sum(rem, Range(q))
  BY <1>1, <1>2, SumOverList
<1>. QED  BY <1>3 DEF q

(* A level whose list, orders and total stay as they are.                  *)
LEMMA DepthKept ==
  ASSUME Inv, Depths, NEW s \in Side, NEW p \in Price, p \in levels[s],
         queue'[s][p] = queue[s][p], total'[s][p] = total[s][p],
         \A o \in active : side[o] = s /\ price[o] = p => rem'[o] = rem[o]
  PROVE  total'[s][p] = Sum(rem', Range(queue'[s][p]))
<1>. DEFINE S == Range(queue[s][p])
<1>1. IsFiniteSet(S)
  BY ListFacts
<1>2. \A o \in S : rem[o] \in Int /\ rem[o] = rem'[o]
  <2>. SUFFICES ASSUME NEW o \in S PROVE rem[o] \in Int /\ rem[o] = rem'[o]
    OBVIOUS
  <2>1. o \in OrderIds /\ o \in active
    BY ListFacts
  <2>2. side[o] = s /\ price[o] = p
    BY ListFacts
  <2>. QED  BY <2>1, <2>2 DEF Inv, TypeOK
<1>3. total[s][p] = Sum(rem, S)
  BY DEF Depths
<1>. HIDE DEF S
<1>4. Sum(rem, S) = Sum(rem', S)
  BY <1>1, <1>2, SumSame
<1>. QED  BY <1>3, <1>4 DEF S

(* A level that loses its k-th order and what was left of it.              *)
LEMMA DepthShrinks ==
  ASSUME Inv, Depths, NEW s \in Side, NEW p \in Price, p \in levels[s],
         NEW k \in 1 .. Len(queue[s][p]), NEW q \in Seq(OrderIds),
         Len(q) = Len(queue[s][p]) - 1,
         \A j \in 1 .. Len(q) :
           q[j] = IF j < k THEN queue[s][p][j] ELSE queue[s][p][j + 1],
         queue'[s][p] = q,
         total'[s][p] = total[s][p] - rem[queue[s][p][k]],
         \A o \in active \ {queue[s][p][k]} : rem'[o] = rem[o]
  PROVE  total'[s][p] = Sum(rem', Range(queue'[s][p]))
<1>. DEFINE S == Range(queue[s][p])
            r == queue[s][p][k]
<1>1. IsFiniteSet(S) /\ r \in S
  BY ListFacts
<1>2. Range(q) = S \ {r}
  <2>1. TypeOK /\ FifoLists
    BY DEF Inv
  <2>2. Range(q) = Range(queue[s][p]) \ {queue[s][p][k]}
    BY <2>1, RangeShrinks
  <2>. QED  BY <2>2
<1>3. \A o \in S : rem[o] \in Int /\ o \in active
  <2>. SUFFICES ASSUME NEW o \in S PROVE rem[o] \in Int /\ o \in active
    OBVIOUS
  <2>1. o \in OrderIds /\ o \in active
    BY ListFacts
  <2>. QED  BY <2>1 DEF Inv, TypeOK
<1>4. \A o \in S \ {r} : rem[o] \in Int /\ rem[o] = rem'[o]
  BY <1>3
<1>5. total[s][p] = Sum(rem, S)
  BY DEF Depths
<1>. HIDE DEF S, r
<1>6. Sum(rem, S) = rem[r] + Sum(rem, S \ {r})
  <2>1. \A o \in S : rem[o] \in Int
    BY <1>3
  <2>. QED  BY <1>1, <2>1, SumRemove, ZenonT(60)
<1>7. IsFiniteSet(S \ {r})
  BY <1>1, FS_Subset
<1>8. Sum(rem, S \ {r}) = Sum(rem', S \ {r})
  BY <1>4, <1>7, SumSame
<1>9. Sum(rem, S \ {r}) \in Int /\ rem[r] \in Int
  BY <1>1, <1>4, <1>3, <1>7, SumType
<1>10. total'[s][p] = Sum(rem, S) - rem[r]
  BY <1>5 DEF r
<1>11. total'[s][p] = Sum(rem', S \ {r})
  BY <1>6, <1>8, <1>9, <1>10
<1>. QED  BY <1>2, <1>11

LEMMA MatchOneDepths ==
  ASSUME Inv, Depths, MatchOne
  PROVE  Depths'
<1>. DEFINE s == Opp
            p == Best(s)
            q == queue[s][p]
            r == Head(q)
            x == Least(rem[incoming], rem[r])
<1>1. Matching /\ total' = [total EXCEPT ![s][p] = @ - x]
  BY DEF MatchOne
<1>2. /\ s \in Side /\ p \in Price /\ p \in levels[s]
      /\ q \in Seq(OrderIds) /\ q # <<>> /\ r = q[1] /\ 1 \in 1 .. Len(q)
      /\ r \in active /\ r \in OrderIds /\ r # incoming
      /\ side[r] = s /\ price[r] = p
  BY <1>1, MatchingFacts
<1>3. incoming \in OrderIds /\ rem \in [OrderIds -> Nat] /\ incoming \notin active
  BY <1>1 DEF Matching, Inv, TypeOK, Stamps
<1>4. x \in Nat
  BY <1>2, <1>3 DEF Least
<1>5. rem' = [rem EXCEPT ![incoming] = @ - x, ![r] = @ - x]
  BY DEF MatchOne
<1>6. total \in [Side -> [Price -> Int]] /\ active \subseteq OrderIds
  BY DEF Inv, TypeOK
<1>7. /\ ShrinkLevel(s, p, Tail(q)) /\ rem[r] = x
      \/ UNCHANGED <<heap, levels, queue, active>>
  BY DEF MatchOne, Retire
<1>8. /\ Tail(q) \in Seq(OrderIds) /\ Len(Tail(q)) = Len(q) - 1
      /\ \A j \in 1 .. Len(Tail(q)) : Tail(q)[j] = IF j < 1 THEN q[j] ELSE q[j + 1]
  BY <1>2, HeadTailProperties
<1>. HIDE DEF r, x
<1>9. /\ rem'[r] = rem[r] - x
      /\ \A o \in active \ {r} : rem'[o] = rem[o]
  BY <1>2, <1>3, <1>4, <1>5, <1>6
<1>. HIDE DEF s, p
<1>10. /\ total'[s][p] = total[s][p] - x
       /\ \A t \in Side, u \in Price : ~(t = s /\ u = p) => total'[t][u] = total[t][u]
  BY <1>1, <1>2, <1>4, <1>6
<1>. HIDE DEF q
<1>11. ASSUME NEW t \in Side, NEW u \in Price, u \in levels'[t], ~(t = s /\ u = p)
       PROVE  total'[t][u] = Sum(rem', Range(queue'[t][u]))
  <2>1. u \in levels[t] /\ queue'[t][u] = queue[t][u]
    <3>1. CASE UNCHANGED <<heap, levels, queue, active>>
      BY <1>11, <3>1
    <3>2. CASE ShrinkLevel(s, p, Tail(q))
      <4>1. queue \in [Side -> [Price -> Seq(OrderIds)]] /\ levels \in [Side -> SUBSET Price]
        BY DEF Inv, TypeOK
      <4>. QED  BY <1>2, <1>11, <3>2, <4>1 DEF ShrinkLevel
    <3>. QED  BY <1>7, <3>1, <3>2
  <2>2. \A o \in active : side[o] = t /\ price[o] = u => rem'[o] = rem[o]
    BY <1>2, <1>9, <1>11
  <2>3. total'[t][u] = total[t][u]
    BY <1>10, <1>11
  <2>. QED  BY <2>1, <2>2, <2>3, DepthKept
<1>12. total'[s][p] = Sum(rem', Range(queue'[s][p]))
  <2>1. CASE ShrinkLevel(s, p, Tail(q)) /\ rem[r] = x
    <3>1. queue'[s][p] = Tail(q)
      BY <1>2, <2>1 DEF ShrinkLevel, Inv, TypeOK
    <3>2. total'[s][p] = total[s][p] - rem[queue[s][p][1]]
      BY <1>2, <1>10, <2>1 DEF q
    <3>3. \A o \in active \ {queue[s][p][1]} : rem'[o] = rem[o]
      BY <1>2, <1>9 DEF q
    <3>4. \A j \in 1 .. Len(Tail(q)) :
            Tail(q)[j] = IF j < 1 THEN queue[s][p][j] ELSE queue[s][p][j + 1]
      BY <1>8 DEF q
    <3>5. 1 \in 1 .. Len(queue[s][p]) /\ Len(Tail(q)) = Len(queue[s][p]) - 1
      BY <1>2, <1>8 DEF q
    <3>. QED  BY <1>2, <1>8, <3>1, <3>2, <3>3, <3>4, <3>5, DepthShrinks
  <2>2. CASE UNCHANGED <<heap, levels, queue, active>>
    <3>. DEFINE S == Range(queue[s][p])
    <3>1. IsFiniteSet(S) /\ r \in S /\ \A o \in S : o \in OrderIds /\ o \in active
      BY <1>2, ListFacts DEF q
    <3>2. \A o \in S : rem[o] \in Int /\ rem'[o] \in Int
      <4>1. rem[r] \in Nat
        BY <1>2, <1>3
      <4>. QED  BY <1>3, <1>4, <1>9, <3>1, <4>1
    <3>3. \A o \in S : o # r => rem[o] = rem'[o]
      BY <1>9, <3>1
    <3>4. total[s][p] = Sum(rem, S)
      BY <1>2 DEF Depths
    <3>. HIDE DEF S
    <3>5. Sum(rem', S) = Sum(rem, S) + (rem'[r] - rem[r])
      BY <3>1, <3>2, <3>3, SumUpdate
    <3>6. Sum(rem, S) \in Int
      BY <3>1, <3>2, SumType
    <3>7. total'[s][p] = Sum(rem', S)
      BY <1>4, <1>9, <1>10, <3>1, <3>2, <3>4, <3>5, <3>6
    <3>8. queue'[s][p] = queue[s][p]
      BY <2>2
    <3>. QED  BY <3>7, <3>8 DEF S
  <2>. QED  BY <1>7, <2>1, <2>2
<1>13. \A t \in Side : levels'[t] \subseteq Price
  BY MatchOneInv DEF Inv, TypeOK
<1>14. ASSUME NEW t \in Side, NEW u \in levels'[t]
       PROVE  total'[t][u] = Sum(rem', Range(queue'[t][u]))
  <2>1. u \in Price
    BY <1>13
  <2>. QED  BY <1>11, <1>12, <2>1
<1>. QED  BY <1>14 DEF Depths

LEMMA FinishDepths ==
  ASSUME Inv, Depths, Finish
  PROVE  Depths'
<1>1. incoming \in OrderIds /\ incoming \notin active
  BY DEF Finish, Inv, TypeOK, Stamps
<1>2. rem' = rem /\ side' = side /\ price' = price
  BY DEF Finish
<1>3. CASE UNCHANGED <<heap, levels, queue, total, active>>
  BY <1>2, <1>3 DEF Depths
<1>4. CASE AddOrder(incoming)
  <2>. DEFINE n == incoming
              s == side[n]
              p == price[n]
              q == queue[s][p]
  <2>1. s \in Side /\ p \in Price /\ q \in Seq(OrderIds) /\ rem[n] \in Nat
    BY <1>1 DEF Inv, TypeOK
  <2>2. /\ levels' = [levels EXCEPT ![s] = @ \cup {p}]
        /\ queue' = [queue EXCEPT ![s][p] = IF p \notin levels[s] THEN <<n>> ELSE Append(@, n)]
        /\ total' = [total EXCEPT ![s][p] = (IF p \notin levels[s] THEN 0 ELSE @) + rem[n]]
    BY <1>4 DEF AddOrder
  <2>3. /\ levels \in [Side -> SUBSET Price] /\ queue \in [Side -> [Price -> Seq(OrderIds)]]
        /\ total \in [Side -> [Price -> Int]]
    BY DEF Inv, TypeOK
  <2>4. /\ IsFiniteSet(Range(q)) /\ n \notin Range(q)
        /\ \A o \in Range(q) : rem[o] \in Int
        /\ p \notin levels[s] => q = <<>>
    <3>1. IsFiniteSet(Range(q))
      BY <2>1, ListFacts
    <3>2. \A o \in Range(q) : o \in OrderIds /\ o \in active
      BY <2>1, ListFacts
    <3>3. \A o \in Range(q) : rem[o] \in Int
      <4>. HIDE DEF q
      <4>. QED  BY <3>2 DEF Inv, TypeOK
    <3>4. p \notin levels[s] => q = <<>>
      BY <2>1, LevelIff DEF Inv
    <3>. QED  BY <1>1, <3>1, <3>2, <3>3, <3>4
  <2>5. Range(Append(q, n)) = Range(q) \cup {n} /\ Range(<<n>>) = {n}
    <3>. HIDE DEF n, q
    <3>1. /\ DOMAIN q = 1 .. Len(q) /\ Len(q) \in Nat
          /\ DOMAIN Append(q, n) = 1 .. Len(q) + 1
          /\ \A i \in 1 .. Len(q) : Append(q, n)[i] = q[i]
          /\ Append(q, n)[Len(q) + 1] = n
      BY <1>1, <2>1, AppendProperties, LenProperties DEF n
    <3>2. Range(Append(q, n)) = Range(q) \cup {n}
      BY <3>1 DEF Range
    <3>3. DOMAIN <<n>> = {1} /\ <<n>>[1] = n
      OBVIOUS
    <3>. QED  BY <3>2, <3>3 DEF Range
  <2>. HIDE DEF n, s, p
  <2>6. /\ p \in levels[s] => queue'[s][p] = Append(q, n) /\ total'[s][p] = total[s][p] + rem[n]
        /\ p \notin levels[s] => queue'[s][p] = <<n>> /\ total'[s][p] = rem[n]
    BY <2>1, <2>2, <2>3
  <2>7. \A t \in Side, u \in Price : ~(t = s /\ u = p) =>
          queue'[t][u] = queue[t][u] /\ total'[t][u] = total[t][u] /\ (u \in levels'[t] => u \in levels[t])
    BY <2>1, <2>2, <2>3
  <2>8. total'[s][p] = Sum(rem, Range(queue'[s][p]))
    <3>1. CASE p \in levels[s]
      <4>1. total[s][p] = Sum(rem, Range(q))
        BY <2>1, <3>1 DEF Depths
      <4>2. \A o \in Range(q) \cup {n} : rem[o] \in Int
        BY <2>1, <2>4
      <4>. HIDE DEF q
      <4>3. Sum(rem, Range(q) \cup {n}) = Sum(rem, Range(q)) + rem[n]
        BY <2>4, <4>2, SumAdd
      <4>. QED  BY <2>5, <2>6, <3>1, <4>1, <4>3
    <3>2. CASE p \notin levels[s]
      <4>1. Sum(rem, {} \cup {n}) = Sum(rem, {}) + rem[n]
        <5>1. IsFiniteSet({}) /\ n \notin {} /\ \A o \in {} \cup {n} : rem[o] \in Int
          BY <2>1, FS_EmptySet
        <5>. QED  BY <5>1, SumAdd
      <4>2. Sum(rem, {}) = 0 /\ {} \cup {n} = {n}
        BY SumEmpty
      <4>3. rem[n] = Sum(rem, {n})
        BY <2>1, <4>1, <4>2
      <4>. QED  BY <2>5, <2>6, <3>2, <4>3
    <3>. QED  BY <2>1, <3>1, <3>2
  <2>9. ASSUME NEW t \in Side, NEW u \in levels'[t]
        PROVE  total'[t][u] = Sum(rem', Range(queue'[t][u]))
    <3>1. u \in Price
      BY <2>1, <2>2, <2>3
    <3>2. CASE t = s /\ u = p
      BY <1>2, <2>8, <3>2
    <3>3. CASE ~(t = s /\ u = p)
      BY <1>2, <2>7, <3>1, <3>3 DEF Depths
    <3>. QED  BY <3>2, <3>3
  <2>. QED  BY <2>9 DEF Depths
<1>. QED  BY <1>3, <1>4 DEF Finish

LEMMA CancelDepths ==
  ASSUME Inv, Depths, NEW o \in OrderIds, Cancel(o)
  PROVE  Depths'
<1>. DEFINE s == side[o]
            p == price[o]
            q == queue[s][p]
<1>1. /\ s \in Side /\ p \in Price /\ p \in levels[s] /\ q \in Seq(OrderIds)
      /\ rem' = rem /\ rem[o] \in Nat
  BY DEF Cancel, Inv, TypeOK
<1>2. PICK i \in 1 .. Len(q) : q[i] = o /\ ShrinkLevel(s, p, Unlink(q, i))
  BY DEF Cancel
<1>3. /\ Unlink(q, i) \in Seq(OrderIds)
      /\ Len(Unlink(q, i)) = Len(q) - 1
      /\ \A j \in 1 .. Len(q) - 1 :
           Unlink(q, i)[j] = IF j < i THEN q[j] ELSE q[j + 1]
  BY <1>1, <1>2, UnlinkProperties
<1>4. /\ levels \in [Side -> SUBSET Price] /\ queue \in [Side -> [Price -> Seq(OrderIds)]]
      /\ total \in [Side -> [Price -> Int]]
      /\ total' = [total EXCEPT ![s][p] = @ - rem[o]]
  BY DEF Cancel, Inv, TypeOK
<1>. HIDE DEF s, p
<1>5. /\ queue'[s][p] = Unlink(q, i) /\ total'[s][p] = total[s][p] - rem[o]
      /\ \A t \in Side, u \in Price : ~(t = s /\ u = p) =>
           queue'[t][u] = queue[t][u] /\ total'[t][u] = total[t][u] /\ (u \in levels'[t] => u \in levels[t])
  <2>. DEFINE new == Unlink(q, i)
  <2>1. /\ queue' = [queue EXCEPT ![s][p] = new]
        /\ levels' = [levels EXCEPT ![s] = IF new = <<>> THEN @ \ {p} ELSE @]
    BY <1>2 DEF ShrinkLevel
  <2>. HIDE DEF new
  <2>2. queue'[s][p] = new /\ total'[s][p] = total[s][p] - rem[o]
    BY <1>1, <1>4, <2>1
  <2>3. ASSUME NEW t \in Side, NEW u \in Price, ~(t = s /\ u = p)
        PROVE  queue'[t][u] = queue[t][u] /\ total'[t][u] = total[t][u] /\ (u \in levels'[t] => u \in levels[t])
    BY <1>1, <1>4, <2>1, <2>3
  <2>. QED  BY <2>2, <2>3 DEF new
<1>6. total'[s][p] = Sum(rem', Range(queue'[s][p]))
  <2>1. /\ Len(Unlink(q, i)) = Len(queue[s][p]) - 1
        /\ i \in 1 .. Len(queue[s][p])
        /\ \A j \in 1 .. Len(Unlink(q, i)) :
             Unlink(q, i)[j] = IF j < i THEN queue[s][p][j] ELSE queue[s][p][j + 1]
    BY <1>2, <1>3
  <2>2. /\ total'[s][p] = total[s][p] - rem[queue[s][p][i]]
        /\ \A x \in active \ {queue[s][p][i]} : rem'[x] = rem[x]
    BY <1>1, <1>2, <1>5
  <2>. QED  BY <1>1, <1>3, <1>5, <2>1, <2>2, DepthShrinks
<1>7. \A t \in Side : levels'[t] \subseteq Price
  BY CancelInv DEF Inv, TypeOK
<1>8. ASSUME NEW t \in Side, NEW u \in levels'[t]
      PROVE  total'[t][u] = Sum(rem', Range(queue'[t][u]))
  <2>1. u \in Price
    BY <1>7
  <2>2. CASE t = s /\ u = p
    BY <1>6, <2>2
  <2>3. CASE ~(t = s /\ u = p)
    <3>1. u \in levels[t] /\ queue'[t][u] = queue[t][u] /\ total'[t][u] = total[t][u]
      BY <1>5, <2>1, <2>3
    <3>. QED  BY <1>1, <3>1 DEF Depths
  <2>. QED  BY <2>2, <2>3
<1>. QED  BY <1>8 DEF Depths

LEMMA DepthStep == Inv /\ Depths /\ [Next]_vars => Depths'
<1>. SUFFICES ASSUME Inv, Depths, [Next]_vars PROVE Depths'
  OBVIOUS
<1>1. ASSUME NEW o \in OrderIds, NEW s \in Side, NEW p \in Price, NEW q \in Qty,
             Submit(o, s, p, q)
      PROVE  Depths'
  <2>1. o \notin active /\ UNCHANGED <<levels, queue, total>>
    BY <1>1 DEF Inv, Stamps, TypeOK, Submit
  <2>2. \A x \in active : rem'[x] = rem[x]
    BY <1>1, <2>1 DEF Submit, Inv, TypeOK
  <2>3. ASSUME NEW t \in Side, NEW u \in levels[t]
        PROVE  total'[t][u] = Sum(rem', Range(queue'[t][u]))
    <3>1. u \in Price
      BY DEF Inv, TypeOK
    <3>. QED  BY <2>1, <2>2, <3>1, DepthKept
  <2>. QED  BY <2>1, <2>3 DEF Depths
<1>2. CASE MatchOne
  BY <1>2, MatchOneDepths
<1>3. CASE Finish
  BY <1>3, FinishDepths
<1>4. ASSUME NEW o \in OrderIds, Cancel(o)
      PROVE  Depths'
  BY <1>4, CancelDepths
<1>5. CASE UNCHANGED vars
  BY <1>5 DEF vars, Depths
<1>. QED  BY <1>1, <1>2, <1>3, <1>4, <1>5 DEF Next

(* TotalQuantity is the sum of what its orders have left, in the middle of *)
(* Match too: the depth that is published is the depth of the lists.       *)
THEOREM DepthIsSum == Spec => []DepthExact
<1>1. Init => Depths
  BY DEF Init, Depths
<1>2. Inv /\ Depths => DepthExact
  <2>. SUFFICES ASSUME Inv, Depths, NEW s \in Side, NEW p \in levels[s]
                PROVE  total[s][p] = SumFunction([i \in DOMAIN queue[s][p] |-> rem[queue[s][p][i]]])
    BY DEF DepthExact
  <2>1. p \in Price
    BY DEF Inv, TypeOK
  <2>2. total[s][p] = Sum(rem, Range(queue[s][p]))
    BY DEF Depths
  <2>. QED  BY <2>1, <2>2, ListSum
<1>. QED  BY <1>1, <1>2, Invariance, DepthStep, PTL DEF Spec

-----------------------------------------------------------------------------
(* Why the loop of Match ends: every iteration fills a part of the         *)
(* incoming order, which is finite.                                        *)
LoopDescends ==
  [][MatchOne => rem'[incoming] \in Nat /\ rem'[incoming] < rem[incoming]]_vars

LEMMA MatchOneDescends ==
  ASSUME Inv, MatchOne
  PROVE  rem'[incoming] \in Nat /\ rem'[incoming] < rem[incoming]
<1>. DEFINE r == Head(queue[Opp][Best(Opp)])
            x == Least(rem[incoming], rem[r])
<1>1. Matching
  BY DEF MatchOne
<1>2. r \in OrderIds /\ r # incoming /\ rem[r] > 0
  BY <1>1, MatchingFacts
<1>3. incoming \in OrderIds /\ rem \in [OrderIds -> Nat] /\ rem[incoming] > 0
  BY <1>1 DEF Matching, Inv, TypeOK
<1>4. x \in Nat /\ 0 < x /\ x <= rem[incoming]
  BY <1>2, <1>3 DEF Least
<1>5. rem' = [rem EXCEPT ![incoming] = @ - x, ![r] = @ - x]
  BY DEF MatchOne
<1>. HIDE DEF r, x
<1>6. rem'[incoming] = rem[incoming] - x
  BY <1>2, <1>3, <1>5
<1>. QED  BY <1>3, <1>4, <1>6

(* Every iteration of Match leaves less of the incoming order to fill, and *)
(* never less than nothing.                                                *)
THEOREM MatchProgresses == Spec => LoopDescends
<1>1. Inv /\ [Next]_vars =>
        [MatchOne => rem'[incoming] \in Nat /\ rem'[incoming] < rem[incoming]]_vars
  BY MatchOneDescends
<1>. QED  BY <1>1, Invariance, PTL DEF Spec, LoopDescends

-----------------------------------------------------------------------------
(* The refinement.                                                         *)

(* One iteration of Match trades with the order that has price-time        *)
(* priority over the whole opposite side.                                  *)
LEMMA MatchOneTrades ==
  ASSUME Inv, MatchOne
  PROVE  \E r \in OrderIds : PT!Trade(r)
<1>. DEFINE s == Opp
            p == Best(s)
            q == queue[s][p]
            r == Head(q)
            x == Least(rem[incoming], rem[r])
<1>1. Matching
  BY DEF MatchOne
<1>2. /\ s \in Side /\ p \in Price /\ p \in levels[s]
      /\ \A b \in heap[s] \ {p} : Better(s, p, b)
      /\ q \in Seq(OrderIds) /\ r = q[1] /\ 1 \in 1 .. Len(q)
      /\ r \in active /\ r \in OrderIds /\ side[r] = s /\ price[r] = p /\ rem[r] > 0
  BY <1>1, MatchingFacts
<1>3. r \in PT!Candidates
  BY <1>1, <1>2 DEF Matching, PT!Candidates, PT!Opposite, PT!Crosses, Crosses, Opp, Opposite
<1>4. PT!HasPriority(r)
  <2>. SUFFICES ASSUME NEW o \in active \ {r}, side[o] = s
                PROVE  \/ Better(s, p, price[o])
                       \/ p = price[o] /\ stamp[r] < stamp[o]
    BY <1>2 DEF PT!HasPriority, PT!Better, Better
  <2>1. price[o] \in Price
    BY DEF Inv, TypeOK
  <2>2. PICK i \in 1 .. Len(queue[s][price[o]]) : queue[s][price[o]][i] = o
    BY DEF Inv, ActiveInStep, Queued
  <2>3. CASE price[o] = p
    <3>1. Len(q) \in Nat
      BY <1>2
    <3>2. i \in 1 .. Len(q) /\ 1 < i
      BY <1>2, <2>2, <2>3, <3>1
    <3>3. stamp[q[1]] < stamp[q[i]]
      BY <1>2, <3>2 DEF Inv, FifoLists
    <3>. QED  BY <1>2, <2>2, <2>3, <3>3
  <2>4. CASE price[o] # p
    <3>1. queue[s][price[o]] # <<>>
      BY <2>2, EmptySeq
    <3>2. price[o] \in heap[s]
      BY <1>2, <2>1, <3>1, LevelIff DEF Inv, LevelsInStep
    <3>. QED  BY <1>2, <2>4, <3>2
  <2>. QED  BY <2>3, <2>4
<1>5. /\ rem' = [rem EXCEPT ![incoming] = @ - x, ![r] = @ - x]
      /\ UNCHANGED <<side, price, stamp, now, incoming>>
  BY DEF MatchOne
<1>6. active' = IF rem[r] = x THEN active \ {r} ELSE active
  BY DEF MatchOne, Retire
<1>7. x = PT!Least(rem[incoming], rem[r])
  BY DEF Least, PT!Least
<1>8. incoming # NoOrder /\ rem[incoming] > 0
  BY <1>1 DEF Matching
<1>. HIDE DEF x, r
<1>9. PT!Trade(r)
  BY <1>3, <1>4, <1>5, <1>6, <1>7, <1>8 DEF PT!Trade
<1>. QED  BY <1>2, <1>9

(* When Match stops with something left, nothing in the book may trade     *)
(* with it.                                                                *)
LEMMA FinishFinishes ==
  ASSUME Inv, Finish
  PROVE  PT!Finish
<1>1. incoming # NoOrder /\ incoming \in OrderIds /\ rem[incoming] \in Nat
  BY DEF Finish, Inv, TypeOK
<1>2. ASSUME rem[incoming] > 0
      PROVE  PT!Candidates = {}
  <2>. SUFFICES ASSUME NEW c \in PT!Candidates PROVE FALSE
    OBVIOUS
  <2>1. c \in active /\ side[c] = Opp /\ Crosses(side[incoming], price[incoming], price[c])
    BY DEF PT!Candidates, PT!Opposite, PT!Crosses, Crosses, Opp, Opposite
  <2>2. Opp \in Side /\ price[c] \in Price /\ heap[Opp] \subseteq Price
    BY <2>1 DEF Inv, TypeOK, Opp, Opposite, Side
  <2>3. queue[Opp][price[c]] # <<>>
    BY <2>1, EmptySeq DEF Inv, ActiveInStep, Queued
  <2>4. price[c] \in heap[Opp]
    BY <2>2, <2>3, LevelIff DEF Inv, LevelsInStep
  <2>5. /\ Best(Opp) \in heap[Opp]
        /\ \A b \in heap[Opp] \ {Best(Opp)} : Better(Opp, Best(Opp), b)
    BY <2>2, <2>4, BestIsTop
  <2>6. Best(Opp) \in levels[Opp]
    BY <2>2, <2>5 DEF Inv, LevelsInStep
  <2>7. ~Crosses(side[incoming], price[incoming], Best(Opp))
    BY <1>1, <1>2, <2>4, <2>6 DEF Finish, Matching
  <2>8. price[c] = Best(Opp) \/ Better(Opp, Best(Opp), price[c])
    BY <2>4, <2>5
  <2>9. /\ side[incoming] \in Side /\ Opp = Opposite(side[incoming])
        /\ price[incoming] \in Nat /\ price[c] \in Nat /\ Best(Opp) \in Nat
    BY <1>1, <2>2, <2>5, PriceAssumption DEF Opp, Inv, TypeOK
  <2>. QED  BY <2>1, <2>7, <2>8, <2>9 DEF Crosses, Better, Opposite, Side
<1>3. active' = IF rem[incoming] > 0 THEN active \cup {incoming} ELSE active
  BY DEF Finish, AddOrder
<1>. QED  BY <1>1, <1>2, <1>3 DEF Finish, PT!Finish

(* Every step of the book with its indexes is a step of the abstract book. *)
LEMMA StepRefines == Inv /\ [Next]_vars => [PT!Next]_(PT!bookVars)
<1>. SUFFICES ASSUME Inv, [Next]_vars PROVE [PT!Next]_(PT!bookVars)
  OBVIOUS
<1>1. ASSUME NEW o \in OrderIds, NEW s \in Side, NEW p \in Price, NEW q \in Qty,
             Submit(o, s, p, q)
      PROVE  PT!Next
  <2>1. PT!Submit(o, s, p, q)
    BY <1>1 DEF Submit, PT!Submit
  <2>. QED  BY <2>1 DEF PT!Next, PT!Side, Side
<1>2. CASE MatchOne
  BY <1>2, MatchOneTrades DEF PT!Next
<1>3. CASE Finish
  BY <1>3, FinishFinishes DEF PT!Next
<1>4. ASSUME NEW o \in OrderIds, Cancel(o)
      PROVE  PT!Next
  <2>1. PT!Withdraw(o)
    BY <1>4 DEF Cancel, PT!Withdraw
  <2>. QED  BY <2>1 DEF PT!Next
<1>5. CASE UNCHANGED vars
  BY <1>5 DEF vars, PT!bookVars
<1>. QED  BY <1>1, <1>2, <1>3, <1>4, <1>5 DEF Next

(* The order book implements price-time priority: whatever the heaps, maps *)
(* and lists do, every trade is with the best price and, at that price,    *)
(* with the earliest order, and no trade that should happen is left out.   *)
THEOREM PriceTimePriority == Spec => PriceTime
<1>1. Init => PT!Init
  BY DEF Init, PT!Init, PT!AnyPrice, AnyPrice
<1>. QED  BY <1>1, Invariance, StepRefines, PTL DEF Spec, PriceTime, PT!Spec
=============================================================================
