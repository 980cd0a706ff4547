--------------------------- MODULE VastWindow_proofs ---------------------------
(* Proofs about VastWindow, for any market, limits and number of faults: as    *)
(* long as no call is lost and the coordinator not killed, a machine is billed *)
(* only while the client knows of it, the charge of a result covers what its   *)
(* machines cost, and that is bounded.                                         *)
EXTENDS VastWindow, FiniteSetTheorems, TLAPS

\* A quotient, times its divisor, is at most the dividend.
LEMMA Quotient ==
  ASSUME NEW m \in Nat, NEW p \in Nat \ {0}
  PROVE  m \div p \in Nat /\ p * (m \div p) <= m
  OBVIOUS

USE MarketAssumption, LimitsAssumption, NobodyAssumption

\* The grace and the transfers of a call.
LEMMA LateTyped == Late \in Nat /\ Late = Grace + TransferTime
  BY DEF Late

\* The timeout of a call reckoned at t reaches to the deadline or is the grace.
LEMMA AllowedTyped ==
  ASSUME NEW t \in Nat, Deadline(price) \in Nat
  PROVE  /\ Allowed(t) \in Nat
         /\ t <= Deadline(price) => t + Allowed(t) <= Deadline(price) + Grace
  BY DEF Allowed, Most

\* Unfolds the abbreviations for groups of variables.
USE DEF vars, client

\* Where run is, the machines, which come from the market, and the faults.
Machines ==
  /\ pc \in {"idle", "offers", "release", "finally", "done"} \cup Starting \cup Working
  /\ offers \in Seq(Market)
  /\ mine \in Market \cup {Nobody}
  /\ live \subseteq Market
  /\ faults \in Nat

\* Between two machines the client has none; the only one billed is its own; and
\* a window that is through has given it back.
Owned ==
  faults = 0 =>
    /\ pc \in {"idle", "offers"} => mine = Nobody
    /\ live \subseteq {mine}
    /\ pc = "done" => live = {}

Inv == Machines /\ Owned

\* While the client has no machine, none is billed.
LEMMA NothingIsBilled ==
  ASSUME Inv, faults = 0, mine = Nobody
  PROVE  live = {}
  BY DEF Inv, Machines, Owned

\* The initial state.
LEMMA InitInv == Init => Inv
  BY DEF Init, Inv, Machines, Owned, Starting, Working

\* The sorted offers are a sequence of machines of the market.
LEMMA OffersTyped ==
  ASSUME NEW listed \in SUBSET Market, NEW s \in SelectOffers(listed)
  PROVE  s \in Seq(Market)
  <1> DEFINE fit == {o \in listed : o.price <= MaxPrice /\ o.fits}
  <1>1. IsFiniteSet(fit)
    BY FS_Subset
  <1>2. Cardinality(fit) \in Nat
    BY <1>1, FS_CardinalityType
  <1>3. s \in [1 .. Cardinality(fit) -> fit]
    BY DEF SelectOffers
  <1>4. fit \subseteq Market
    OBVIOUS
  <1> HIDE DEF fit
  <1> QED BY <1>2, <1>3, <1>4

\* A machine is given back, or the call that does it is lost.
LEMMA DestroyGivesBack ==
  ASSUME Inv, Destroy
  PROVE  /\ live' \subseteq Market /\ live' \subseteq live
         /\ faults' \in Nat /\ faults' >= faults
         /\ faults' = 0 => live' = {}
  BY DEF Inv, Machines, Owned, Starting, Working, Destroy, Fault

\* Renting, with all that vast.ai may answer.
LEMMA RentingKeeps == Inv /\ Renting => Inv'
  <1> SUFFICES ASSUME Inv, NEW d \in 0 .. CallTime,
                      Rent(d) \/ RentRefused(d) \/ RentUnanswered(d) \/ RentBroken(d)
               PROVE  Inv'
    BY DEF Renting
  <1>1. /\ pc = "offers" /\ offers # <<>> /\ offers' = Tail(offers)
    BY DEF Rent, RentRefused, RentUnanswered, RentBroken, TryOffer, Exhausted
  <1>2. Head(offers) \in Market /\ Tail(offers) \in Seq(Market)
    BY <1>1 DEF Inv, Machines
  <1>3. CASE Rent(d)
    <2>1. faults = 0 => live = {}
      BY <1>1, NothingIsBilled DEF Inv, Owned
    <2> QED BY <1>1, <1>2, <1>3, <2>1 DEF Inv, Machines, Owned, Starting, Working, Rent
  <1>4. CASE RentRefused(d)
    BY <1>1, <1>2, <1>4 DEF Inv, Machines, Owned, Starting, Working, RentRefused
  <1>5. CASE RentUnanswered(d)
    BY <1>1, <1>2, <1>5 DEF Inv, Machines, Owned, Starting, Working, RentUnanswered, Fault
  <1>6. CASE RentBroken(d)
    BY <1>1, <1>2, <1>6 DEF Inv, Machines, Owned, Starting, Working, RentBroken, Fault
  <1> QED BY <1>3, <1>4, <1>5, <1>6

\* Every step keeps it.
LEMMA NextInv == Inv /\ [Next]_vars => Inv'
  <1> SUFFICES ASSUME Inv, [Next]_vars PROVE Inv'
    OBVIOUS
  <1>1. CASE Start
    <2>1. offers' \in Seq(Market)
      BY <1>1, OffersTyped DEF Start, Inv, Machines
    <2>2. faults = 0 => live = {}
      BY <1>1, NothingIsBilled DEF Start, Inv, Owned
    <2> QED BY <1>1, <2>1, <2>2 DEF Start, Inv, Machines, Owned, Starting, Working
  <1>2. CASE GiveUp
    BY <1>2 DEF GiveUp, Inv, Machines, Owned, Starting, Working
  <1>3. CASE SkipOffer
    BY <1>3 DEF SkipOffer, Exhausted, Inv, Machines, Owned, Starting, Working
  <1>4. CASE Renting
    BY <1>4, RentingKeeps
  <1>5. CASE WaitForSsh
    BY <1>5 DEF WaitForSsh, StartupTurn, StartupOver, Polls, Fault, Elapse, Inv, Machines, Owned,
                Starting, Working
  <1>6. CASE WaitRemoteReady
    BY <1>6 DEF WaitRemoteReady, StartupTurn, StartupOver, Polls, Fault, Elapse, Inv, Machines,
                Owned, Starting, Working
  <1>7. CASE Release
    <2>1. Destroy BY <1>7 DEF Release, ReleaseIt
    <2> QED BY <1>7, <2>1, DestroyGivesBack DEF Release, Inv, Machines, Owned, Starting, Working
  <1>8. CASE Begin
    BY <1>8 DEF Begin, Works, Fails, Elapse, Inv, Machines, Owned,
                Starting, Working
  <1>9. CASE Demucs
    BY <1>9 DEF Demucs, Post, Works, Fails, Inv, Machines, Owned, Starting, Working
  <1>10. CASE Whisper
    BY <1>10 DEF Whisper, Post, Works, Fails, Inv, Machines, Owned, Starting, Working
  <1>11. CASE Finally
    <2>1. CASE mine = Nobody
      BY <1>11, <2>1, NothingIsBilled DEF Finally, Inv, Machines, Owned, Starting, Working
    <2>2. CASE mine # Nobody
      <3>1. Destroy BY <1>11, <2>2 DEF Finally
      <3> QED BY <1>11, <3>1, DestroyGivesBack DEF Finally, Inv, Machines, Owned, Starting, Working
    <2> QED BY <2>1, <2>2
  <1>12. CASE Kill
    BY <1>12 DEF Kill, Fault, Inv, Machines, Owned, Starting, Working
  <1>13. CASE UNCHANGED vars
    BY <1>13 DEF Inv, Machines, Owned, Starting, Working
  <1> QED
    BY <1>1, <1>2, <1>3, <1>4, <1>5, <1>6, <1>7, <1>8, <1>9, <1>10, <1>11, <1>12, <1>13 DEF Next

(***************************************************************************)
(* VastClient.run never loses a machine by itself: over any market, however *)
(* many machines do not start and whichever calls fail, the only machine   *)
(* that is billed is the one it will destroy, and at the end none is; a    *)
(* lost call and a kill are the only ways to leave one.                    *)
(***************************************************************************)
THEOREM MachinesAreOwned == Spec => []InstanceOwned
  <1>1. Inv => InstanceOwned
    BY DEF Inv, Owned, InstanceOwned
  <1> QED BY <1>1, InitInv, NextInv, PTL DEF Spec

-----------------------------------------------------------------------------
(* Sums and products *)

\* No machine costs nothing.
LEMMA RateNone == Rate({}) = 0
  <1> DEFINE first(s) == CHOOSE x \in s : TRUE
             body(it) == [s \in SUBSET {} |->
                            IF s = {} THEN 0 ELSE first(s).price + it[s \ {first(s)}]]
             iter == CHOOSE it : it = body(it)
  <1>1. Rate({}) = iter[{}]
    BY DEF Rate, MapThenSumSet, MapThenFoldSet
  <1>2. iter = body(iter)
    <2> DEFINE w == [s \in SUBSET {} |-> 0]
    <2>1. w = body(w)
      OBVIOUS
    <2> HIDE DEF w, body
    <2> QED BY <2>1
  <1> HIDE DEF iter
  <1>3. iter[{}] = 0
    BY <1>2
  <1> QED BY <1>1, <1>3

\* One machine costs its price.
LEMMA RateOne ==
  ASSUME NEW o \in Market
  PROVE  Rate({o}) = o.price
  <1> DEFINE first(s) == CHOOSE x \in s : TRUE
             body(it) == [s \in SUBSET {o} |->
                            IF s = {} THEN 0 ELSE first(s).price + it[s \ {first(s)}]]
             iter == CHOOSE it : it = body(it)
  <1>1. Rate({o}) = iter[{o}]
    BY DEF Rate, MapThenSumSet, MapThenFoldSet
  <1>0. first({o}) = o
    OBVIOUS
  <1>2. iter = body(iter)
    <2> DEFINE v(s) == IF s = {} THEN 0 ELSE o.price
               w == [s \in SUBSET {o} |-> v(s)]
               g(s) == IF s = {} THEN 0 ELSE first(s).price + w[s \ {first(s)}]
    <2>1. ASSUME NEW s \in SUBSET {o} PROVE v(s) = g(s)
      <3>1. CASE s = {}
        BY <3>1
      <3>2. CASE s = {o}
        <4>1. s \ {first(s)} = {} /\ first(s) = o
          BY <3>2, <1>0
        <4> HIDE DEF first
        <4> QED BY <4>1, <3>2
      <3> QED BY <3>1, <3>2
    <2>2. body(w) = [s \in SUBSET {o} |-> g(s)]
      OBVIOUS
    <2> HIDE DEF v, g
    <2>3. w = body(w)
      BY <2>1, <2>2
    <2> HIDE DEF w, body
    <2> QED BY <2>3
  <1> HIDE DEF iter
  <1>3. iter[{o}] = first({o}).price + iter[{o} \ {first({o})}]
    BY <1>2
  <1>4. iter[{}] = 0
    BY <1>2
  <1>5. {o} \ {first({o})} = {}
    BY <1>0
  <1>6. o.price \in Nat
    OBVIOUS
  <1> HIDE DEF first
  <1> QED BY <1>1, <1>0, <1>3, <1>4, <1>5, <1>6

\* What the arithmetic below needs of a product.
LEMMA Product ==
  ASSUME NEW a \in Nat, NEW b \in Nat, NEW c \in Nat
  PROVE  /\ a * b \in Nat
         /\ a * (b + c) = a * b + a * c
         /\ (a + b) * c = a * c + b * c
         /\ a * b = b * a
         /\ a <= b => a * c <= b * c /\ c * a <= c * b
  <1>1. a <= b => a * c <= b * c
    <2> SUFFICES ASSUME a <= b PROVE a * c <= b * c
      OBVIOUS
    <2>1. PICK e \in Nat : b = a + e
      <3>1. b - a \in Nat /\ b = a + (b - a)
        OBVIOUS
      <3> QED BY <3>1
    <2>2. b * c = a * c + e * c
      BY <2>1
    <2>3. a * c \in Nat /\ e * c \in Nat
      OBVIOUS
    <2> QED BY <2>2, <2>3
  <1>2. c * a = a * c /\ c * b = b * c
    OBVIOUS
  <1> QED BY <1>1, <1>2

\* A machine kept until x after its deadline costs no more than the job may,
\* and its price for the time x.
LEMMA WithinBudget ==
  ASSUME NEW p \in Nat \ {0}, p <= MaxPrice,
         NEW t \in Nat, NEW x \in Nat, t <= Deadline(p) + x
  PROVE  p * t <= MaxJobCost + MaxPrice * x
  <1> DEFINE q == MaxJobCost \div p
  <1>1. q \in Nat /\ p * q <= MaxJobCost
    BY Quotient
  <1>2. t <= q + x
    BY <1>1 DEF Deadline, Least
  <1> HIDE DEF q
  <1>3. p * t <= p * (q + x)
    BY <1>1, <1>2, Product
  <1>4. p * (q + x) = p * q + p * x
    BY <1>1, Product
  <1>5. p * x <= MaxPrice * x
    BY Product
  <1>6. p * t \in Nat /\ p * q \in Nat /\ p * x \in Nat /\ MaxPrice * x \in Nat
    BY <1>1, Product
  <1> QED BY <1>1, <1>3, <1>4, <1>5, <1>6

-----------------------------------------------------------------------------
(* What a window costs *)

\* Offers s are sorted by price, none is cheaper than p or dearer than allowed.
Ordered(p, s) ==
  /\ p \in Nat /\ p <= MaxPrice
  /\ \A i \in 1 .. Len(s) : p <= s[i].price /\ s[i].price <= MaxPrice
  /\ \A i, j \in 1 .. Len(s) : i < j => s[i].price <= s[j].price

\* No machine still on offer is cheaper than the last one tried.
Sorted ==
  /\ Ordered(price, offers)
  /\ pc = "idle" => price = 0
  /\ pc \in Starting \cup Working => price > 0

\* The most that may be spent while a machine is starting after k were given
\* back, and when k were rented and the last one is at work.
StartingCap(k) == MaxJobCost + MaxPrice * (PollTime + k * CallTime)
WorkingCap(k)  == MaxJobCost + MaxPrice * (Most(Late, PollTime) + k * CallTime)

\* The time, the machine at work and the price it is charged at.
Reckoned ==
  /\ now \in Nat /\ attempts \in Nat /\ startBy \in Nat /\ remote \in Nat
  /\ faults = 0 =>
       /\ spent \in Nat /\ charged \in Nat
       /\ mine # Nobody => mine.price = price
       /\ pc \in Starting \cup Working \cup {"release"} =>
            mine # Nobody /\ attempts > 0
       /\ pc \in Starting => startBy <= Deadline(price)
       /\ pc \in {"demucs", "whisper"} => now + remote <= Deadline(price) + (CallTime + Grace)

\* All of the window at the price of its last machine covers what it has cost.
Covered ==
  faults = 0 =>
    /\ spent <= price * now
    /\ result = "ok" =>
         /\ pc \in {"finally", "done"}
         /\ pc = "finally" => spent <= charged
         /\ pc = "done" => spent <= charged + price * CallTime

\* What may be spent, stage by stage.
Capped ==
  faults = 0 =>
    /\ pc \in {"idle", "offers"} => spent <= StartingCap(attempts)
    /\ pc \in Starting \cup {"release", "begin"} => spent <= StartingCap(attempts - 1)
    /\ pc \in {"demucs", "whisper", "finally"} => spent <= WorkingCap(attempts)
    /\ pc = "done" => spent <= WorkingCap(attempts) + MaxPrice * CallTime

Money == Sorted /\ Reckoned /\ Covered /\ Capped

\* How the caps compare.
LEMMA Caps ==
  ASSUME NEW k \in Nat
  PROVE  /\ StartingCap(k) \in Nat /\ WorkingCap(k) \in Nat
         /\ MaxPrice * CallTime \in Nat
         /\ StartingCap(k + 1) = StartingCap(k) + MaxPrice * CallTime
         /\ StartingCap(k) <= WorkingCap(k)
         /\ MaxJobCost + MaxPrice * PollTime <= StartingCap(k)
         /\ k > 0 => MaxJobCost + MaxPrice * (CallTime + Late) <= WorkingCap(k)
         /\ WorkingCap(k) + MaxPrice * CallTime
              = MaxJobCost + MaxPrice * (Overrun + (k - 1) * CallTime)
  <1> DEFINE kc == k * CallTime
             m == Most(Late, PollTime)
  <1>1. kc \in Nat /\ (k + 1) * CallTime = kc + CallTime /\ (k - 1) * CallTime = kc - CallTime
    OBVIOUS
  <1>2. k > 0 => CallTime <= kc
    <2> SUFFICES ASSUME k > 0 PROVE CallTime <= kc
      OBVIOUS
    <2>1. 1 * CallTime <= k * CallTime
      BY Product
    <2> QED BY <2>1
  <1>3. m \in Nat /\ PollTime <= m /\ Late <= m /\ Late \in Nat
    BY DEF Most, Late
  <1> HIDE DEF kc, m
  <1>4. StartingCap(k) = MaxJobCost + MaxPrice * (PollTime + kc)
    BY DEF StartingCap, kc
  <1>5. WorkingCap(k) = MaxJobCost + MaxPrice * (m + kc)
    BY DEF WorkingCap, kc, m
  <1>6. StartingCap(k + 1) = MaxJobCost + MaxPrice * (PollTime + kc + CallTime)
    BY <1>1 DEF StartingCap
  <1>7. Overrun + (k - 1) * CallTime = m + kc + CallTime
    BY <1>1, <1>3 DEF Overrun, m
  <1>8. /\ MaxPrice * (PollTime + kc) \in Nat /\ MaxPrice * (m + kc) \in Nat
        /\ MaxPrice * CallTime \in Nat
    BY <1>1, <1>3, Product
  <1>9. MaxPrice * (PollTime + kc + CallTime) = MaxPrice * (PollTime + kc) + MaxPrice * CallTime
    BY <1>1, Product
  <1>10. MaxPrice * (m + kc + CallTime) = MaxPrice * (m + kc) + MaxPrice * CallTime
    BY <1>1, <1>3, Product
  <1>11. MaxPrice * (PollTime + kc) <= MaxPrice * (m + kc)
    BY <1>1, <1>3, Product
  <1>12. MaxPrice * PollTime <= MaxPrice * (PollTime + kc) /\ MaxPrice * PollTime \in Nat
    BY <1>1, Product
  <1>13. k > 0 => MaxPrice * (CallTime + Late) <= MaxPrice * (m + kc)
    BY <1>1, <1>2, <1>3, Product
  <1>14. MaxPrice * (CallTime + Late) \in Nat
    BY <1>3, Product
  <1> QED
    BY <1>4, <1>5, <1>6, <1>7, <1>8, <1>9, <1>10, <1>11, <1>12, <1>13, <1>14

\* What is billed is at most the machine the client knows of, at its price.
LEMMA RateBounded ==
  ASSUME Inv, Money, faults = 0
  PROVE  /\ Rate(live) \in Nat /\ Rate(live) <= price
         /\ mine = Nobody => Rate(live) = 0
  <1>1. live = {} \/ (live = {mine} /\ mine \in Market)
    BY DEF Inv, Machines, Owned
  <1>2. CASE live = {}
    BY <1>2, RateNone DEF Money, Sorted, Ordered
  <1>3. CASE live = {mine} /\ mine \in Market
    <2>1. Rate(live) = mine.price
      BY <1>3, RateOne
    <2>2. mine # Nobody /\ mine.price = price
      BY <1>3 DEF Money, Reckoned
    <2> QED BY <2>1, <2>2 DEF Money, Sorted, Ordered
  <1> QED BY <1>1, <1>2, <1>3

\* A step that takes d costs its machine's price for d, which the reckoning of
\* the window follows; with no machine it costs nothing.
LEMMA ElapseCosts ==
  ASSUME Inv, Money, faults = 0, NEW d \in Nat, Elapse(d)
  PROVE  /\ now' = now + d /\ now' \in Nat
         /\ spent' \in Nat /\ spent <= spent' /\ spent' <= spent + price * d
         /\ spent' <= price * now'
         /\ mine = Nobody => spent' = spent
         /\ price * d \in Nat /\ price * now \in Nat
  <1> DEFINE r == Rate(live)
  <1>1. r \in Nat /\ r <= price /\ (mine = Nobody => r = 0)
    BY RateBounded
  <1>2. now' = now + d /\ spent' = spent + d * r
    BY DEF Elapse
  <1>3. price \in Nat /\ now \in Nat /\ spent \in Nat /\ spent <= price * now
    BY DEF Money, Sorted, Ordered, Reckoned, Covered
  <1> HIDE DEF r
  <1>4. d * r \in Nat /\ price * d \in Nat /\ price * now \in Nat
    BY <1>1, <1>3, Product
  <1>5. d * r <= price * d
    BY <1>1, <1>3, Product
  <1>6. price * (now + d) = price * now + price * d
    BY <1>3, Product
  <1>7. r = 0 => d * r = 0
    OBVIOUS
  <1> QED BY <1>1, <1>2, <1>3, <1>4, <1>5, <1>6, <1>7

\* A machine kept until x after its deadline has cost no more than the job may
\* and the dearest price for x.
LEMMA SpentByDeadline ==
  ASSUME Inv, Money, faults = 0, NEW d \in Nat, Elapse(d), mine # Nobody,
         NEW x \in Nat, now' <= Deadline(price) + x
  PROVE  spent' <= MaxJobCost + MaxPrice * x
  <1>1. price \in Nat \ {0} /\ price <= MaxPrice
    BY DEF Inv, Machines, Money, Sorted, Ordered, Reckoned
  <1>2. now' \in Nat /\ spent' \in Nat /\ spent' <= price * now'
    BY ElapseCosts
  <1>3. price * now' <= MaxJobCost + MaxPrice * x
    BY <1>1, <1>2, WithinBudget
  <1>4. price * now' \in Nat /\ MaxPrice * x \in Nat
    BY <1>1, <1>2, Product
  <1> QED BY <1>2, <1>3, <1>4

\* The next offer, and what is left after it.
LEMMA NextOffer ==
  ASSUME NEW s \in Seq(Market), s # <<>>, NEW p, Ordered(p, s)
  PROVE  /\ Ordered(p, Tail(s)) /\ Ordered(Head(s).price, Tail(s))
         /\ p <= Head(s).price /\ Head(s).price \in Nat \ {0}
         /\ Head(s) \in Market
  <1>1. Len(s) \in Nat \ {0} /\ Head(s) = s[1] /\ Head(s) \in Market
    OBVIOUS
  <1>2. Len(Tail(s)) = Len(s) - 1
    OBVIOUS
  <1>3. \A i \in 1 .. Len(s) - 1 : Tail(s)[i] = s[i + 1]
    OBVIOUS
  <1>4. p <= s[1].price /\ s[1].price <= MaxPrice
    BY <1>1 DEF Ordered
  <1>5. \A i \in 1 .. Len(s) - 1 : /\ p <= Tail(s)[i].price
                                   /\ Tail(s)[i].price <= MaxPrice
                                   /\ s[1].price <= Tail(s)[i].price
    <2> SUFFICES ASSUME NEW i \in 1 .. Len(s) - 1
                 PROVE  /\ p <= s[i + 1].price /\ s[i + 1].price <= MaxPrice
                        /\ s[1].price <= s[i + 1].price
      BY <1>3
    <2>1. i + 1 \in 1 .. Len(s) /\ 1 \in 1 .. Len(s) /\ 1 < i + 1
      BY <1>1
    <2> QED BY <2>1 DEF Ordered
  <1>6. \A i, j \in 1 .. Len(s) - 1 : i < j => Tail(s)[i].price <= Tail(s)[j].price
    <2> SUFFICES ASSUME NEW i \in 1 .. Len(s) - 1, NEW j \in 1 .. Len(s) - 1, i < j
                 PROVE  s[i + 1].price <= s[j + 1].price
      BY <1>3
    <2>1. i + 1 \in 1 .. Len(s) /\ j + 1 \in 1 .. Len(s) /\ i + 1 < j + 1
      BY <1>1
    <2> QED BY <2>1 DEF Ordered
  <1>7. s[1].price \in Nat \ {0}
    BY <1>1
  <1> QED BY <1>1, <1>2, <1>4, <1>5, <1>6, <1>7 DEF Ordered

\* The offers run starts with are sorted.
LEMMA SelectedAreOrdered ==
  ASSUME NEW listed \in SUBSET Market, NEW s \in SelectOffers(listed)
  PROVE  Ordered(0, s)
  <1> DEFINE fit == {o \in listed : o.price <= MaxPrice /\ o.fits}
             n == Cardinality(fit)
  <1>1. n \in Nat
    BY FS_Subset, FS_CardinalityType
  <1>2. /\ s \in [1 .. n -> fit]
        /\ \A i, j \in 1 .. n : i < j => ~Cheaper(s[j], s[i])
    BY DEF SelectOffers
  <1>3. \A o \in fit : o.price \in Nat /\ o.price <= MaxPrice
    OBVIOUS
  <1> HIDE DEF fit, n
  <1>4. Len(s) = n
    BY <1>1, <1>2
  <1>5. \A i \in 1 .. n : s[i].price \in Nat /\ s[i].price <= MaxPrice
    BY <1>2, <1>3
  <1>6. \A i, j \in 1 .. n : i < j => s[i].price <= s[j].price
    <2> SUFFICES ASSUME NEW i \in 1 .. n, NEW j \in 1 .. n, i < j
                 PROVE  s[i].price <= s[j].price
      OBVIOUS
    <2>1. ~Cheaper(s[j], s[i])
      BY <1>2
    <2> QED BY <1>5, <2>1 DEF Cheaper
  <1> QED BY <1>4, <1>5, <1>6 DEF Ordered

\* The initial state has cost nothing.
LEMMA InitMoney == Init => Money
  <1> SUFFICES ASSUME Init PROVE Money
    OBVIOUS
  <1>1. Sorted
    BY DEF Init, Sorted, Ordered, Starting, Working
  <1>2. Reckoned
    BY DEF Init, Reckoned, Starting, Working
  <1>3. Covered
    BY DEF Init, Covered
  <1>4. Capped
    BY Caps DEF Init, Capped, Starting
  <1> QED BY <1>1, <1>2, <1>3, <1>4 DEF Money

\* Renting, whatever vast.ai answers: nothing is billed during the call.
LEMMA RentingMoney == Inv /\ Money /\ Renting => Money'
  <1> SUFFICES ASSUME Inv, Money, NEW d \in 0 .. CallTime,
                      Rent(d) \/ RentRefused(d) \/ RentUnanswered(d) \/ RentBroken(d)
               PROVE  Money'
    BY DEF Renting
  <1>1. TryOffer(d)
    BY DEF Rent, RentRefused, RentUnanswered, RentBroken
  <1>2. /\ pc = "offers" /\ offers # <<>> /\ offers' = Tail(offers)
        /\ price' = Head(offers).price /\ Elapse(d) /\ charged' = charged
        /\ remote' = remote /\ remote \in Nat
    BY <1>1 DEF TryOffer, Exhausted, Money, Reckoned
  <1>3. /\ Ordered(price', offers') /\ price <= price' /\ price' \in Nat \ {0}
        /\ price \in Nat /\ Head(offers) \in Market
    BY <1>2, NextOffer DEF Inv, Machines, Money, Sorted, Ordered
  <1>4. d \in Nat /\ now \in Nat /\ attempts \in Nat /\ now' = now + d
    BY <1>2 DEF Money, Reckoned, Elapse
  <1>5. Deadline(price') \in Nat
    BY <1>3, Quotient DEF Deadline, Least
  <1>6. CASE faults' # 0
    <2>1. Sorted'
      BY <1>2, <1>3 DEF Sorted, Rent, RentRefused, RentUnanswered, RentBroken, Starting, Working
    <2>2. now' \in Nat /\ attempts' \in Nat /\ startBy' \in Nat
      BY <1>4, <1>5 DEF Rent, RentRefused, RentUnanswered, RentBroken, Money, Reckoned, Least
    <2> QED BY <1>2, <1>6, <2>1, <2>2 DEF Money, Reckoned, Covered, Capped
  <1>7. CASE faults' = 0
    <2>1. faults = 0 /\ (Rent(d) \/ RentRefused(d))
      BY <1>7 DEF Inv, Machines, Rent, RentRefused, RentUnanswered, RentBroken, Fault
    <2>2. mine = Nobody
      BY <1>2, <2>1 DEF Inv, Owned
    <2>3. spent' = spent /\ spent \in Nat /\ spent <= price * now /\ now' \in Nat
      BY <1>2, <1>4, <2>1, <2>2, ElapseCosts DEF Money, Reckoned, Covered
    <2>4. price * now <= price' * now'
      <3>0. price' \in Nat /\ now' \in Nat /\ now <= now'
        BY <1>3, <1>4
      <3>1. price * now <= price' * now
        BY <1>3, <1>4, <3>0, Product
      <3>3. price' * now <= price' * now'
        BY <1>4, <3>0, Product
      <3>2. price * now \in Nat /\ price' * now \in Nat /\ price' * now' \in Nat
        BY <1>3, <1>4, <2>3, Product
      <3> QED BY <3>1, <3>2, <3>3
    <2>5. spent <= price' * now'
      <3>1. price * now \in Nat /\ price' * now' \in Nat
        BY <1>3, <1>4, <2>3, Product
      <3> QED BY <2>3, <2>4, <3>1
    <2>6. result # "ok" /\ charged \in Nat /\ spent <= StartingCap(attempts)
      BY <1>2, <2>1 DEF Money, Reckoned, Covered, Capped
    <2>7. CASE Rent(d)
      <3>1. /\ pc' = "ssh" /\ result' = result /\ mine' = Head(offers)
            /\ attempts' = attempts + 1
            /\ startBy' = Least(Deadline(price'), now' + ReadyTimeout)
        BY <2>7 DEF Rent
      <3>2. Sorted'
        BY <1>3, <3>1 DEF Sorted, Starting, Working
      <3>3. Reckoned'
        BY <1>2, <1>3, <1>4, <1>5, <2>3, <2>6, <3>1 DEF Reckoned, Starting, Working, Least
      <3>4. Covered'
        BY <2>3, <2>5, <2>6, <3>1 DEF Covered
      <3>5. Capped'
        <4>1. attempts' - 1 = attempts
          BY <1>4, <3>1
        <4>2. spent' <= StartingCap(attempts' - 1)
          BY <2>3, <2>6, <4>1
        <4> QED BY <3>1, <4>2 DEF Capped, Starting
      <3> QED BY <3>2, <3>3, <3>4, <3>5 DEF Money
    <2>8. CASE RentRefused(d)
      <3>1. /\ pc' = "offers" /\ result' = result /\ mine' = Nobody /\ startBy' = startBy
            /\ attempts' = attempts \/ attempts' = attempts + 1
        BY <1>2, <2>2, <2>8 DEF RentRefused
      <3>2. Sorted'
        BY <1>3, <3>1 DEF Sorted, Starting, Working
      <3>3. Reckoned'
        BY <1>2, <1>4, <2>3, <2>6, <3>1 DEF Reckoned, Starting, Working, Money
      <3>4. Covered'
        BY <2>3, <2>5, <2>6, <3>1 DEF Covered
      <3>5. Capped'
        <4>2. /\ StartingCap(attempts) \in Nat /\ MaxPrice * CallTime \in Nat
              /\ StartingCap(attempts + 1) = StartingCap(attempts) + MaxPrice * CallTime
          BY <1>4, Caps
        <4>1. spent' <= StartingCap(attempts')
          BY <2>3, <2>6, <3>1, <4>2
        <4> QED BY <3>1, <4>1 DEF Capped, Starting
      <3> QED BY <3>2, <3>3, <3>4, <3>5 DEF Money
    <2> QED BY <2>1, <2>7, <2>8
  <1>8. faults' = 0 \/ faults' # 0
    OBVIOUS
  <1> QED BY <1>6, <1>7, <1>8

\* A turn of a startup poll, and giving up on the machine that does not start.
LEMMA StartupMoney ==
  ASSUME Inv, Money, NEW from \in Starting, NEW to \in {"ready", "begin"}, pc = from,
         StartupTurn(from, to) \/ StartupOver(from)
  PROVE  Money'
  <1>1. /\ UNCHANGED <<client, offers, mine, price, startBy, remote, charged, live>>
        /\ pc' \in {from, to, "release", "finally"}
        /\ faults' = 0 => faults = 0 /\ pc' # "finally" /\ result' = result
    <2>1. faults \in Nat
      BY DEF Inv, Machines
    <2>2. CASE StartupOver(from)
      BY <2>2 DEF StartupOver, Polls
    <2>3. CASE StartupTurn(from, to)
      BY <2>1, <2>3 DEF StartupTurn, Polls, Fault, Starting
    <2> QED BY <2>2, <2>3
  <1>2. Sorted'
    BY <1>1 DEF Money, Sorted, Starting, Working
  <1>3. /\ now \in Nat /\ attempts \in Nat /\ startBy \in Nat
        /\ now' \in Nat /\ remote \in Nat
    BY DEF StartupTurn, StartupOver, Elapse, Money, Reckoned
  <1>4. CASE faults' # 0
    BY <1>1, <1>2, <1>3, <1>4 DEF Money, Reckoned, Covered, Capped
  <1>5. CASE faults' = 0
    <2>1. faults = 0 /\ pc' \in Starting \cup {"release", "begin"} /\ result' = result
      BY <1>1, <1>5 DEF Starting
    <2>2. /\ mine # Nobody /\ attempts > 0 /\ mine.price = price /\ charged \in Nat
          /\ startBy <= Deadline(price) /\ result # "ok"
          /\ spent \in Nat /\ spent <= price * now /\ spent <= StartingCap(attempts - 1)
      BY <2>1 DEF Money, Reckoned, Covered, Capped, Starting
    <2>3. /\ spent' \in Nat /\ spent' <= price * now'
          /\ spent' <= StartingCap(attempts - 1)
      <3>1. CASE StartupOver(from)
        BY <2>2, <3>1 DEF StartupOver
      <3>2. CASE StartupTurn(from, to)
        <4>1. PICK d \in 1 .. PollTime : Elapse(d)
          BY <3>2 DEF StartupTurn
        <4>2. now <= startBy /\ Deadline(price) \in Nat
          BY <2>2, <3>2, Quotient DEF StartupTurn, InTime, Deadline, Least, Inv, Machines
        <4>3. now' <= Deadline(price) + PollTime
          BY <1>3, <2>2, <4>1, <4>2 DEF Elapse
        <4>4. spent' <= MaxJobCost + MaxPrice * PollTime
          BY <2>1, <2>2, <4>1, <4>3, SpentByDeadline
        <4>5. spent' \in Nat /\ spent' <= price * now'
          BY <2>1, <4>1, ElapseCosts
        <4>6. /\ MaxJobCost + MaxPrice * PollTime <= StartingCap(attempts - 1)
              /\ StartingCap(attempts - 1) \in Nat
          <5>1. attempts - 1 \in Nat
            BY <1>3, <2>2
          <5> QED BY <5>1, Caps
        <4>7. MaxPrice * PollTime \in Nat
          BY Product
        <4> QED BY <4>4, <4>5, <4>6, <4>7
      <3> QED BY <3>1, <3>2
    <2>4. Reckoned'
      BY <1>1, <1>3, <2>1, <2>2, <2>3 DEF Reckoned, Starting, Working
    <2>5. Covered'
      BY <1>1, <2>1, <2>2, <2>3 DEF Covered
    <2>6. Capped'
      BY <1>1, <2>1, <2>3 DEF Capped, Starting
    <2> QED BY <1>2, <2>4, <2>5, <2>6 DEF Money
  <1> QED BY <1>4, <1>5

\* Giving back a machine that did not start.
LEMMA ReleaseMoney == Inv /\ Money /\ Release => Money'
  <1> SUFFICES ASSUME Inv, Money, Release PROVE Money'
    OBVIOUS
  <1>1. PICK d \in 0 .. CallTime : Elapse(d)
    BY DEF Release
  <1>2. /\ pc = "release" /\ pc' = "offers" /\ mine' = Nobody
        /\ UNCHANGED <<prior, offers, price, attempts, startBy, remote, result, charged>>
        /\ faults' # 0 \/ faults = 0
    BY DEF Inv, Machines, Release, ReleaseIt, Destroy, Fault
  <1>3. Sorted'
    BY <1>2 DEF Money, Sorted, Starting, Working
  <1>4. attempts \in Nat /\ startBy \in Nat /\ now' \in Nat /\ remote \in Nat
    BY <1>1 DEF Elapse, Money, Reckoned
  <1>5. CASE faults' # 0
    BY <1>2, <1>3, <1>4, <1>5 DEF Money, Reckoned, Covered, Capped
  <1>6. CASE faults' = 0
    <2>1. faults = 0
      BY <1>2, <1>6
    <2>2. /\ attempts > 0 /\ result # "ok" /\ charged \in Nat /\ spent \in Nat
          /\ spent <= StartingCap(attempts - 1) /\ price \in Nat
      BY <1>2, <2>1 DEF Money, Sorted, Ordered, Reckoned, Covered, Capped
    <2>3. /\ spent' \in Nat /\ spent' <= price * now' /\ spent' <= spent + price * d
          /\ price * d \in Nat
      BY <1>1, <2>1, ElapseCosts
    <2>4. price * d <= MaxPrice * CallTime
      <3>1. price <= MaxPrice /\ d \in Nat /\ d <= CallTime
        BY DEF Money, Sorted, Ordered
      <3>2. price * d <= MaxPrice * d
        BY <2>2, <3>1, Product
      <3>3. MaxPrice * d <= MaxPrice * CallTime
        BY <3>1, Product
      <3>4. MaxPrice * d \in Nat /\ MaxPrice * CallTime \in Nat
        BY <3>1, Product
      <3> QED BY <2>3, <3>2, <3>3, <3>4
    <2>5. /\ StartingCap(attempts) = StartingCap(attempts - 1) + MaxPrice * CallTime
          /\ StartingCap(attempts - 1) \in Nat /\ MaxPrice * CallTime \in Nat
      <3>1. attempts - 1 \in Nat /\ (attempts - 1) + 1 = attempts
        BY <1>4, <2>2
      <3> QED BY <3>1, Caps
    <2>6. spent' <= StartingCap(attempts)
      BY <2>2, <2>3, <2>4, <2>5
    <2>7. Reckoned'
      BY <1>2, <1>4, <2>2, <2>3 DEF Reckoned, Starting, Working
    <2>8. Covered'
      BY <1>2, <2>2, <2>3 DEF Covered
    <2>9. Capped'
      BY <1>2, <2>6 DEF Capped, Starting
    <2> QED BY <1>3, <2>7, <2>8, <2>9 DEF Money
  <1> QED BY <1>5, <1>6

\* The tunnel comes up, or does not.
LEMMA BeginMoney == Inv /\ Money /\ Begin => Money'
  <1> SUFFICES ASSUME Inv, Money, Begin PROVE Money'
    OBVIOUS
  <1>1. /\ pc = "begin" /\ charged' = charged
        /\ UNCHANGED <<client, offers, mine, price, startBy, live, faults>>
        /\ pc' \in {"demucs", "finally"}
        /\ pc' = "demucs" => result' = result
        /\ result' = result \/ result' = "error"
    BY DEF Begin, Works, Fails
  <1>2. Sorted'
    BY <1>1 DEF Money, Sorted, Starting, Working
  <1>3. now \in Nat /\ now' \in Nat /\ attempts \in Nat /\ startBy \in Nat /\ remote' \in Nat
    <2>1. now \in Nat /\ remote \in Nat /\ Deadline(price) \in Nat
      <3>1. price \in Nat \ {0}
        BY <1>1 DEF Money, Sorted, Ordered, Working
      <3> QED BY <3>1, Quotient DEF Deadline, Least, Money, Reckoned
    <2> QED BY <2>1, AllowedTyped DEF Begin, Elapse, Money, Reckoned
  <1>4. CASE faults # 0
    BY <1>1, <1>2, <1>3, <1>4 DEF Money, Reckoned, Covered, Capped
  <1>5. CASE faults = 0
    <2>1. /\ mine # Nobody /\ attempts > 0 /\ mine.price = price /\ charged \in Nat
          /\ result # "ok" /\ spent \in Nat /\ spent <= price * now
          /\ spent <= StartingCap(attempts - 1)
      BY <1>1, <1>5 DEF Money, Reckoned, Covered, Capped, Working
    <2>2. /\ MaxJobCost + MaxPrice * (CallTime + Late) <= WorkingCap(attempts)
          /\ StartingCap(attempts - 1) <= WorkingCap(attempts)
          /\ WorkingCap(attempts) \in Nat
      <3>1. /\ StartingCap(attempts) = StartingCap(attempts - 1) + MaxPrice * CallTime
            /\ StartingCap(attempts - 1) \in Nat /\ MaxPrice * CallTime \in Nat
        <4>1. attempts - 1 \in Nat /\ (attempts - 1) + 1 = attempts
          BY <1>3, <2>1
        <4> QED BY <4>1, Caps
      <3>2. /\ MaxJobCost + MaxPrice * (CallTime + Late) <= WorkingCap(attempts)
            /\ StartingCap(attempts) <= WorkingCap(attempts)
            /\ WorkingCap(attempts) \in Nat
        BY <1>3, <2>1, Caps
      <3> QED BY <3>1, <3>2
    <2>3. /\ spent' \in Nat /\ spent' <= price * now' /\ spent' <= WorkingCap(attempts)
          /\ pc' = "demucs" => now' + remote' <= Deadline(price) + (CallTime + Grace)
      <3>1. CASE OverBudget(now)
        <4>1. now' = now /\ spent' = spent /\ pc' # "demucs"
          BY <3>1 DEF Begin, Fails
        <4>2. StartingCap(attempts - 1) \in Nat
          BY <1>3, <2>1, Caps
        <4> QED BY <2>1, <2>2, <4>1, <4>2
      <3>2. CASE ~OverBudget(now)
        <4>1. PICK d \in 0 .. CallTime : Elapse(d)
          BY <3>2 DEF Begin
        <4>2. spent' \in Nat /\ spent' <= price * now' /\ now' = now + d
          BY <1>5, <4>1, ElapseCosts
        <4>7. remote' = Allowed(now)
          BY <3>2 DEF Begin
        <4>3. Deadline(price) \in Nat
          BY <2>1, Quotient DEF Deadline, Least, Inv, Machines
        <4>4. /\ now' <= Deadline(price) + CallTime
              /\ now' + remote' <= Deadline(price) + (CallTime + Grace)
          BY <1>3, <3>2, <4>2, <4>3, <4>7, AllowedTyped DEF OverBudget
        <4>5. spent' <= MaxJobCost + MaxPrice * (CallTime + Late)
          <5>1. now' <= Deadline(price) + (CallTime + Late)
            BY <1>3, <4>3, <4>4, LateTyped
          <5> QED BY <1>5, <2>1, <4>1, <5>1, LateTyped, SpentByDeadline
        <4>6. MaxPrice * (CallTime + Late) \in Nat
          BY LateTyped, Product
        <4> QED BY <2>2, <4>2, <4>4, <4>5, <4>6
      <3> QED BY <3>1, <3>2
    <2>4. Reckoned'
      BY <1>1, <1>3, <2>1, <2>3 DEF Reckoned, Starting, Working
    <2>5. Covered'
      BY <1>1, <2>1, <2>3 DEF Covered
    <2>6. Capped'
      BY <1>1, <2>3 DEF Capped, Starting
    <2> QED BY <1>2, <2>4, <2>5, <2>6 DEF Money
  <1> QED BY <1>4, <1>5

\* The call in flight ends within the budget, or within its grace.
LEMMA CallInFlight ==
  ASSUME Inv, Money, faults = 0, pc \in {"demucs", "whisper"}, Works,
         NEW d \in 0 .. (remote + TransferTime), Elapse(d)
  PROVE  /\ spent' \in Nat /\ spent' <= price * now' /\ spent' <= WorkingCap(attempts)
         /\ price * now' \in Nat
         /\ mine # Nobody /\ mine.price = price /\ attempts > 0 /\ charged \in Nat
         /\ result # "ok"
  <1>1. /\ mine # Nobody /\ attempts > 0 /\ mine.price = price /\ charged \in Nat
        /\ result # "ok" /\ price \in Nat
    BY DEF Money, Sorted, Ordered, Reckoned, Covered, Working
  <1>2. now \in Nat /\ attempts \in Nat /\ remote \in Nat
    BY DEF Money, Reckoned
  <1>3. Deadline(price) \in Nat
    BY <1>1, Quotient DEF Deadline, Least, Inv, Machines
  <1>4. now + remote <= Deadline(price) + (CallTime + Grace)
    BY DEF Money, Reckoned
  <1>5. /\ d \in Nat /\ now + d <= Deadline(price) + (CallTime + Late)
    BY <1>2, <1>3, <1>4, LateTyped
  <1>6. spent' \in Nat /\ spent' <= price * now' /\ now' = now + d
    BY <1>5, ElapseCosts
  <1>7. spent' <= MaxJobCost + MaxPrice * (CallTime + Late)
    BY <1>1, <1>5, <1>6, LateTyped, SpentByDeadline
  <1>8. /\ MaxJobCost + MaxPrice * (CallTime + Late) <= WorkingCap(attempts)
        /\ WorkingCap(attempts) \in Nat /\ MaxPrice * (CallTime + Late) \in Nat
    BY <1>1, <1>2, LateTyped, Caps, Product, SMTT(40)
  <1>9. price * now' \in Nat
    BY <1>1, <1>2, <1>5, <1>6, Product
  <1> QED BY <1>1, <1>6, <1>7, <1>8, <1>9

\* Demucs and Whisper: the two calls that do the work.
LEMMA WorkMoney == Inv /\ Money /\ (Demucs \/ Whisper) => Money'
  <1> SUFFICES ASSUME Inv, Money, Demucs \/ Whisper PROVE Money'
    OBVIOUS
  <1>1. PICK d \in 0 .. (remote + TransferTime) : Elapse(d)
    BY DEF Demucs, Whisper, Post
  <1>2. /\ pc \in {"demucs", "whisper"} /\ Works
        /\ UNCHANGED <<client, offers, mine, price, startBy, live, faults>>
    BY DEF Demucs, Whisper, Works
  <1>3. \/ Fails /\ charged' = charged
        \/ /\ pc' = "whisper" /\ ~OverBudget(now') /\ remote' = Allowed(now')
           /\ result' = result /\ charged' = charged
        \/ /\ pc' = "finally" /\ result' = "ok" /\ charged' = price * now'
    BY DEF Demucs, Whisper, Post
  <1>4. Sorted'
    BY <1>2, <1>3 DEF Money, Sorted, Fails, Starting, Working
  <1>5. now' \in Nat /\ attempts \in Nat /\ startBy \in Nat /\ remote' \in Nat
    <2>1. now \in Nat /\ remote \in Nat /\ price \in Nat \ {0}
      BY <1>2 DEF Money, Sorted, Ordered, Reckoned, Working
    <2>2. Deadline(price) \in Nat
      BY <2>1, Quotient DEF Deadline, Least
    <2>3. d \in Nat /\ now' \in Nat
      BY <1>1, <2>1 DEF Elapse
    <2>4. remote' = remote \/ remote' = Allowed(now')
      BY DEF Demucs, Whisper, Post
    <2> QED BY <1>1, <1>2, <2>1, <2>2, <2>3, <2>4, AllowedTyped DEF Money, Reckoned
  <1>6. CASE faults # 0
    BY <1>2, <1>4, <1>5, <1>6 DEF Money, Reckoned, Covered, Capped
  <1>7. CASE faults = 0
    <2>1. /\ spent' \in Nat /\ spent' <= price * now' /\ spent' <= WorkingCap(attempts)
          /\ price * now' \in Nat
          /\ mine # Nobody /\ mine.price = price /\ attempts > 0 /\ charged \in Nat
          /\ result # "ok"
      BY <1>1, <1>2, <1>7, CallInFlight
    <2>2. Deadline(price) \in Nat
      BY <2>1, Quotient DEF Deadline, Least, Inv, Machines
    <2>6. pc' = "whisper" => now' + remote' <= Deadline(price) + (CallTime + Grace)
      <3> SUFFICES ASSUME pc' = "whisper" PROVE now' + remote' <= Deadline(price) + Grace
        BY <1>5, <2>2
      <3>1. now' <= Deadline(price) /\ remote' = Allowed(now')
        BY <1>3, <1>5, <2>2 DEF Fails, OverBudget
      <3> QED BY <1>5, <2>2, <3>1, AllowedTyped
    <2>3. Reckoned'
      BY <1>2, <1>3, <1>5, <2>1, <2>2, <2>6 DEF Reckoned, Starting, Working, Fails
    <2>4. Covered'
      BY <1>2, <1>3, <2>1 DEF Covered, Fails
    <2>5. Capped'
      BY <1>2, <1>3, <2>1 DEF Capped, Starting, Fails
    <2> QED BY <1>4, <2>3, <2>4, <2>5 DEF Money
  <1> QED BY <1>6, <1>7

\* run's finally clause gives the machine back, and the window is through.
LEMMA FinallyMoney == Inv /\ Money /\ Finally => Money'
  <1> SUFFICES ASSUME Inv, Money, Finally PROVE Money'
    OBVIOUS
  <1>1. PICK d \in 0 .. CallTime : Elapse(d)
    BY DEF Finally
  <1>2. /\ pc = "finally" /\ pc' = "done"
        /\ UNCHANGED <<client, offers, mine, price, startBy, remote, result,
                      charged>>
        /\ faults' # 0 \/ faults = 0
    BY DEF Finally, Destroy, Fault, Inv, Machines
  <1>3. Sorted'
    BY <1>2 DEF Money, Sorted, Starting, Working
  <1>4. attempts \in Nat /\ startBy \in Nat /\ now' \in Nat /\ remote \in Nat
    BY <1>1 DEF Elapse, Money, Reckoned
  <1>5. CASE faults' # 0
    BY <1>2, <1>3, <1>4, <1>5 DEF Money, Reckoned, Covered, Capped
  <1>6. CASE faults' = 0
    <2>1. faults = 0
      BY <1>2, <1>6
    <2>2. /\ mine # Nobody => mine.price = price
          /\ charged \in Nat /\ spent \in Nat /\ price \in Nat
          /\ spent <= WorkingCap(attempts) /\ (result = "ok" => spent <= charged)
      BY <1>2, <2>1 DEF Money, Sorted, Ordered, Reckoned, Covered, Capped
    <2>3. /\ spent' \in Nat /\ spent' <= price * now' /\ spent' <= spent + price * d
          /\ price * d \in Nat
      BY <1>1, <2>1, ElapseCosts
    <2>4. /\ price * d <= price * CallTime /\ price * CallTime <= MaxPrice * CallTime
          /\ price * CallTime \in Nat /\ MaxPrice * CallTime \in Nat
      <3>1. price <= MaxPrice /\ d \in Nat /\ d <= CallTime
        BY DEF Money, Sorted, Ordered
      <3>2. price * d <= price * CallTime
        BY <2>2, <3>1, Product
      <3>3. price * CallTime <= MaxPrice * CallTime
        BY <2>2, <3>1, Product
      <3>4. price * CallTime \in Nat /\ MaxPrice * CallTime \in Nat
        BY <2>2, Product
      <3> QED BY <3>2, <3>3, <3>4
    <2>5. WorkingCap(attempts) \in Nat
      BY <1>4, Caps
    <2>6. Reckoned'
      BY <1>2, <1>4, <2>2, <2>3 DEF Reckoned, Starting, Working
    <2>7. Covered'
      BY <1>2, <2>2, <2>3, <2>4 DEF Covered
    <2>8. Capped'
      BY <1>2, <2>2, <2>3, <2>4, <2>5 DEF Capped, Starting
    <2> QED BY <1>3, <2>6, <2>7, <2>8 DEF Money
  <1> QED BY <1>5, <1>6

\* Every step keeps it.
LEMMA NextMoney == Inv /\ Money /\ [Next]_vars => Money'
  <1> SUFFICES ASSUME Inv, Money, [Next]_vars PROVE Money'
    OBVIOUS
  <1>0. attempts \in Nat /\ (faults = 0 => spent \in Nat)
    BY DEF Money, Reckoned
  <1>a. /\ StartingCap(attempts) \in Nat /\ WorkingCap(attempts) \in Nat
        /\ StartingCap(attempts) <= WorkingCap(attempts) /\ MaxPrice * CallTime \in Nat
    BY <1>0, Caps
  <1>1. CASE Start
    <2>1. Sorted'
      <3>1. price = 0 /\ price' = 0 /\ pc' \in {"done", "offers"}
        BY <1>1 DEF Start, Money, Sorted
      <3>2. Ordered(0, offers')
        BY <1>1, <3>1, SelectedAreOrdered DEF Start, Money, Sorted
      <3> QED BY <3>1, <3>2 DEF Sorted, Starting, Working
    <2>2. Reckoned'
      BY <1>1 DEF Start, Money, Reckoned, Starting, Working
    <2>3. Covered'
      BY <1>1 DEF Start, Money, Covered
    <2>4. Capped'
      BY <1>0, <1>a, <1>1 DEF Start, Money, Capped, Starting
    <2> QED BY <2>1, <2>2, <2>3, <2>4 DEF Money
  <1>2. CASE GiveUp
    <2>1. Sorted' /\ Reckoned' /\ Covered'
      BY <1>2 DEF GiveUp, Money, Sorted, Reckoned, Covered, Starting, Working
    <2>2. Capped'
      BY <1>0, <1>a, <1>2 DEF GiveUp, Money, Capped, Starting
    <2> QED BY <2>1, <2>2 DEF Money
  <1>3. CASE SkipOffer
    <2>1. Ordered(price, Tail(offers))
      BY <1>3, NextOffer DEF SkipOffer, Exhausted, Inv, Machines, Money, Sorted
    <2>2. Sorted' /\ Reckoned' /\ Covered' /\ Capped'
      BY <1>3, <2>1 DEF SkipOffer, Money, Sorted, Reckoned, Covered, Capped, Starting, Working
    <2> QED BY <2>2 DEF Money
  <1>4. CASE Renting
    BY <1>4, RentingMoney
  <1>5. CASE WaitForSsh
    BY <1>5, StartupMoney DEF WaitForSsh, Starting
  <1>6. CASE WaitRemoteReady
    BY <1>6, StartupMoney DEF WaitRemoteReady, Starting
  <1>7. CASE Release
    BY <1>7, ReleaseMoney
  <1>8. CASE Begin
    BY <1>8, BeginMoney
  <1>9. CASE Demucs \/ Whisper
    BY <1>9, WorkMoney
  <1>10. CASE Finally
    BY <1>10, FinallyMoney
  <1>11. CASE Kill
    <2>1. faults' # 0
      BY <1>11 DEF Kill, Fault, Inv, Machines
    <2> QED
      BY <1>11, <2>1 DEF Kill, Money, Sorted, Reckoned, Covered, Capped, Starting, Working
  <1>12. CASE UNCHANGED vars
    BY <1>12 DEF Money, Sorted, Reckoned, Covered, Capped
  <1> QED
    BY <1>1, <1>2, <1>3, <1>4, <1>5, <1>6, <1>7, <1>8, <1>9, <1>10, <1>11, <1>12 DEF Next

\* Both invariants hold throughout.
LEMMA MoneyHolds == Spec => [](Inv /\ Money)
  <1>1. Init => Inv /\ Money
    BY InitInv, InitMoney
  <1>2. Inv /\ Money /\ [Next]_vars => (Inv /\ Money)'
    BY NextInv, NextMoney
  <1> QED BY <1>1, <1>2, PTL DEF Spec

(***************************************************************************)
(* The result of VastClient.run charges the whole window at the price of    *)
(* its last machine, and that covers what all of its machines cost, those   *)
(* that did not start included, except for the final destroy call: over any *)
(* market, because the offers are tried cheapest first and the client never *)
(* has two machines.                                                       *)
(***************************************************************************)
THEOREM ChargeCovers == Spec => []CostCovers
  <1>1. Inv /\ Money => CostCovers
    <2> SUFFICES ASSUME Inv, Money, faults = 0, result = "ok"
                 PROVE  spent <= charged + price * CallTime
      BY DEF CostCovers
    <2>1. /\ pc \in {"finally", "done"} /\ spent \in Nat /\ charged \in Nat /\ price \in Nat
          /\ pc = "finally" => spent <= charged
          /\ pc = "done" => spent <= charged + price * CallTime
      BY DEF Money, Sorted, Ordered, Reckoned, Covered
    <2>2. price * CallTime \in Nat
      BY <2>1, Product
    <2> QED BY <2>1, <2>2
  <1> QED BY <1>1, MoneyHolds, PTL

(***************************************************************************)
(* What a window costs exceeds vast_max_job_cost by no more than the last   *)
(* machine's overrun and the time it takes to destroy each machine before   *)
(* it, for any prices, timeouts and limits, as long as no call gets lost.   *)
(***************************************************************************)
THEOREM SpendIsBounded == Spec => []SpendBounded
  <1>1. Inv /\ Money => SpendBounded
    <2> SUFFICES ASSUME Inv, Money, faults = 0
                 PROVE  spent <= MaxJobCost + MaxPrice * (Overrun + (attempts - 1) * CallTime)
      BY DEF SpendBounded
    <2>1. attempts \in Nat /\ spent \in Nat
      BY DEF Money, Reckoned
    <2>2. /\ StartingCap(attempts) \in Nat /\ WorkingCap(attempts) \in Nat
          /\ StartingCap(attempts) <= WorkingCap(attempts) /\ MaxPrice * CallTime \in Nat
          /\ WorkingCap(attempts) + MaxPrice * CallTime
               = MaxJobCost + MaxPrice * (Overrun + (attempts - 1) * CallTime)
      BY <2>1, Caps
    <2>3. attempts > 0 => /\ StartingCap(attempts - 1) \in Nat
                          /\ StartingCap(attempts - 1) + MaxPrice * CallTime
                               = StartingCap(attempts)
      <3> SUFFICES ASSUME attempts > 0
                   PROVE  /\ StartingCap(attempts - 1) \in Nat
                          /\ StartingCap(attempts - 1) + MaxPrice * CallTime
                               = StartingCap(attempts)
        OBVIOUS
      <3>1. attempts - 1 \in Nat /\ (attempts - 1) + 1 = attempts
        BY <2>1
      <3> QED BY <3>1, Caps
    <2>4. spent <= WorkingCap(attempts) + MaxPrice * CallTime
      <3>1. CASE pc \in {"idle", "offers"}
        BY <2>1, <2>2, <3>1 DEF Money, Capped
      <3>2. CASE pc \in Starting \cup {"release", "begin"}
        <4>1. attempts > 0 /\ spent <= StartingCap(attempts - 1)
          BY <3>2 DEF Money, Reckoned, Capped, Working
        <4> QED BY <2>1, <2>2, <2>3, <4>1
      <3>3. CASE pc \in {"demucs", "whisper", "finally"}
        BY <2>1, <2>2, <3>3 DEF Money, Capped
      <3>4. CASE pc = "done"
        BY <3>4 DEF Money, Capped
      <3> QED BY <3>1, <3>2, <3>3, <3>4 DEF Inv, Machines, Working
    <2> QED BY <2>2, <2>4
  <1> QED BY <1>1, MoneyHolds, PTL

=============================================================================
