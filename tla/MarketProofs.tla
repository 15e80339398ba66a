---------------------------- MODULE MarketProofs ----------------------------
(***************************************************************************)
(* For any prices, sizes, margins and horizon: whatever is accepted or       *)
(* committed is certified on answers no older than StaleAge and the time it  *)
(* takes to ask for them, what a                                             *)
(* committed deal can lose is bounded by two certificates, an offer of XNO   *)
(* is one the wallet could fund, and the smallest fill a taker is told of    *)
(* wins where one atom less does not.                                        *)
(***************************************************************************)
EXTENDS Market, FiniteSetTheorems, WellFoundedInduction, TLAPS

\* A reading bears the time its last answer was given, which has passed; the
\* first was given no more than FetchTime before.
Dated(q, t) ==
  q.ok => q.at \in Nat /\ q.born \in Nat /\ q.at <= t /\ q.at - q.born <= FetchTime

LEMMA Sorts == Sides \subseteq {0, 1} /\ Mids \subseteq Nat
<1>1. Sides \subseteq {0, 1}  BY MarketAssumption, SMTT(30)
<1>2. Mids \subseteq Nat  BY MarketAssumption, SMTT(30)
<1> QED  BY <1>1, <1>2

IInv ==
  /\ now \in 0 .. Horizon
  /\ Dated(cache, now)
  /\ Dated(pr, now)
  /\ FreshMid

-----------------------------------------------------------------------------
(* What a reading and a certificate guarantee.                             *)

\* A date that has passed stays passed.
LEMMA StillDated ==
  ASSUME NEW t \in Nat, NEW u \in Nat, t <= u, NEW q, Dated(q, t)
  PROVE  Dated(q, u)
  BY DEF Dated

LEMMA Clock ==
  ASSUME IInv, now' \in 0 .. Horizon, now <= now'
  PROVE  now \in Nat /\ now' \in Nat /\ now <= now'
<1>1. Horizon \in Nat  BY MarketAssumption
<1>2. now \in Nat  BY <1>1 DEF IInv
<1> QED  BY <1>2

\* However long the tries of a reading took.
LEMMA LaterIs ==
  ASSUME IInv, now' \in Later
  PROVE  now <= now' /\ now' \in 0 .. Horizon /\ now \in Nat /\ now' \in Nat
<1>1. Horizon \in Nat  BY MarketAssumption
<1>2. now \in 0 .. Horizon  BY DEF IInv
<1> QED  BY <1>1, <1>2 DEF Later, RetryTime

\* What marketPrice returns is dated, also when its retries took time.
LEMMA ReadingDated ==
  ASSUME IInv, NEW q \in Readings, Reading(q)
  PROVE  /\ now <= now' /\ now' \in 0 .. Horizon
         /\ Dated(cache', now') /\ Dated(q, now')
<1> USE MarketAssumption
<1>1. CASE Cached /\ q = cache /\ UNCHANGED <<now, cache>>
  BY <1>1 DEF IInv
<1>2. CASE ~Cached /\ now' \in Later /\ q \in Fetched(now') /\ cache' = q
  <2>1. now <= now' /\ now' \in 0 .. Horizon /\ now \in Nat /\ now' \in Nat
    BY <1>2, LaterIs
  <2>2. PICK mean \in Means, first \in {u \in now .. now' : now' - u <= FetchTime} :
          q = [ok |-> TRUE, mid |-> mean, at |-> now', born |-> first]
    BY <1>2 DEF Fetched
  <2>3. first \in now .. now' /\ now' - first <= FetchTime  BY <2>2
  <2>4. q.at = now' /\ q.born = first  BY <2>2
  <2>5. first \in Nat  BY <2>1, <2>3
  <2>6. Dated(q, now')  BY <2>1, <2>3, <2>4, <2>5 DEF Dated
  <2> QED  BY <1>2, <2>1, <2>6
<1>3. CASE ~Cached /\ now' \in Later /\ q = Fallback(now') /\ UNCHANGED cache
  <2>1. q = cache \/ ~q.ok  BY <1>3 DEF Fallback, None
  <2>2. now <= now' /\ now' \in 0 .. Horizon /\ now \in Nat /\ now' \in Nat
    BY <1>3, LaterIs
  <2>3. Dated(cache, now')
    <3>1. Dated(cache, now)  BY DEF IInv
    <3> HIDE MarketAssumption
    <3> QED  BY <2>2, <3>1, StillDated, <1>3 DEF Dated
  <2>4. Dated(q, now')  BY <2>1, <2>3 DEF Dated
  <2> QED  BY <1>3, <2>2, <2>3, <2>4 DEF Dated
<1> QED  BY <1>1, <1>2, <1>3 DEF Reading

\* A certificate vouched for is fresh: the age limit is on the time of the last
\* answer, and the first was given FetchTime before at the earliest.
LEMMA VouchedFresh ==
  ASSUME NEW q, NEW t \in Nat, Dated(q, t), Vouched(q, t), NEW did, NEW n, NEW price
  PROVE  LET c == Certificate(did, n, price, q, t) IN c.at - c.born <= StaleAge + FetchTime
  BY DEF Dated, Vouched, Certificate, StaleAge, FetchTime

-----------------------------------------------------------------------------
LEMMA InitInv == Init => IInv
  BY MarketAssumption DEF Init, IInv, Dated, None, NoCert, FreshMid

LEMMA StepInv == IInv /\ [Next]_vars => IInv'
<1> SUFFICES ASSUME IInv, [Next]_vars PROVE IInv'
  OBVIOUS
<1>1. CASE Tick
  <2>1. PICK q \in Readings : Reading(q) /\ pr' = q  BY <1>1 DEF Tick
  <2>2. UNCHANGED cert  BY <1>1 DEF Tick
  <2>3. now' \in 0 .. Horizon /\ Dated(cache', now') /\ Dated(pr', now')
    BY <2>1, ReadingDated
  <2> QED  BY <2>2, <2>3 DEF IInv, FreshMid
<1>2. CASE Post
  BY <1>2 DEF Post, IInv, Dated, FreshMid
<1>3. CASE Status
  <2>1. PICK q \in Readings : Reading(q)  BY <1>3 DEF Status
  <2>2. UNCHANGED <<pr, cert>>  BY <1>3 DEF Status
  <2>3. /\ now <= now' /\ now' \in 0 .. Horizon
        /\ Dated(cache', now')
    BY <2>1, ReadingDated
  <2>4. Dated(pr, now')
    <3>1. Dated(pr, now)  BY DEF IInv
    <3>2. now \in Nat /\ now' \in Nat /\ now <= now'  BY <2>3, Clock
    <3> QED  BY <3>1, <3>2, StillDated
  <2> QED  BY <2>2, <2>3, <2>4 DEF IInv, FreshMid
<1>4. CASE Accept
  <2>1. PICK n \in Fills : Vouched(pr, now) /\ cert' = Certificate("accept", n, offer.price, pr, now)
    BY <1>4 DEF Accept
  <2>2. cert'.at - cert'.born <= StaleAge + FetchTime
    <3>1. now \in Nat /\ Dated(pr, now)  BY MarketAssumption DEF IInv
    <3> QED  BY <2>1, <3>1, VouchedFresh
  <2>3. UNCHANGED <<now, cache, pr>>  BY <1>4 DEF Accept
  <2> QED  BY <2>2, <2>3 DEF IInv, FreshMid, Dated
<1>5. CASE Gate
  <2> DEFINE C(q) == Certificate("commit", deal.n, deal.price, q, now')
  <2>1. PICK q \in Readings :
          /\ Reading(q)
          /\ UNCHANGED cert \/ (Vouched(q, now') /\ cert' = C(q))
    BY <1>5 DEF Gate
  <2>2. UNCHANGED pr  BY <1>5 DEF Gate
  <2>3. /\ now <= now' /\ now' \in 0 .. Horizon
        /\ Dated(cache', now') /\ Dated(q, now')
    BY <2>1, ReadingDated
  <2>4. Dated(pr, now')
    <3>1. Dated(pr, now)  BY DEF IInv
    <3>2. now \in Nat /\ now' \in Nat /\ now <= now'  BY <2>3, Clock
    <3> QED  BY <3>1, <3>2, StillDated
  <2>5. CASE UNCHANGED cert
    BY <2>2, <2>3, <2>4, <2>5 DEF IInv, FreshMid
  <2>6. CASE Vouched(q, now') /\ cert' = C(q)
    <3>1. now' \in Nat  BY <2>3, Clock
    <3>2. cert'.at - cert'.born <= StaleAge + FetchTime  BY <2>3, <2>6, <3>1, VouchedFresh
    <3> QED  BY <2>2, <2>3, <2>4, <3>2 DEF IInv, FreshMid
  <2> QED  BY <2>1, <2>5, <2>6
<1>6. CASE Over
  BY <1>6 DEF Over, IInv, Dated, FreshMid, NoCert
<1>7. CASE Pass
  <2>1. now < Horizon /\ now' = now + 1 /\ UNCHANGED <<cache, pr, cert>>  BY <1>7 DEF Pass
  <2>2. Horizon \in Nat /\ now \in 0 .. Horizon  BY MarketAssumption DEF IInv
  <2>3. now' \in 0 .. Horizon  BY <2>1, <2>2
  <2>4. Dated(cache, now') /\ Dated(pr, now')
    <3>1. Dated(cache, now) /\ Dated(pr, now)  BY DEF IInv
    <3>2. now \in Nat /\ now' \in Nat /\ now <= now'  BY <2>1, <2>2
    <3> QED  BY <3>1, <3>2, StillDated
  <2> QED  BY <2>1, <2>3, <2>4 DEF IInv, FreshMid
<1>8. CASE UNCHANGED vars
  BY <1>8 DEF vars, IInv, Dated, FreshMid
<1> QED  BY <1>1, <1>2, <1>3, <1>4, <1>5, <1>6, <1>7, <1>8 DEF Next

\* Nothing is accepted or committed on answers older than a minute and the time
\* its sources took, although a price passes through the cache, the stale fallback
\* and the price a tick read when it started, each with an age of its own.
THEOREM ActsOnFresh == Spec => []FreshMid
<1>1. IInv => FreshMid  BY DEF IInv
<1> QED  BY InitInv, StepInv, <1>1, PTL DEF Spec
-----------------------------------------------------------------------------
(* Amounts.                                                                *)

\* What a deal is worth at the price it was accepted at, and that it was a win.
Signed ==
  /\ deal.n \in Nat /\ deal.price \in Nat
  /\ XmrFor(deal.n, deal.price) > 0
  /\ \E mid \in Nat :
       LET p == Profit(RoleIsA, deal.n, deal.price, mid)
       IN deal.net = p.net /\ deal.outlay = p.outlay
  /\ deal.net * 10000 >= MinBps * deal.outlay

WInv ==
  /\ side \in {0, 1}
  /\ cache.mid \in Nat /\ pr.mid \in Nat /\ offer.price \in Nat
  /\ stage \in {"accepted", "committed"} => Signed
  /\ WorstNet

LEMMA DivBelow ==
  ASSUME NEW a \in Nat, NEW b \in Nat \ {0}, NEW k \in Nat, a \div b >= k
  PROVE  a >= k * b
  OBVIOUS

LEMMA DivAbove ==
  ASSUME NEW a \in Nat, NEW b \in Nat \ {0}, NEW k \in Nat, a \div b <= k
  PROVE  a < (k + 1) * b
  OBVIOUS

LEMMA DivMonotone ==
  ASSUME NEW a \in Nat, NEW b \in Nat \ {0}
  PROVE  a \div b \in Nat
  OBVIOUS

\* A rate of at least k says as much of what it is a rate of.
LEMMA RateBelow ==
  ASSUME NEW a \in Int, NEW b \in Nat, NEW k \in Nat \ {0}, BpsOf(a, b) >= k
  PROVE  a * 10000 >= k * b
<1>1. b \in Nat \ {0}  BY DEF BpsOf
<1>2. Quot(a * 10000, b) >= k  BY <1>1 DEF BpsOf
<1>3. a * 10000 >= 0
  <2> SUFFICES ASSUME a * 10000 < 0 PROVE FALSE
    OBVIOUS
  <2>1. -(a * 10000) \in Nat  OBVIOUS
  <2>2. (-(a * 10000)) \div b \in Nat  BY <1>1, <2>1, DivMonotone
  <2> QED  BY <1>2, <2>2 DEF Quot
<1>4. a * 10000 \in Nat /\ (a * 10000) \div b >= k  BY <1>2, <1>3 DEF Quot
<1> QED  BY <1>1, <1>4, DivBelow

\* A loss within k is, but for the fraction a division drops.
LEMMA RateAbove ==
  ASSUME NEW a \in Int, NEW b \in Nat \ {0}, NEW k \in Nat, BpsOf(a, b) >= -k
  PROVE  a * 10000 >= -((k + 1) * b)
<1>1. Quot(a * 10000, b) >= -k  BY DEF BpsOf
<1>2. CASE a >= 0
  <2>1. (k + 1) * b >= 0  OBVIOUS
  <2> QED  BY <1>2, <2>1
<1>3. CASE a < 0
  <2> DEFINE x == -(a * 10000)
  <2>1. x \in Nat /\ ~(a * 10000 >= 0)  BY <1>3
  <2>2. Quot(a * 10000, b) = -(x \div b)  BY <2>1 DEF Quot
  <2>3. x \div b \in Nat  BY <2>1, DivMonotone
  <2>4. x \div b <= k  BY <1>1, <2>2, <2>3
  <2>5. x < (k + 1) * b  BY <2>1, <2>4, DivAbove
  <2>6. (k + 1) * b \in Int  OBVIOUS
  <2> QED  BY <2>5, <2>6
<1> QED  BY <1>2, <1>3
\* What fills and prices come to.
LEMMA XmrType ==
  ASSUME NEW n \in Nat, NEW price \in Nat
  PROVE  XmrFor(n, price) \in Nat
<1>1. n * price \in Nat /\ Unit \in Nat \ {0}  BY MarketAssumption
<1> QED  BY <1>1, DivMonotone DEF XmrFor

LEMMA ProfitType ==
  ASSUME NEW isA \in BOOLEAN, NEW n \in Nat, NEW price \in Nat, NEW mid \in Nat
  PROVE  LET p == Profit(isA, n, price, mid)
         IN /\ p.net \in Int /\ p.outlay \in Nat
            /\ isA => p.net = XmrFor(n, price) - p.outlay - Fee
            /\ ~isA => p.outlay = XmrFor(n, price)
            /\ p.bps = BpsOf(p.net, p.outlay)
<1> DEFINE value == (n * mid) \div Unit
<1>1. n * mid \in Nat /\ Unit \in Nat \ {0} /\ Fee \in Nat  BY MarketAssumption
<1>2. value \in Nat  BY <1>1, DivMonotone
<1>3. XmrFor(n, price) \in Nat  BY XmrType
<1> HIDE DEF value
<1>4. CASE isA
  BY <1>1, <1>2, <1>3, <1>4 DEF Profit, value
<1>5. CASE ~isA
  BY <1>1, <1>2, <1>3, <1>5 DEF Profit, value
<1> QED  BY <1>4, <1>5

\* The mean of what the sources answered is a natural number.
LEMMA MeansType == Means \subseteq Nat
<1> SUFFICES ASSUME NEW got \in Answers, Agree(got)
             PROVE  Total(got) \div Cardinality(DOMAIN got) \in Nat
  BY DEF Means
<1>1. PICK S \in SUBSET (1 .. 3) : got \in [S -> Mids]  BY DEF Answers
<1>2. Cardinality(S) \in Nat
  <2>1. IsFiniteSet(1 .. 3)
    <3>1. \A a, b \in Int : IsFiniteSet(a .. b)  BY FS_Interval
    <3>2. 1 \in Int /\ 3 \in Int  OBVIOUS
    <3> QED  BY <3>1, <3>2
  <2> QED  BY <2>1, FS_Subset, FS_CardinalityType
<1>3. DOMAIN got = S /\ Cardinality(S) >= 2  BY <1>1 DEF Agree
<1>4. Total(got) \in Nat
  <2>0. Mids \subseteq Nat  BY Sorts
  <2>1. ASSUME NEW i PROVE (IF i \in DOMAIN got THEN got[i] ELSE 0) \in Nat
    <3>1. CASE i \in DOMAIN got
      <4>1. got[i] \in Mids  BY <1>1, <3>1
      <4> QED  BY <2>0, <3>1, <4>1
    <3>2. CASE i \notin DOMAIN got  BY <3>2
    <3> QED  BY <3>1, <3>2
  <2> QED  BY <2>1 DEF Total
<1>5. Cardinality(S) \in Nat \ {0}  BY <1>2, <1>3
<1> QED  BY <1>3, <1>4, <1>5, DivMonotone

LEMMA ReadingPriced ==
  ASSUME cache.mid \in Nat, NEW q, Reading(q)
  PROVE  q.mid \in Nat /\ cache'.mid \in Nat
<1>1. CASE q = cache /\ UNCHANGED cache
  BY <1>1
<1>2. CASE q \in Fetched(now') /\ cache' = q
  BY <1>2, MeansType DEF Fetched
<1>3. CASE q = Fallback(now') /\ UNCHANGED cache
  BY <1>3 DEF Fallback, None
<1> QED  BY <1>1, <1>2, <1>3 DEF Reading

LEMMA AskType ==
  ASSUME NEW mid \in Nat, NEW bps \in Bps
  PROVE  Ask(mid, bps) \in Nat
<1>1. bps \in 1 .. 9999  BY MarketAssumption
<1>2. ASSUME NEW k \in Nat PROVE mid * k + 5000 \in Nat
  OBVIOUS
<1>3. 10000 + bps \in Nat /\ 10000 - bps \in Nat  BY <1>1
<1>4. mid * (10000 + bps) + 5000 \in Nat /\ mid * (10000 - bps) + 5000 \in Nat
  BY <1>2, <1>3
<1> QED  BY <1>4, DivMonotone DEF Ask

LEMMA PostedType ==
  ASSUME pr.mid \in Nat, NEW bps \in Bps, NEW balance, NEW t
  PROVE  Posted(bps, balance, t).price \in Nat
  BY AskType DEF Posted, NoOffer

-----------------------------------------------------------------------------
(* The two certificates.                                                   *)

\* The first: a deal is signed as it is accepted.
LEMMA Accepted ==
  ASSUME WInv, Accept
  PROVE  Signed'
<1>1. PICK n \in Fills :
        LET c == Certificate("accept", n, offer.price, pr, now)
        IN /\ n \in 1 .. MaxXno(offer) /\ XmrFor(n, offer.price) > 0
           /\ c.bps >= MinBps
           /\ deal' = [n |-> n, price |-> offer.price, net |-> c.net, outlay |-> c.outlay]
  BY DEF Accept
<1> DEFINE p == Profit(RoleIsA, n, offer.price, pr.mid)
<1>2. n \in Nat /\ offer.price \in Nat /\ pr.mid \in Nat /\ RoleIsA \in BOOLEAN
  BY <1>1 DEF WInv, RoleIsA
<1>3. /\ deal' = [n |-> n, price |-> offer.price, net |-> p.net, outlay |-> p.outlay]
      /\ p.bps >= MinBps
  BY <1>1 DEF Certificate
<1>4. p.net \in Int /\ p.outlay \in Nat /\ p.bps = BpsOf(p.net, p.outlay)
  BY <1>2, ProfitType
<1>5. p.net * 10000 >= MinBps * p.outlay
  <2>1. MinBps \in Nat \ {0}  BY MarketAssumption
  <2> HIDE DEF p
  <2>2. p.net \in Int /\ p.outlay \in Nat /\ BpsOf(p.net, p.outlay) >= MinBps
    BY <1>3, <1>4
  <2> QED  BY <2>1, <2>2, RateBelow
<1>6. UNCHANGED side  BY DEF Accept
<1>7. RoleIsA' = RoleIsA  BY <1>6 DEF RoleIsA
<1>8. XmrFor(n, offer.price) > 0  BY <1>1
<1> HIDE DEF p
<1>9. /\ deal'.n = n /\ deal'.price = offer.price /\ deal'.net = p.net /\ deal'.outlay = p.outlay
  BY <1>3
<1>10. \E mid \in Nat :
         LET r == Profit(RoleIsA', deal'.n, deal'.price, mid)
         IN deal'.net = r.net /\ deal'.outlay = r.outlay
  BY <1>2, <1>7, <1>9 DEF p
<1> QED  BY <1>2, <1>5, <1>7, <1>8, <1>9, <1>10 DEF Signed

\* The second: what the gate lets through is worth at least that, less the loss
\* allowed.  Without an outlay to lose on, the value can only have fallen.
LEMMA Committed ==
  ASSUME Signed, side \in {0, 1}, NEW q, q.mid \in Nat, NEW t, NEW did,
         Kept(Certificate(did, deal.n, deal.price, q, t), deal)
  PROVE  LET c == Certificate(did, deal.n, deal.price, q, t)
         IN c.net * 10000 >= MinBps * deal.outlay - (MaxLoss + 1) * c.outlay
<1> DEFINE p == Profit(RoleIsA, deal.n, deal.price, q.mid)
           xmr == XmrFor(deal.n, deal.price)
<1>1. PICK mid \in Nat : /\ deal.net = Profit(RoleIsA, deal.n, deal.price, mid).net
                         /\ deal.outlay = Profit(RoleIsA, deal.n, deal.price, mid).outlay
  BY DEF Signed
<1>2. RoleIsA \in BOOLEAN /\ deal.n \in Nat /\ deal.price \in Nat  BY DEF Signed, RoleIsA
<1>3. /\ deal.net \in Int /\ deal.outlay \in Nat
      /\ RoleIsA => deal.net = xmr - deal.outlay - Fee
  BY <1>1, <1>2, ProfitType
<1>4. /\ p.net \in Int /\ p.outlay \in Nat
      /\ RoleIsA => p.net = xmr - p.outlay - Fee
      /\ ~RoleIsA => p.outlay = xmr
  BY <1>2, ProfitType
<1>5. xmr \in Nat /\ xmr > 0
  <2>1. xmr \in Nat  BY <1>2, XmrType
  <2> QED  BY <2>1 DEF Signed
<1>6. BpsOf(p.net - deal.net, p.outlay) >= -MaxLoss
  BY DEF Kept, Certificate
<1>7. deal.net * 10000 >= MinBps * deal.outlay  BY DEF Signed
<1>8. MinBps \in Nat /\ MaxLoss \in Nat /\ Fee \in Nat  BY MarketAssumption
<1> HIDE DEF p, xmr
<1>9. p.net * 10000 >= MinBps * deal.outlay - (MaxLoss + 1) * p.outlay
  <2> DEFINE floor == MinBps * deal.outlay
             room == (MaxLoss + 1) * p.outlay
  <2>1. floor \in Int /\ room \in Nat  BY <1>3, <1>4, <1>8
  <2>2. CASE p.outlay = 0
    <3>1. RoleIsA  BY <1>4, <1>5, <2>2
    <3>2. p.net >= deal.net  BY <1>3, <1>4, <1>5, <1>8, <2>2, <3>1
    <3>3. deal.net * 10000 >= floor  BY <1>7
    <3> HIDE DEF floor, room
    <3> QED  BY <1>3, <1>4, <2>1, <3>2, <3>3 DEF room, floor
  <2>3. CASE p.outlay # 0
    <3>1. p.net - deal.net \in Int /\ p.outlay \in Nat \ {0}  BY <1>3, <1>4, <2>3
    <3>2. (p.net - deal.net) * 10000 >= -room  BY <1>6, <1>8, <3>1, RateAbove
    <3>3. deal.net * 10000 >= floor  BY <1>7
    <3> HIDE DEF floor, room
    <3>4. p.net * 10000 >= floor - room  BY <1>3, <1>4, <2>1, <3>2, <3>3
    <3> QED  BY <3>4 DEF floor, room
  <2> QED  BY <2>2, <2>3
<1>10. LET c == Certificate(did, deal.n, deal.price, q, t)
       IN c.net = p.net /\ c.outlay = p.outlay
  BY DEF Certificate, p
<1> QED  BY <1>9, <1>10

LEMMA InitWInv == Init => WInv
<1> SUFFICES ASSUME Init PROVE WInv  OBVIOUS
<1>1. side \in {0, 1} /\ stage = "none"
  <2>1. Sides \subseteq {0, 1}  BY Sorts
  <2> QED  BY <2>1 DEF Init
<1>2. cache.mid = 0 /\ pr.mid = 0 /\ offer.price = 0  BY DEF Init, None, NoOffer
<1> QED  BY <1>1, <1>2 DEF WInv, WorstNet

\* A deal keeps its signature while deal and side stay.
LEMMA StillSigned ==
  ASSUME Signed, UNCHANGED <<deal, side>>
  PROVE  Signed'
<1>1. RoleIsA' = RoleIsA  BY DEF RoleIsA
<1> QED  BY <1>1 DEF Signed

LEMMA StepWInv == WInv /\ [Next]_vars => WInv'
<1> SUFFICES ASSUME WInv, [Next]_vars PROVE WInv'
  OBVIOUS
<1>1. CASE Tick
  <2>1. PICK q \in Readings : Reading(q) /\ pr' = q  BY <1>1 DEF Tick
  <2>2. /\ stage' = "none" /\ UNCHANGED side
        /\ UNCHANGED offer \/ offer' = NoOffer
    BY <1>1 DEF Tick
  <2>3. pr'.mid \in Nat /\ cache'.mid \in Nat  BY <2>1, ReadingPriced DEF WInv
  <2> QED  BY <2>2, <2>3 DEF WInv, WorstNet, NoOffer
<1>2. CASE Post
  <2>1. PICK bps \in Bps, balance \in Balances : offer' = Posted(bps, balance, now)
    BY <1>2 DEF Post
  <2>2. stage' = "none" /\ UNCHANGED <<side, cache, pr>>  BY <1>2 DEF Post
  <2>3. offer'.price \in Nat  BY <2>1, PostedType DEF WInv
  <2> QED  BY <2>2, <2>3 DEF WInv, WorstNet
<1>3. CASE Status
  <2>1. PICK q \in Readings :
          /\ Reading(q)
          /\ \/ UNCHANGED offer \/ offer' = NoOffer
             \/ \E bps \in Bps, balance \in Balances : offer' = Posted(bps, balance, now')
    BY <1>3 DEF Status
  <2>2. stage' = "none" /\ UNCHANGED <<side, pr>>  BY <1>3 DEF Status
  <2>3. cache'.mid \in Nat  BY <2>1, ReadingPriced DEF WInv
  <2>4. offer'.price \in Nat  BY <2>1, PostedType DEF WInv, NoOffer
  <2> QED  BY <2>2, <2>3, <2>4 DEF WInv, WorstNet
<1>4. CASE Accept
  <2>1. Signed'  BY <1>4, Accepted
  <2>2. stage' = "accepted" /\ UNCHANGED <<side, cache, pr, offer>>  BY <1>4 DEF Accept
  <2> QED  BY <2>1, <2>2 DEF WInv, WorstNet
<1>5. CASE Gate
  <2> DEFINE C(q) == Certificate("commit", deal.n, deal.price, q, now')
  <2>1. PICK q \in Readings :
          /\ Reading(q)
          /\ \/ UNCHANGED stage
             \/ stage' = "off"
             \/ Kept(C(q), deal) /\ stage' = "committed" /\ cert' = C(q)
    BY <1>5 DEF Gate
  <2>2. stage = "accepted" /\ UNCHANGED <<side, pr, offer, deal>>  BY <1>5 DEF Gate
  <2>3. q.mid \in Nat /\ cache'.mid \in Nat  BY <2>1, ReadingPriced DEF WInv
  <2>4. Signed /\ Signed'  BY <2>2, StillSigned DEF WInv
  <2>5. CASE stage' # "committed"
    BY <2>2, <2>3, <2>4, <2>5 DEF WInv, WorstNet
  <2>6. CASE stage' = "committed"
    <3>1. Kept(C(q), deal) /\ cert' = C(q)  BY <2>1, <2>2, <2>6
    <3>2. WorstNet'  BY <2>2, <2>3, <2>4, <3>1, Committed DEF WorstNet, WInv
    <3> QED  BY <2>2, <2>3, <2>4, <3>2 DEF WInv
  <2> QED  BY <2>5, <2>6
<1>6. CASE Over
  <2>1. stage' = "none" /\ offer' = NoOffer /\ UNCHANGED <<side, cache, pr>>  BY <1>6 DEF Over
  <2> QED  BY <2>1 DEF WInv, WorstNet, NoOffer
<1>7. CASE UNCHANGED <<side, cache, pr, offer, deal, stage, cert>>
  <2>1. stage \in {"accepted", "committed"} => Signed'  BY <1>7, StillSigned DEF WInv
  <2> QED  BY <1>7, <2>1 DEF WInv, WorstNet
<1> QED  BY <1>1, <1>2, <1>3, <1>4, <1>5, <1>6, <1>7 DEF Next, Pass, vars

\* Whatever the prices do between the acceptance and the step that cannot be
\* undone, and however often the gate was asked, a committed deal's certified
\* result is a win of MinBps less MaxLoss.
THEOREM LossIsBounded == Spec => []WorstNet
<1>1. WInv => WorstNet  BY DEF WInv
<1> QED  BY InitWInv, StepWInv, <1>1, PTL DEF Spec

-----------------------------------------------------------------------------
(* What an offer advertises.                                               *)

\* A nonempty set of exponents has a greatest one: what is left of the scale
\* above it is the least.
LEMMA MaxIn ==
  ASSUME NEW S \in SUBSET (0 .. 12), S # {}
  PROVE  Max(S) \in S
<1> DEFINE T == {12 - l : l \in S}
<1>1. T \in SUBSET Nat /\ T # {}  OBVIOUS
<1>2. PICK m \in T : \A k \in T : ~ (<<k, m>> \in OpToRel(<, Nat))
  <2> HIDE DEF T
  <2> QED  BY <1>1, NatLessThanWellFounded, WFMin
<1>3. PICK x \in S : m = 12 - x  BY <1>2
<1>4. ASSUME NEW y \in S PROVE x >= y
  <2>1. 12 - y \in T  OBVIOUS
  <2>2. ~ (12 - y < m)
    <3>1. 12 - y \in Nat /\ m \in Nat  BY <1>1, <2>1
    <3> HIDE DEF T
    <3> QED  BY <1>2, <2>1, <3>1 DEF OpToRel
  <2>3. x \in 0 .. 12 /\ y \in 0 .. 12  OBVIOUS
  <2> QED  BY <1>3, <2>2, <2>3
<1> QED  BY <1>4 DEF Max

\* quantizeSize goes down: the power it names is no more than what was asked.
LEMMA LogBelow ==
  ASSUME NEW n \in Nat \ {0}
  PROVE  2 ^ Log2(n) <= n
<1> DEFINE S == {l \in 0 .. 12 : 2 ^ l <= n}
<1>1. 2 ^ 0 = 1  OBVIOUS
<1>2. 0 \in 0 .. 12 /\ 1 <= n  OBVIOUS
<1>3. 0 \in S  BY <1>1, <1>2
<1>4. S \in SUBSET (0 .. 12) /\ S # {}  BY <1>3
<1>5. Log2(n) = Max(S)  BY DEF Log2
<1>6. Max(S) \in S
  <2> HIDE DEF S
  <2> QED  BY <1>4, MaxIn
<1> QED  BY <1>5, <1>6

\* What a seller of XNO posts, its wallet holds.
LEMMA PostedBacked ==
  ASSUME side = 0, NEW bps, NEW balance \in Balances, NEW t
  PROVE  LET o == Posted(bps, balance, t) IN o = NoOffer \/ Backed(o)
<1>1. Fundable(balance, Ask(pr.mid, bps)) = balance  BY DEF Fundable
<1>2. balance \in Nat
  <2>1. Balances \subseteq Nat  BY MarketAssumption, SMTT(30)
  <2> QED  BY <2>1
<1>3. CASE Posted(bps, balance, t) = NoOffer
  BY <1>3
<1>4. CASE Posted(bps, balance, t) # NoOffer
  <2>1. /\ Posted(bps, balance, t).log2 = Log2(balance)
        /\ Posted(bps, balance, t).fund = balance
        /\ balance > 0
    BY <1>1, <1>4 DEF Posted
  <2>2. 2 ^ Log2(balance) <= balance  BY <1>2, <2>1, LogBelow
  <2> QED  BY <2>1, <2>2 DEF Backed, MaxXno
<1> QED  BY <1>3, <1>4

\* An offer and a side that stay are as well backed as before.
LEMMA StillCovered ==
  ASSUME Covered, UNCHANGED side, UNCHANGED offer \/ offer' = NoOffer
  PROVE  Covered'
<1>1. CASE UNCHANGED offer
  BY <1>1 DEF Covered, Rests, Backed, MaxXno
<1>2. CASE offer' = NoOffer
  BY <1>2 DEF Covered, Rests
<1> QED  BY <1>1, <1>2

LEMMA PostCovered ==
  ASSUME UNCHANGED side, NEW bps, NEW balance \in Balances, NEW t,
         offer' = Posted(bps, balance, t)
  PROVE  Covered'
<1> SUFFICES ASSUME Rests', side' = 0 PROVE Backed(offer)'
  BY DEF Covered
<1>1. offer' # NoOffer /\ side = 0  BY DEF Rests
<1>2. LET o == Posted(bps, balance, t) IN Backed(o)  BY <1>1, PostedBacked
<1> QED  BY <1>1, <1>2 DEF Backed, MaxXno

LEMMA StepCovered == Covered /\ [Next]_vars => Covered'
<1> SUFFICES ASSUME Covered, [Next]_vars PROVE Covered'
  OBVIOUS
<1>1. CASE Tick
  <2>1. UNCHANGED side /\ (UNCHANGED offer \/ offer' = NoOffer)  BY <1>1 DEF Tick
  <2> QED  BY <2>1, StillCovered
<1>2. CASE Post
  <2>1. UNCHANGED side /\ \E bps \in Bps, balance \in Balances : offer' = Posted(bps, balance, now)
    BY <1>2 DEF Post
  <2> QED  BY <2>1, PostCovered
<1>3. CASE Status
  <2>1. /\ UNCHANGED side
        /\ \/ UNCHANGED offer \/ offer' = NoOffer
           \/ \E bps \in Bps, balance \in Balances : offer' = Posted(bps, balance, now')
    BY <1>3 DEF Status
  <2>2. CASE UNCHANGED offer \/ offer' = NoOffer  BY <2>1, <2>2, StillCovered
  <2>3. CASE \E bps \in Bps, balance \in Balances : offer' = Posted(bps, balance, now')
    BY <2>1, <2>3, PostCovered
  <2> QED  BY <2>1, <2>2, <2>3
<1>4. CASE Accept
  <2>1. UNCHANGED <<side, offer>>  BY <1>4 DEF Accept
  <2> QED  BY <2>1, StillCovered
<1>5. CASE Gate
  <2>1. UNCHANGED <<side, offer>>  BY <1>5 DEF Gate
  <2> QED  BY <2>1, StillCovered
<1>6. CASE Over
  <2>1. UNCHANGED side /\ offer' = NoOffer  BY <1>6 DEF Over
  <2> QED  BY <2>1, StillCovered
<1>7. CASE Pass
  <2>1. UNCHANGED <<side, offer>>  BY <1>7 DEF Pass
  <2> QED  BY <2>1, StillCovered
<1>8. CASE UNCHANGED vars
  <2>1. UNCHANGED <<side, offer>>  BY <1>8 DEF vars
  <2> QED  BY <2>1, StillCovered
<1> QED  BY <1>1, <1>2, <1>3, <1>4, <1>5, <1>6, <1>7, <1>8 DEF Next

\* A maker that sells XNO never rests, and so never accepts, a fill larger than
\* what its wallet could fund when it posted: the size is rounded down to a power
\* of two, and read back as the same power.
THEOREM NeverOversold == Spec => []Covered
<1>1. Init => Covered  BY DEF Init, Covered, Rests
<1> QED  BY <1>1, StepCovered, PTL DEF Spec

-----------------------------------------------------------------------------
(* The smallest fill that wins.                                            *)

LEMMA LeastNatural ==
  ASSUME NEW S \in SUBSET Nat, S # {}
  PROVE  \E m \in S : \A k \in S : m <= k
<1>1. PICK m \in S : \A k \in S : ~ (<<k, m>> \in OpToRel(<, Nat))
  BY NatLessThanWellFounded, WFMin
<1>2. ASSUME NEW k \in S PROVE m <= k
  <2>1. <<k, m>> \in Nat \X Nat /\ <<k, m>>[1] = k /\ <<k, m>>[2] = m  OBVIOUS
  <2> QED  BY <1>1, <2>1 DEF OpToRel
<1> QED  BY <1>2

\* The sizes that are halved.
LEMMA Powers ==
  /\ \A k \in 0 .. 12 : 2 ^ k \in Nat \ {0}
  /\ \A k \in 0 .. 11 : 2 ^ (k + 1) = 2 * 2 ^ k
<1>1. ASSUME NEW k \in 0 .. 11 PROVE 2 ^ k \in Nat \ {0} /\ 2 ^ (k + 1) = 2 * 2 ^ k
  <2>0. k \in {0, 1, 2, 3, 4, 5, 6, 7, 8, 9, 10, 11}  OBVIOUS
  <2>1. CASE k = 0  BY <2>1
  <2>2. CASE k = 1  BY <2>2
  <2>3. CASE k = 2  BY <2>3
  <2>4. CASE k = 3  BY <2>4
  <2>5. CASE k = 4  BY <2>5
  <2>6. CASE k = 5  BY <2>6
  <2>7. CASE k = 6  BY <2>7
  <2>8. CASE k = 7  BY <2>8
  <2>9. CASE k = 8  BY <2>9
  <2>10. CASE k = 9  BY <2>10
  <2>11. CASE k = 10  BY <2>11
  <2>12. CASE k = 11  BY <2>12
  <2> QED  BY <2>0, <2>1, <2>2, <2>3, <2>4, <2>5, <2>6, <2>7, <2>8, <2>9, <2>10, <2>11, <2>12
<1>2. 2 ^ 12 \in Nat \ {0}
  OBVIOUS
<1> QED  BY <1>1, <1>2

\* Twice as much is worth twice as much, but for the fraction that was dropped.
LEMMA Doubled ==
  ASSUME NEW a \in Nat, NEW b \in Nat \ {0}
  PROVE  (2 * a) \div b \in {2 * (a \div b), 2 * (a \div b) + 1}
<1> DEFINE q == a \div b
           r == (2 * a) \div b
<1>1. q \in Nat /\ q * b <= a /\ a < q * b + b
  OBVIOUS
<1>2. r \in Nat /\ r * b <= 2 * a /\ 2 * a < r * b + b
  OBVIOUS
<1> HIDE DEF q, r
<1>3. q * b \in Nat /\ r * b \in Nat
  BY <1>1, <1>2
<1>4. ~(r >= 2 * q + 2)
  <2> SUFFICES ASSUME r >= 2 * q + 2 PROVE FALSE
    OBVIOUS
  <2>1. r * b >= (2 * q + 2) * b  BY <1>1, <1>2
  <2>2. (2 * q + 2) * b = 2 * (q * b) + 2 * b  BY <1>1
  <2> QED  BY <1>1, <1>2, <1>3, <2>1, <2>2
<1>5. ~(r + 1 <= 2 * q)
  <2> SUFFICES ASSUME r + 1 <= 2 * q PROVE FALSE
    OBVIOUS
  <2>1. (r + 1) * b <= (2 * q) * b  BY <1>1, <1>2
  <2>2. (r + 1) * b = r * b + b /\ (2 * q) * b = 2 * (q * b)  BY <1>1, <1>2
  <2> QED  BY <1>1, <1>2, <1>3, <2>1, <2>2
<1> QED  BY <1>1, <1>2, <1>4, <1>5 DEF q, r

\* What is at least k of its base has a rate of at least k.
LEMMA RateIs ==
  ASSUME NEW a \in Nat, NEW b \in Nat \ {0}, NEW k \in Nat, a * 10000 >= k * b
  PROVE  BpsOf(a, b) >= k
<1> DEFINE x == a * 10000
           q == x \div b
<1>1. x \in Nat /\ x >= k * b
  OBVIOUS
<1> HIDE DEF x
<1>2. q \in Nat /\ x < q * b + b
  BY <1>1
<1> HIDE DEF q
<1>3. q >= k
  <2> SUFFICES ASSUME q + 1 <= k PROVE FALSE
    BY <1>2
  <2>1. (q + 1) * b <= k * b /\ (q + 1) * b = q * b + b  BY <1>2
  <2>2. q * b \in Nat /\ k * b \in Nat  BY <1>2
  <2> QED  BY <1>1, <1>2, <2>1, <2>2
<1>4. BpsOf(a, b) = q
  BY <1>1 DEF BpsOf, Quot, x, q
<1> QED  BY <1>3, <1>4

\* The fee makes up for the fractions that are dropped.
FeeCovers == MinBps <= (Fee - 1) * 10000

\* A fill that wins still does when it is twice the size.
LEMMA WinDoubles ==
  ASSUME FeeCovers, NEW isA \in BOOLEAN, NEW n \in Nat, NEW price \in Nat, NEW mid \in Nat,
         Wins(isA, n, price, mid)
  PROVE  Wins(isA, 2 * n, price, mid)
<1> DEFINE p == Profit(isA, n, price, mid)
           r == Profit(isA, 2 * n, price, mid)
           x == XmrFor(n, price)
           v == (n * mid) \div Unit
           y == XmrFor(2 * n, price)
           w == (2 * n * mid) \div Unit
<1>0. Unit \in Nat \ {0} /\ Fee \in Nat /\ MinBps \in Nat \ {0}
  BY MarketAssumption
<1>1. n * price \in Nat /\ n * mid \in Nat /\ 2 * n * price = 2 * (n * price)
      /\ 2 * n * mid = 2 * (n * mid) /\ 2 * n \in Nat
  OBVIOUS
<1>2. x \in Nat /\ v \in Nat
  BY <1>0, <1>1, DivMonotone DEF XmrFor
<1>3. y \in {2 * x, 2 * x + 1} /\ w \in {2 * v, 2 * v + 1}
  BY <1>0, <1>1, Doubled DEF XmrFor
<1>4. /\ p.net = (IF isA THEN x - v ELSE v - x) - Fee
      /\ p.outlay = IF isA THEN v ELSE x
      /\ p.bps = BpsOf(p.net, p.outlay)
  BY DEF Profit
<1>5. /\ r.net = (IF isA THEN y - w ELSE w - y) - Fee
      /\ r.outlay = IF isA THEN w ELSE y
      /\ r.bps = BpsOf(r.net, r.outlay)
  BY DEF Profit
<1>6. p.bps >= MinBps
  BY DEF Wins
<1> HIDE DEF p, r, x, v, y, w
<1>7. p.net \in Int /\ p.outlay \in Nat /\ p.net * 10000 >= MinBps * p.outlay
  <2>1. p.net \in Int /\ p.outlay \in Nat  BY <1>0, <1>2, <1>4
  <2> QED  BY <1>0, <1>4, <1>6, <2>1, RateBelow
<1>8. p.outlay > 0
  <2>1. p.outlay = 0 => p.bps = 0  BY <1>4 DEF BpsOf
  <2> QED  BY <1>0, <1>6, <1>7, <2>1
<1>9. r.net \in Int /\ r.outlay \in Nat /\ r.net >= 2 * p.net + Fee - 1
      /\ r.outlay >= 2 * p.outlay /\ r.outlay <= 2 * p.outlay + 1
  BY <1>0, <1>2, <1>3, <1>4, <1>5
<1>10. r.net * 10000 >= MinBps * r.outlay /\ r.net >= 0
  <2> DEFINE m == MinBps * p.outlay
  <2>1. m \in Nat /\ p.net * 10000 >= m  BY <1>0, <1>7
  <2>2. MinBps * r.outlay <= MinBps * (2 * p.outlay + 1)  BY <1>0, <1>7, <1>9
  <2>3. MinBps * (2 * p.outlay + 1) = 2 * m + MinBps  BY <1>0, <1>7
  <2>4. MinBps * r.outlay \in Nat  BY <1>0, <1>9
  <2> HIDE DEF m
  <2>5. MinBps * r.outlay <= 2 * m + MinBps  BY <1>0, <1>7, <1>9, <2>1, <2>2, <2>3, <2>4
  <2>6. r.net * 10000 >= 2 * m + MinBps
    BY <1>0, <1>7, <1>9, <2>1 DEF FeeCovers
  <2> QED  BY <1>0, <1>9, <2>1, <2>4, <2>5, <2>6
<1>11. r.bps >= MinBps
  BY <1>0, <1>5, <1>7, <1>8, <1>9, <1>10, RateIs
<1> QED  BY <1>11 DEF Wins, r

\* Of the sizes that are halved, all above one that wins do.
LEMMA WinsAbove ==
  ASSUME FeeCovers, NEW isA \in BOOLEAN, NEW price \in Nat, NEW mid \in Nat,
         NEW l \in 0 .. 12, Wins(isA, 2 ^ l, price, mid), NEW k \in l .. 12
  PROVE  Wins(isA, 2 ^ k, price, mid)
<1> DEFINE T == {j \in l .. 12 : ~Wins(isA, 2 ^ j, price, mid)}
<1>1. SUFFICES ASSUME T # {} PROVE FALSE
  OBVIOUS
<1>2. PICK j \in T : \A i \in T : j <= i
  <2>1. T \in SUBSET Nat  OBVIOUS
  <2> HIDE DEF T
  <2> QED  BY <1>1, <2>1, LeastNatural
<1>3. j # l
  OBVIOUS
<1>4. j - 1 \in l .. 12 /\ j - 1 \notin T /\ j - 1 \in 0 .. 11
  BY <1>2, <1>3
<1>5. Wins(isA, 2 ^ (j - 1), price, mid) /\ 2 ^ (j - 1) \in Nat /\ 2 ^ (j - 1 + 1) = 2 * 2 ^ (j - 1)
  <2>1. j - 1 \in 0 .. 11 /\ j - 1 \in 0 .. 12  BY <1>4
  <2>2. 2 ^ (j - 1 + 1) = 2 * 2 ^ (j - 1)  BY <2>1, Powers, Zenon
  <2>3. 2 ^ (j - 1) \in Nat \ {0}  BY <2>1, Powers, Zenon
  <2> QED  BY <1>4, <2>2, <2>3
<1>6. Wins(isA, 2 ^ (j - 1 + 1), price, mid)
  <2>1. Wins(isA, 2 * 2 ^ (j - 1), price, mid)  BY <1>5, WinDoubles
  <2> QED  BY <1>5, <2>1
<1>7. j - 1 + 1 = j
  BY <1>4
<1> QED  BY <1>2, <1>6, <1>7

-----------------------------------------------------------------------------
(* One round of the bisection.                                             *)

Span == [lo : Nat, hi : Nat]
Widest == [lo |-> 0, hi |-> MaxAtoms]
Halved(isA, price, mid, s) ==
  LET m == (s.lo + s.hi) \div 2
  IN IF s.hi - s.lo <= 1 THEN s
     ELSE IF Wins(isA, m, price, mid) THEN [s EXCEPT !.hi = m]
     ELSE [s EXCEPT !.lo = m]

\* After i rounds, if a fill of 2 ^ l wins: the upper end wins and the lower does
\* not; the lower end stays at nothing until the upper is at that fill.
Closes(isA, price, mid, l, i, s) ==
  /\ s \in Span /\ s.hi - s.lo = 2 ^ (12 - i)
  /\ Wins(isA, s.hi, price, mid) /\ (s.lo > 0 => ~Wins(isA, s.lo, price, mid))
  /\ i <= 12 - l => s.lo = 0
  /\ i >= 12 - l => s.hi <= 2 ^ l

LEMMA HalvedType ==
  ASSUME NEW isA, NEW price, NEW mid, NEW s \in Span
  PROVE  Halved(isA, price, mid, s) \in Span
<1> DEFINE m == (s.lo + s.hi) \div 2
<1>1. s.lo + s.hi \in Nat
  BY DEF Span
<1>2. m \in Nat
  BY <1>1
<1> HIDE DEF m
<1> QED  BY <1>2 DEF Halved, Span, m

LEMMA HalvedCloses ==
  ASSUME FeeCovers, NEW isA \in BOOLEAN, NEW price \in Nat, NEW mid \in Nat,
         NEW l \in 0 .. 12, Wins(isA, 2 ^ l, price, mid),
         NEW i \in 0 .. 11, NEW s, Closes(isA, price, mid, l, i, s)
  PROVE  Closes(isA, price, mid, l, i + 1, Halved(isA, price, mid, s))
<1> DEFINE d == 2 ^ (11 - i)
           m == (s.lo + s.hi) \div 2
           t == Halved(isA, price, mid, s)
<1>1. 11 - i \in 0 .. 11 /\ 11 - i + 1 = 12 - i /\ 12 - (i + 1) = 11 - i
  OBVIOUS
<1>2. d \in Nat \ {0} /\ 2 ^ (12 - i) = 2 * d
  <2>1. 11 - i \in 0 .. 12  BY <1>1
  <2>2. 2 ^ (11 - i + 1) = 2 * 2 ^ (11 - i)  BY <1>1, Powers, Zenon
  <2>3. 2 ^ (11 - i) \in Nat \ {0}  BY <2>1, Powers, Zenon
  <2> QED  BY <1>1, <2>2, <2>3, Zenon
<1>3. s \in Span /\ s.lo \in Nat /\ s.hi = s.lo + 2 * d
  BY <1>2 DEF Closes, Span
<1>4. m = s.lo + d
  <2> HIDE DEF d
  <2> QED  BY <1>2, <1>3
<1>5. ~(s.hi - s.lo <= 1)
  <2> HIDE DEF d, m
  <2> QED  BY <1>2, <1>3
<1>6. t = IF Wins(isA, m, price, mid) THEN [s EXCEPT !.hi = m] ELSE [s EXCEPT !.lo = m]
  BY <1>5 DEF Halved
<1>7. i + 1 <= 12 - l => s.lo = 0 /\ Wins(isA, m, price, mid) /\ (i + 1 = 12 - l => m = 2 ^ l)
  <2> SUFFICES ASSUME i + 1 <= 12 - l
               PROVE  s.lo = 0 /\ Wins(isA, m, price, mid) /\ (i + 1 = 12 - l => m = 2 ^ l)
    OBVIOUS
  <2>1. s.lo = 0  BY DEF Closes
  <2>2. m = d
    <3> HIDE DEF d, m
    <3> QED  BY <1>2, <1>4, <2>1
  <2>3. 11 - i \in l .. 12  OBVIOUS
  <2>4. Wins(isA, d, price, mid)  BY <2>3, WinsAbove
  <2>5. i + 1 = 12 - l => 11 - i = l  OBVIOUS
  <2> HIDE DEF m
  <2> QED  BY <2>1, <2>2, <2>4, <2>5
<1>8. i + 1 > 12 - l => s.hi <= 2 ^ l
  BY DEF Closes
<1>9. 2 ^ l \in Nat
  BY Powers
<1>10. Wins(isA, s.hi, price, mid) /\ (s.lo > 0 => ~Wins(isA, s.lo, price, mid))
  BY DEF Closes
<1>11. 2 ^ (12 - (i + 1)) = d
  BY <1>1
<1> HIDE DEF d, m, t
<1>12. CASE Wins(isA, m, price, mid)
  <2>1. t \in Span /\ t.lo = s.lo /\ t.hi = m
    BY <1>2, <1>3, <1>4, <1>6, <1>12 DEF Span
  <2>2. t.hi - t.lo = d  BY <1>2, <1>3, <1>4, <2>1
  <2>3. i + 1 >= 12 - l => t.hi <= 2 ^ l
    BY <1>2, <1>3, <1>4, <1>7, <1>8, <1>9, <2>1
  <2> QED  BY <1>7, <1>10, <1>11, <1>12, <2>1, <2>2, <2>3 DEF Closes, t
<1>13. CASE ~Wins(isA, m, price, mid)
  <2>1. t \in Span /\ t.lo = m /\ t.hi = s.hi
    BY <1>2, <1>3, <1>4, <1>6, <1>13 DEF Span
  <2>2. t.hi - t.lo = d  BY <1>2, <1>3, <1>4, <2>1
  <2>3. i + 1 >= 12 - l => t.hi <= 2 ^ l
    BY <1>7, <1>8, <1>13, <2>1
  <2> QED  BY <1>7, <1>10, <1>11, <1>13, <2>1, <2>2, <2>3 DEF Closes, t
<1> QED  BY <1>12, <1>13

\* The rounds there are of one bisection.
Rounds(isA, price, mid, k, g) ==
  /\ g \in [0 .. k -> Span] /\ g[0] = Widest
  /\ \A i \in 1 .. k : g[i] = Halved(isA, price, mid, g[i - 1])

LEMMA RoundsExist ==
  ASSUME NEW isA, NEW price, NEW mid, NEW k \in Nat
  PROVE  \E g : Rounds(isA, price, mid, k, g)
<1> DEFINE T == {j \in Nat : ~ \E g : Rounds(isA, price, mid, j, g)}
<1>1. SUFFICES ASSUME T # {} PROVE FALSE
  OBVIOUS
<1>2. PICK j \in T : \A i \in T : j <= i
  <2>1. T \in SUBSET Nat  OBVIOUS
  <2> HIDE DEF T
  <2> QED  BY <1>1, <2>1, LeastNatural
<1>3. j # 0
  <2> SUFFICES \E g : Rounds(isA, price, mid, 0, g)
    BY <1>2
  <2> DEFINE g == [i \in 0 .. 0 |-> Widest]
  <2>1. g \in [0 .. 0 -> Span] /\ g[0] = Widest
    BY DEF Widest, Span, MaxAtoms
  <2> HIDE DEF g
  <2> QED  BY <2>1 DEF Rounds
<1>4. j - 1 \in Nat /\ j - 1 \notin T
  BY <1>2, <1>3
<1>5. PICK g : Rounds(isA, price, mid, j - 1, g)
  BY <1>4
<1> DEFINE n == j - 1
           last == Halved(isA, price, mid, g[n])
           h == [i \in 0 .. j |-> IF i <= n THEN g[i] ELSE last]
<1>6. g \in [0 .. n -> Span] /\ g[0] = Widest /\ \A i \in 1 .. n : g[i] = Halved(isA, price, mid, g[i - 1])
  BY <1>5 DEF Rounds
<1>7. last \in Span
  <2>1. g[n] \in Span  BY <1>4, <1>6
  <2> QED  BY <2>1, HalvedType
<1>8. j \in Nat /\ n \in Nat /\ j = n + 1
  BY <1>4
<1> HIDE DEF n, last
<1>9. h \in [0 .. j -> Span] /\ h[0] = Widest
  BY <1>6, <1>7, <1>8
<1>10. ASSUME NEW i \in 1 .. j PROVE h[i] = Halved(isA, price, mid, h[i - 1])
  <2>1. CASE i \in 1 .. n
    BY <1>6, <1>8, <2>1
  <2>2. CASE i = j
    <3>1. h[i] = last /\ h[i - 1] = g[n]  BY <1>8, <2>2
    <3> QED  BY <3>1 DEF last
  <2> QED  BY <1>8, <2>1, <2>2
<1> HIDE DEF h
<1>11. Rounds(isA, price, mid, j, h)
  BY <1>9, <1>10 DEF Rounds
<1> QED  BY <1>2, <1>11

\* What the bisection returns, if a fill of 2 ^ l wins.
LEMMA Bisected ==
  ASSUME FeeCovers, NEW isA \in BOOLEAN, NEW price \in Nat, NEW mid \in Nat,
         NEW l \in 0 .. 12, Wins(isA, 2 ^ l, price, mid)
  PROVE  Closes(isA, price, mid, l, 12, MinViable(isA, price, mid))
<1> DEFINE Rec(f) ==
             f = [i \in 0 .. 12 |-> IF i = 0 THEN Widest ELSE Halved(isA, price, mid, f[i - 1])]
           Step == CHOOSE f : Rec(f)
<1>1. PICK g : Rounds(isA, price, mid, 12, g)
  BY RoundsExist
<1>2. Rec(g)
  <2>1. g \in [0 .. 12 -> Span] /\ g[0] = Widest
    BY <1>1 DEF Rounds
  <2>2. \A i \in 1 .. 12 : g[i] = Halved(isA, price, mid, g[i - 1])
    BY <1>1 DEF Rounds
  <2>3. \A i \in 0 .. 12 : g[i] = IF i = 0 THEN Widest ELSE Halved(isA, price, mid, g[i - 1])
    BY <2>1, <2>2
  <2> QED  BY <2>1, <2>3
<1>3. Rec(Step)
  BY <1>2
<1>4. MinViable(isA, price, mid) = Step[12]
  BY Zenon DEF MinViable, Halved, Widest
<1> HIDE DEF Step
<1>5. Step[0] = Widest
  BY <1>3
<1>6. ASSUME NEW i \in 1 .. 12 PROVE Step[i] = Halved(isA, price, mid, Step[i - 1])
  BY <1>3
<1> HIDE DEF Rec
<1> DEFINE T == {i \in 0 .. 12 : ~Closes(isA, price, mid, l, i, Step[i])}
<1>7. T = {}
  <2>1. SUFFICES ASSUME T # {} PROVE FALSE
    OBVIOUS
  <2>2. PICK i \in T : \A j \in T : i <= j
    <3>1. T \in SUBSET Nat  OBVIOUS
    <3> HIDE DEF T
    <3> QED  BY <2>1, <3>1, LeastNatural
  <2>3. i # 0
    <3>1. 2 ^ 12 = MaxAtoms /\ 2 ^ (12 - 0) = MaxAtoms  BY DEF MaxAtoms
    <3>2. 12 \in l .. 12  OBVIOUS
    <3>3. Wins(isA, 2 ^ 12, price, mid)  BY <3>2, WinsAbove
    <3>4. Closes(isA, price, mid, l, 0, Widest)
      <4>1. Widest \in Span /\ Widest.lo = 0 /\ Widest.hi = MaxAtoms /\ MaxAtoms \in Nat
        BY DEF Widest, Span, MaxAtoms
      <4>2. 0 >= 12 - l => l = 12  OBVIOUS
      <4>3. 0 >= 12 - l => MaxAtoms <= 2 ^ l  BY <3>1, <4>1, <4>2
      <4>4. Wins(isA, Widest.hi, price, mid)  BY <3>1, <3>3, <4>1
      <4>5. Widest.hi - Widest.lo = 2 ^ (12 - 0)  BY <3>1, <4>1
      <4> QED  BY <4>1, <4>3, <4>4, <4>5 DEF Closes
    <3> QED  BY <1>5, <2>2, <3>4
  <2>4. i - 1 \in 0 .. 11 /\ i - 1 \notin T /\ i - 1 + 1 = i /\ i \in 1 .. 12 /\ i - 1 \in 0 .. 12
    BY <2>2, <2>3
  <2>5. Closes(isA, price, mid, l, i - 1, Step[i - 1])
    BY <2>4
  <2>6. Closes(isA, price, mid, l, i - 1 + 1, Halved(isA, price, mid, Step[i - 1]))
    BY <2>4, <2>5, HalvedCloses
  <2> QED  BY <1>6, <2>2, <2>4, <2>6
<1>8. 12 \in 0 .. 12
  OBVIOUS
<1> QED  BY <1>4, <1>7, <1>8

-----------------------------------------------------------------------------
(* Offers that rest are wins at their full size.                           *)

\* Two prices at least make a mean of one at least.
LEMMA MeansPositive == Means \subseteq Nat \ {0}
<1> SUFFICES ASSUME NEW got \in Answers, Agree(got)
             PROVE  Total(got) \div Cardinality(DOMAIN got) \in Nat \ {0}
  BY DEF Means
<1>1. PICK S \in SUBSET (1 .. 3) : got \in [S -> Mids]  BY DEF Answers
<1>2. IsFiniteSet(1 .. 3) /\ Cardinality(1 .. 3) = 3
  <2>1. 1 \in Int /\ 3 \in Int /\ ~(1 > 3) /\ 3 - 1 + 1 = 3  OBVIOUS
  <2> QED  BY <2>1, FS_Interval
<1>3. DOMAIN got = S /\ Cardinality(S) >= 2 /\ Cardinality(S) \in Nat
  <2>1. IsFiniteSet(S)  BY <1>2, FS_Subset
  <2> QED  BY <1>1, <2>1, FS_CardinalityType DEF Agree
<1> DEFINE of(i) == IF i \in S THEN got[i] ELSE 0
<1>4. \A i \in 1 .. 3 : of(i) \in Nat /\ (i \in S => of(i) >= 1)
  <2>1. Mids \subseteq Nat \ {0}  BY MarketAssumption, SMTT(30)
  <2> SUFFICES ASSUME NEW i \in 1 .. 3 PROVE of(i) \in Nat /\ (i \in S => of(i) >= 1)
    OBVIOUS
  <2>2. CASE i \in S
    <3>1. got[i] \in Mids  BY <1>1, <2>2
    <3>2. got[i] \in Nat \ {0}  BY <2>1, <3>1
    <3>3. of(i) = got[i]  BY <2>2
    <3> HIDE DEF of
    <3> QED  BY <3>2, <3>3
  <2>3. CASE i \notin S
    <3>1. of(i) = 0  BY <2>3
    <3> HIDE DEF of
    <3> QED  BY <2>3, <3>1
  <2> QED  BY <2>2, <2>3
<1>5. Total(got) = of(1) + of(2) + of(3)
  BY <1>3 DEF Total
<1> HIDE DEF of
<1>6. Total(got) \in Nat /\ Total(got) >= Cardinality(S)
  <2>0. of(1) \in Nat /\ of(2) \in Nat /\ of(3) \in Nat  BY <1>4
  <2>1. CASE S = 1 .. 3
    <3>1. of(1) >= 1 /\ of(2) >= 1 /\ of(3) >= 1  BY <1>4, <2>1
    <3> QED  BY <1>2, <1>5, <2>0, <2>1, <3>1
  <2>2. ASSUME NEW i \in 1 .. 3, i \notin S PROVE Total(got) >= Cardinality(S)
    <3> DEFINE R == (1 .. 3) \ {i}
    <3>1. IsFiniteSet(R) /\ Cardinality(R) = 2
      <4>1. Cardinality(R) = Cardinality(1 .. 3) - 1 /\ IsFiniteSet(R)  BY <1>2, FS_RemoveElement
      <4> QED  BY <1>2, <4>1
    <3>2. S \subseteq R  BY <2>2
    <3> HIDE DEF R
    <3>3. Cardinality(S) <= Cardinality(R) /\ (Cardinality(S) = Cardinality(R) => S = R)
      BY <3>1, <3>2, FS_Subset
    <3>4. S = R /\ Cardinality(S) = 2  BY <1>3, <3>1, <3>3
    <3>5. \A j \in 1 .. 3 : j # i => of(j) >= 1  BY <1>4, <3>4 DEF R
    <3> QED  BY <1>5, <2>0, <3>4, <3>5
  <2>3. Total(got) >= Cardinality(S)
    <3>1. CASE \A i \in 1 .. 3 : i \in S
      <4>1. S = 1 .. 3  BY <1>1, <3>1
      <4> QED  BY <2>1, <4>1
    <3>2. CASE \E i \in 1 .. 3 : i \notin S
      BY <2>2, <3>2
    <3> QED  BY <3>1, <3>2
  <2>4. Total(got) \in Nat  BY <1>5, <2>0
  <2> QED  BY <2>3, <2>4
<1>7. ASSUME NEW a \in Nat, NEW b \in Nat \ {0}, a >= b PROVE a \div b \in Nat \ {0}
  BY <1>7
<1> QED  BY <1>3, <1>6, <1>7

\* A price that is one is positive.
Priced(q) == q.ok => q.mid \in Nat \ {0}

\* What an offer says of its full size is so.
Worth(o) ==
  /\ o.log2 \in 0 .. 12 /\ o.price \in Nat /\ o.mid \in Nat
  /\ Wins(RoleIsA, 2 ^ o.log2, o.price, o.mid)

VInv == side \in {0, 1} /\ Priced(cache) /\ Priced(pr) /\ (Rests => Worth(offer))

LEMMA ReadingPositive ==
  ASSUME Priced(cache), NEW q, Reading(q)
  PROVE  Priced(q) /\ Priced(cache)'
<1>1. CASE q = cache /\ UNCHANGED cache
  BY <1>1 DEF Priced
<1>2. CASE q \in Fetched(now') /\ cache' = q
  BY <1>2, MeansPositive DEF Fetched, Priced
<1>3. CASE q = Fallback(now') /\ UNCHANGED cache
  BY <1>3 DEF Fallback, None, Priced
<1> QED  BY <1>1, <1>2, <1>3 DEF Reading

\* With no more than half taken off, something is asked.
LEMMA AskPositive ==
  ASSUME Bps \subseteq 1 .. 5000, NEW mid \in Nat \ {0}, NEW bps \in Bps
  PROVE  Ask(mid, bps) \in Nat \ {0}
<1>1. bps \in 1 .. 5000
  OBVIOUS
<1> DEFINE k == IF side = 0 THEN 10000 + bps ELSE 10000 - bps
<1>2. k \in Nat /\ k >= 5000
  BY <1>1
<1> HIDE DEF k
<1>3. mid * k \in Nat /\ mid * k >= k
  BY <1>2
<1>4. ASSUME NEW a \in Nat, a >= 10000 PROVE a \div 10000 \in Nat \ {0}
  BY <1>4
<1>5. mid * k + 5000 \in Nat /\ mid * k + 5000 >= 10000
  BY <1>2, <1>3
<1>6. Ask(mid, bps) = (mid * k + 5000) \div 10000
  BY DEF Ask, k
<1> QED  BY <1>4, <1>5, <1>6

\* A size is within the scale.
LEMMA LogType ==
  ASSUME NEW n \in Nat \ {0}
  PROVE  Log2(n) \in 0 .. 12
<1> DEFINE S == {l \in 0 .. 12 : 2 ^ l <= n}
<1>1. 2 ^ 0 = 1  OBVIOUS
<1>2. 0 \in 0 .. 12 /\ 1 <= n  OBVIOUS
<1>3. 0 \in S  BY <1>1, <1>2
<1>4. S \in SUBSET (0 .. 12) /\ S # {}  BY <1>3
<1>5. Log2(n) = Max(S)  BY DEF Log2
<1> HIDE DEF S
<1>6. Max(S) \in S  BY <1>4, MaxIn
<1> QED  BY <1>4, <1>5, <1>6

LEMMA BpsType ==
  ASSUME NEW isA \in BOOLEAN, NEW n \in Nat, NEW price \in Nat, NEW mid \in Nat
  PROVE  Profit(isA, n, price, mid).bps \in Int
<1> DEFINE p == Profit(isA, n, price, mid)
<1>1. p.net \in Int /\ p.outlay \in Nat /\ p.bps = BpsOf(p.net, p.outlay)
  BY ProfitType
<1> HIDE DEF p
<1>2. ASSUME NEW a \in Int, NEW b \in Nat \ {0} PROVE Quot(a, b) \in Int
  <2>1. CASE a >= 0
    <3>1. a \div b \in Nat  BY <2>1, DivMonotone
    <3> QED  BY <2>1, <3>1 DEF Quot
  <2>2. CASE ~(a >= 0)
    <3>1. -a \in Nat  BY <2>2
    <3>2. (-a) \div b \in Nat  BY <3>1, DivMonotone
    <3> QED  BY <2>2, <3>2 DEF Quot
  <2> QED  BY <2>1, <2>2
<1>3. BpsOf(p.net, p.outlay) \in Int
  <2>1. CASE p.outlay > 0
    <3>1. p.net * 10000 \in Int  BY <1>1
    <3>2. Quot(p.net * 10000, p.outlay) \in Int  BY <1>1, <1>2, <2>1, <3>1
    <3> QED  BY <2>1, <3>2 DEF BpsOf
  <2>2. CASE ~(p.outlay > 0)
    BY <2>2 DEF BpsOf
  <2> QED  BY <2>1, <2>2
<1> QED  BY <1>1, <1>3 DEF p

LEMMA PostedWorth ==
  ASSUME Bps \subseteq 1 .. 5000, side \in {0, 1}, Priced(pr),
         NEW bps \in Bps, NEW balance \in Balances, NEW t
  PROVE  Posted(bps, balance, t) = NoOffer \/ Worth(Posted(bps, balance, t))
<1> DEFINE o == Posted(bps, balance, t)
           ask == Ask(pr.mid, bps)
           wanted == Fundable(balance, ask)
<1>1. CASE wanted > 0 /\ Vouched(pr, t) /\ Profit(RoleIsA, 2 ^ Log2(wanted), ask, pr.mid).bps >= MinBps
  <2>1. pr.mid \in Nat \ {0}  BY <1>1 DEF Vouched, Priced
  <2>2. ask \in Nat \ {0}  BY <2>1, AskPositive
  <2>3. wanted \in Nat \ {0}
    <3>1. balance \in Nat
      <4>1. Balances \subseteq Nat  BY MarketAssumption, SMTT(30)
      <4> QED  BY <4>1
    <3>2. Unit \in Nat  BY MarketAssumption
    <3> HIDE DEF ask, wanted
    <3> DEFINE x == balance * Unit
    <3>3. x \in Nat  BY <3>1, <3>2
    <3> HIDE DEF x
    <3>4. x \div ask \in Nat  BY <2>2, <3>3
    <3>5. wanted \in Nat  BY <3>1, <3>4 DEF Fundable, wanted, x
    <3> QED  BY <1>1, <3>5
  <2>4. Log2(wanted) \in 0 .. 12
    <3> HIDE DEF wanted
    <3> QED  BY <2>3, LogType
  <2> HIDE DEF ask, wanted
  <2>5. o.log2 = Log2(wanted) /\ o.price = ask /\ o.mid = pr.mid
    BY <1>1 DEF Posted, ask, wanted
  <2> HIDE DEF o
  <2>6. Worth(o)
    BY <1>1, <2>1, <2>2, <2>4, <2>5 DEF Worth, Wins
  <2> QED  BY <2>6 DEF o
<1>2. CASE ~(wanted > 0 /\ Vouched(pr, t) /\ Profit(RoleIsA, 2 ^ Log2(wanted), ask, pr.mid).bps >= MinBps)
  <2>1. o = NoOffer
    BY <1>2 DEF Posted
  <2> QED  BY <2>1
<1> QED  BY <1>1, <1>2

\* What the bisection ends with is told of an offer of 2 ^ l.
Told(isA, price, mid, l) ==
  LET v == MinViable(isA, price, mid)
  IN /\ v.hi = v.lo + 1 /\ v.hi <= 2 ^ l
     /\ Profit(isA, v.hi, price, mid).bps >= MinBps
     /\ v.lo > 0 => Profit(isA, v.lo, price, mid).bps < MinBps

LEMMA ToldIsSmallest ==
  ASSUME FeeCovers, NEW isA \in BOOLEAN, NEW price \in Nat, NEW mid \in Nat,
         NEW l \in 0 .. 12, Wins(isA, 2 ^ l, price, mid)
  PROVE  Told(isA, price, mid, l)
<1> DEFINE v == MinViable(isA, price, mid)
<1>1. Closes(isA, price, mid, l, 12, v)
  BY Bisected
<1>2. 2 ^ (12 - 12) = 1 /\ (12 >= 12 - l)
  OBVIOUS
<1> HIDE DEF v
<1>3. /\ v.lo \in Nat /\ v.hi \in Nat /\ v.hi - v.lo = 1 /\ v.hi <= 2 ^ l
      /\ Wins(isA, v.hi, price, mid)
      /\ v.lo > 0 => ~Wins(isA, v.lo, price, mid)
  BY <1>1, <1>2 DEF Closes, Span
<1>4. ASSUME v.lo > 0 PROVE Profit(isA, v.lo, price, mid).bps < MinBps
  <2> DEFINE b == Profit(isA, v.lo, price, mid).bps
  <2>1. b \in Int  BY <1>3, BpsType
  <2>2. ~(b >= MinBps)  BY <1>3, <1>4 DEF Wins
  <2>3. MinBps \in Nat  BY MarketAssumption
  <2> HIDE DEF b
  <2>4. b < MinBps  BY <2>1, <2>2, <2>3
  <2> QED  BY <2>4 DEF b
<1>5. v.hi = v.lo + 1
  BY <1>3
<1>6. Profit(isA, v.hi, price, mid).bps >= MinBps
  BY <1>3 DEF Wins
<1> QED  BY <1>3, <1>4, <1>5, <1>6 DEF Told, v

LEMMA StepVInv ==
  ASSUME Bps \subseteq 1 .. 5000, VInv, [Next]_vars
  PROVE  VInv'
<1>1. UNCHANGED side
  BY DEF Next, Tick, Post, Status, Accept, Gate, Over, Pass, vars
<1>2. Priced(cache)'
  <2>1. CASE UNCHANGED cache  BY <2>1 DEF VInv, Priced
  <2>2. CASE \E q : Reading(q)  BY <2>2, ReadingPositive DEF VInv
  <2> QED  BY <2>1, <2>2 DEF Next, Tick, Post, Status, Accept, Gate, Over, Pass, vars
<1>3. Priced(pr)'
  <2>1. CASE UNCHANGED pr  BY <2>1 DEF VInv, Priced
  <2>2. CASE Tick
    <3>1. PICK q \in Readings : Reading(q) /\ pr' = q  BY <2>2 DEF Tick
    <3> QED  BY <3>1, ReadingPositive DEF VInv, Priced
  <2> QED  BY <2>1, <2>2 DEF Next, Post, Status, Accept, Gate, Over, Pass, vars
<1>4. \/ UNCHANGED offer
      \/ offer' = NoOffer
      \/ \E bps \in Bps, balance \in Balances : \E t : offer' = Posted(bps, balance, t)
  BY DEF Next, Tick, Post, Status, Accept, Gate, Over, Pass, vars
<1>5. (Rests => Worth(offer))'
  <2>1. RoleIsA' = RoleIsA  BY <1>1 DEF RoleIsA
  <2>2. CASE UNCHANGED offer
    BY <2>1, <2>2 DEF VInv, Rests, Worth
  <2>3. CASE offer' = NoOffer
    BY <2>3 DEF Rests
  <2>4. ASSUME NEW bps \in Bps, NEW balance \in Balances, NEW t, offer' = Posted(bps, balance, t)
        PROVE  (Rests => Worth(offer))'
    <3>1. offer' = NoOffer \/ Worth(Posted(bps, balance, t))  BY <2>4, PostedWorth DEF VInv
    <3> QED  BY <2>1, <2>4, <3>1 DEF Rests, Worth
  <2> QED  BY <1>4, <2>2, <2>3, <2>4
<1> QED  BY <1>1, <1>2, <1>3, <1>5 DEF VInv

LEMMA TellsSmallest ==
  ASSUME FeeCovers, VInv, Rests
  PROVE  Viable
<1>1. /\ offer.log2 \in 0 .. 12 /\ offer.price \in Nat /\ offer.mid \in Nat
      /\ Wins(RoleIsA, 2 ^ offer.log2, offer.price, offer.mid)
  BY DEF VInv, Worth
<1>2. RoleIsA \in BOOLEAN
  BY DEF RoleIsA
<1>3. Told(RoleIsA, offer.price, offer.mid, offer.log2)
  BY <1>1, <1>2, ToldIsSmallest
<1> QED  BY <1>3 DEF Viable, Told

\* The fill a taker is told is the smallest is a win within the offer, and an atom
\* less is not, although profits drop fractions and do not grow with every atom:
\* whatever the prices, if no more than half is taken off and the fee makes up
\* for a fraction (the code takes off five per cent at most).
THEOREM SmallestIsWin ==
  ASSUME FeeCovers, Bps \subseteq 1 .. 5000
  PROVE  Spec => []Viable
<1>1. Init => VInv
  <2>1. Sides \subseteq {0, 1}  BY Sorts
  <2> QED  BY <2>1 DEF Init, VInv, None, Priced, Rests
<1>2. ASSUME VInv, Rests PROVE Viable
  BY <1>2, TellsSmallest
<1>3. VInv => Viable
  BY <1>2 DEF Viable
<1> QED  BY <1>1, <1>3, StepVInv, PTL DEF Spec
=============================================================================
