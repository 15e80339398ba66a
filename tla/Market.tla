------------------------------- MODULE Market -------------------------------
(***************************************************************************)
(* What an unattended maker decides by price (certification in             *)
(* web/two_party.js, oracle, quotes and sizes in xnoxmr.cjs): the mid its   *)
(* sources agree on, the offer it rests, the take it accepts and the gates  *)
(* before the steps it cannot undo.  Amounts are integers as in the code,   *)
(* at a smaller scale: XNO and XMR are counted in atoms and a price of      *)
(* Unit is one XMR atom for one XNO atom.                                  *)
(*                                                                         *)
(* side    0: the maker sells XNO and is A, 1: it sells XMR and is B       *)
(* now     the clock, in quarters of a minute                              *)
(* cache   __midCache: the last good reading and when it was made          *)
(* pr      the price object the running code holds                         *)
(* offer   the resting offer as the state file has it, and what could fund  *)
(*         it when it was posted                                           *)
(* deal    the accepted take: its size, the certificate it was accepted on  *)
(* stage   how far the deal is: none, accepted, committed (B locked, A      *)
(*         pre-signed), off (declined or refunded)                         *)
(* cert    the certificate of the last thing done                          *)
(***************************************************************************)
EXTENDS Integers, Sequences, FiniteSets, FiniteSetsExt

CONSTANTS
    Sides,      \* of the agents looked at
    Unit,       \* a price of one, in the unit of price_e9
    Mids,       \* what a source may answer
    Fee,        \* XMR_TX_FEE_ATOMIC_DEFAULT
    Bps,        \* what quoteBps may ask for
    MinBps,     \* MIN_ACCEPT_BPS
    MaxLoss,    \* maxUnrealizedLossBps
    Balances,   \* spendable atoms of the coin the maker sells
    Ttl,        \* OFFER_TTL_SECS
    Horizon     \* bound: the clock stops here

ASSUME MarketAssumption ==
    /\ Sides \subseteq {0, 1} /\ Unit \in Nat \ {0} /\ Fee \in Nat
    /\ Mids \subseteq Nat \ {0} /\ Bps \subseteq 1 .. 9999 /\ Balances \subseteq Nat
    /\ MinBps \in Nat \ {0} /\ MaxLoss \in Nat /\ Ttl \in Nat /\ Horizon \in Nat

VARIABLES side, now, cache, pr, offer, deal, stage, cert

vars == <<side, now, cache, pr, offer, deal, stage, cert>>

CacheAge == 3   \* 45 s
StaleAge == 4   \* 60 s: the oracle's fallback and certify's limit
FetchTime == 2  \* three fetches one after the other, of 8 s at most each
RetryTime == 6  \* three such rounds, with pauses of 3 s and 8 s between
MaxAtoms == 4096
RoleIsA == side = 0

-----------------------------------------------------------------------------
(* Arithmetic: BigInt division drops the fraction, whatever the sign.      *)

Quot(a, b) == IF a >= 0 THEN a \div b ELSE -((-a) \div b)
BpsOf(a, b) == IF b > 0 THEN Quot(a * 10000, b) ELSE 0

\* dealFromOffer, makerValidateDeal: what the taker pays for n XNO atoms.
XmrFor(n, price) == (n * price) \div Unit

\* partyProfit of a fill of n at a price, valued at a mid.
Profit(isA, n, price, mid) ==
    LET xmr == XmrFor(n, price)
        value == (n * mid) \div Unit
        gross == IF isA THEN xmr - value ELSE value - xmr
        outlay == IF isA THEN value ELSE xmr
    IN [net |-> gross - Fee, outlay |-> outlay, bps |-> BpsOf(gross - Fee, outlay)]

\* minViableXnoRaw: bisection between nothing and the largest fill looked at.
WinsBeforeFee(isA, n, price, mid) ==
    BpsOf(Profit(isA, n, price, mid).net + Fee, Profit(isA, n, price, mid).outlay) >= MinBps
Wins(isA, n, price, mid) == Profit(isA, n, price, mid).bps >= MinBps
MinViable(isA, price, mid) ==
    LET Step[i \in 0 .. 12] ==
            IF i = 0 THEN [lo |-> 0, hi |-> MaxAtoms]
            ELSE LET s == Step[i - 1]
                     m == (s.lo + s.hi) \div 2
                 IN IF s.hi - s.lo <= 1 THEN s
                    ELSE IF Wins(isA, m, price, mid) THEN [s EXCEPT !.hi = m]
                    ELSE [s EXCEPT !.lo = m]
    IN Step[12]

-----------------------------------------------------------------------------
(* The oracle.                                                             *)

None == [ok |-> FALSE, mid |-> 0, at |-> 0, born |-> 0]

\* marketPriceOnce over the sources that answered something sane: two at least,
\* and within six per cent of one another.
Answers == UNION {[S -> Mids] : S \in SUBSET (1 .. 3)}
Total(got) == LET of(i) == IF i \in DOMAIN got THEN got[i] ELSE 0
              IN of(1) + of(2) + of(3)
Agree(got) ==
    LET vals == {got[i] : i \in DOMAIN got}
    IN /\ Cardinality(DOMAIN got) >= 2
       /\ (Max(vals) - Min(vals)) * 100 * Cardinality(DOMAIN got) <= 6 * Total(got)
Means == {Total(got) \div Cardinality(DOMAIN got) : got \in {g \in Answers : Agree(g)}}

\* The three sources are asked one after the other and `at` is the time of the
\* last answer; `born`, when the first was given, is kept for the properties.
Fetched(t) ==
    {[ok |-> TRUE, mid |-> mean, at |-> t, born |-> first] :
        mean \in Means, first \in {u \in now .. t : t - u <= FetchTime}}

\* marketPrice: the cache while it is young, else a fetch, tried three times;
\* when every try fails, the cache again if by then it is not too old.
FallbackRestamped(t) ==
    IF cache.ok /\ t - cache.at < StaleAge THEN [cache EXCEPT !.at = t] ELSE None
Fallback(t) == IF cache.ok /\ t - cache.at < StaleAge THEN cache ELSE None
Cached == cache.ok /\ now - cache.at < CacheAge
Later == (now .. now + RetryTime) \cap (0 .. Horizon)
Reading(res) ==
    \/ Cached /\ res = cache /\ UNCHANGED <<now, cache>>
    \/ ~Cached /\ now' \in Later /\ res \in Fetched(now') /\ cache' = res
    \/ ~Cached /\ now' \in Later /\ res = Fallback(now') /\ UNCHANGED cache

\* What marketPrice may return in this state.
Readings ==
    IF Cached THEN {cache} ELSE UNION {{Fallback(t)} \cup Fetched(t) : t \in Later}

-----------------------------------------------------------------------------
(* certify.                                                                *)

Certificate(did, n, price, q, t) ==
    LET p == Profit(RoleIsA, n, price, q.mid)
    IN [did |-> did, net |-> p.net, outlay |-> p.outlay, bps |-> p.bps, mid |-> q.mid, at |-> t,
        born |-> q.born]

\* At time t, with a price object q: one there is, and young enough.
Vouched(q, t) == q.ok /\ t - q.at <= StaleAge

\* The unrealised loss since the baseline, on the outlay of now.
Kept(c, base) == BpsOf(c.net - base.net, c.outlay) >= -MaxLoss

-----------------------------------------------------------------------------
(* Sizes and quotes.                                                       *)

\* fundableXno: XNO is counted as it is, XMR at the asking price.
Fundable(balance, ask) == IF side = 0 THEN balance ELSE (balance * Unit) \div ask

\* quantizeSize: "quantised DOWN to 2^size_log2".
Log2Up(n) == Min({l \in 0 .. 13 : 2 ^ l >= n})
Log2(n) == Max({l \in 0 .. 12 : 2 ^ l <= n})

\* maxXnoRawOf: the exponent read as XNO on side 0, as XMR on side 1.
MaxXno(o) == IF side = 0 THEN 2 ^ o.log2 ELSE (2 ^ o.log2 * Unit) \div o.price

Ask(mid, bps) == (mid * (IF side = 0 THEN 10000 + bps ELSE 10000 - bps) + 5000) \div 10000

-----------------------------------------------------------------------------
NoOffer == [log2 |-> 0, price |-> 0, mid |-> 0, bps |-> 0, net |-> 0, fund |-> 0, at |-> 0]
NoDeal == [n |-> 0, price |-> 0, net |-> 0, outlay |-> 0]
NoCert == [did |-> "none", net |-> 0, outlay |-> 0, bps |-> 0, mid |-> 0,
           at |-> 0, born |-> 0]

Prices == [ok : BOOLEAN, mid : Nat, at : 0 .. Horizon, born : 0 .. Horizon]

TypeOK ==
    /\ side \in Sides
    /\ now \in 0 .. Horizon
    /\ cache \in Prices /\ pr \in Prices
    /\ offer \in [log2 : 0 .. 12, price : Nat, mid : Nat, bps : Bps \cup {0}, net : Int,
                  fund : Nat, at : 0 .. Horizon]
    /\ deal \in [n : Nat, price : Nat, net : Int, outlay : Nat]
    /\ stage \in {"none", "accepted", "committed", "off"}
    /\ (stage = "none") = (deal = NoDeal)
    /\ cert \in [did : {"none", "accept", "commit"}, net : Int, outlay : Nat, bps : Int,
                 mid : Nat, at : 0 .. Horizon, born : 0 .. Horizon]

Init ==
    /\ side \in Sides
    /\ now = 0
    /\ cache = None /\ pr = None
    /\ offer = NoOffer
    /\ deal = NoDeal
    /\ stage = "none"
    /\ cert = NoCert

Rests == offer # NoOffer

\* A tick reads the price it will answer takes and post with.  With none, the
\* offer is pulled, or kept for a request that waits.
Tick ==
    /\ stage = "none"
    /\ \E res \in Readings :
         /\ Reading(res)
         /\ pr' = res
         /\ \/ UNCHANGED offer
            \/ ~res.ok /\ offer' = NoOffer
    /\ UNCHANGED <<side, deal, stage, cert>>

\* publishPost: no more than can be funded, quantised, and a certified win when
\* all of it is taken; any other outcome leaves no offer.
Posted(bps, balance, t) ==
    LET ask == Ask(pr.mid, bps)
        wanted == Fundable(balance, ask)
        l == Log2(wanted)
        p == Profit(RoleIsA, 2 ^ l, ask, pr.mid)
    IN IF wanted > 0 /\ Vouched(pr, t) /\ p.bps >= MinBps
       THEN [log2 |-> l, price |-> ask, mid |-> pr.mid, bps |-> bps, net |-> p.net,
             fund |-> wanted, at |-> t]
       ELSE NoOffer

Post ==
    /\ stage = "none" /\ pr.ok /\ ~Rests
    /\ \E bps \in Bps, balance \in Balances : offer' = Posted(bps, balance, now)
    /\ UNCHANGED <<side, now, cache, pr, deal, stage, cert>>

\* offerStatus with a reading of its own, then what its verdict orders: HOLD,
\* WITHDRAW, or REPOST and REPRICE, which withdraw and post anew.
Drifted(q) ==
    LET d == q.mid - offer.mid
    IN (IF d < 0 THEN -d ELSE d) * 100000 >= Max({250, 4 * offer.bps}) * offer.mid

StillWins(q, t) ==
    LET c == Certificate("none", 2 ^ offer.log2, offer.price, q, t)
    IN Vouched(q, t) /\ Kept(c, offer) /\ c.bps >= MinBps

Verdict(q, t) ==
    IF ~q.ok THEN "WITHDRAW"
    ELSE IF t - offer.at > Ttl THEN "REPOST"
    ELSE IF ~StillWins(q, t) THEN "WITHDRAW"
    ELSE IF Drifted(q) THEN "REPRICE"
    ELSE "HOLD"

Status ==
    /\ stage = "none" /\ pr.ok /\ Rests
    /\ \E q \in Readings :
         /\ Reading(q)
         /\ \/ Verdict(q, now') = "HOLD" /\ UNCHANGED offer
            \/ Verdict(q, now') = "WITHDRAW" /\ offer' = NoOffer
            \/ /\ Verdict(q, now') \in {"REPOST", "REPRICE"}
               /\ \E bps \in Bps, balance \in Balances : offer' = Posted(bps, balance, now')
    /\ UNCHANGED <<side, pr, deal, stage, cert>>

\* handleTake and makerPollTake: the size within the offer, the certificate at
\* the price the tick read.
Fills == {MaxXno(offer), MaxXno(offer) \div 2, MinViable(RoleIsA, offer.price, pr.mid).hi}
Accept ==
    /\ stage = "none" /\ Rests
    /\ \E n \in Fills :
         LET c == Certificate("accept", n, offer.price, pr, now)
         IN /\ n \in 1 .. MaxXno(offer) /\ XmrFor(n, offer.price) > 0
            /\ Vouched(pr, now) /\ c.bps >= MinBps
            /\ deal' = [n |-> n, price |-> offer.price, net |-> c.net, outlay |-> c.outlay]
            /\ cert' = c
    /\ stage' = "accepted"
    /\ UNCHANGED <<side, now, cache, pr, offer>>

\* gate, while waiting and before the step that cannot be undone: against the
\* certificate of the acceptance, with no floor of its own.
GateRebased ==
    /\ stage = "accepted"
    /\ \E q \in Readings :
         LET c == Certificate("commit", deal.n, deal.price, q, now')
         IN /\ Reading(q)
            /\ IF Vouched(q, now') /\ Kept(c, deal)
               THEN /\ deal' = [deal EXCEPT !.net = c.net, !.outlay = c.outlay]
                    /\ \/ UNCHANGED <<stage, cert>>
                       \/ stage' = "committed" /\ cert' = c
               ELSE stage' = "off" /\ UNCHANGED <<cert, deal>>
    /\ UNCHANGED <<side, pr, offer>>

Gate ==
    /\ stage = "accepted"
    /\ \E q \in Readings :
         LET c == Certificate("commit", deal.n, deal.price, q, now')
         IN /\ Reading(q)
            /\ IF Vouched(q, now') /\ Kept(c, deal)
               THEN \/ UNCHANGED <<stage, cert>>
                    \/ stage' = "committed" /\ cert' = c
               ELSE stage' = "off" /\ UNCHANGED cert
    /\ UNCHANGED <<side, pr, offer, deal>>

\* The settlement is over; the agent goes on.
Over ==
    /\ stage \in {"committed", "off"}
    /\ stage' = "none" /\ deal' = NoDeal /\ cert' = NoCert /\ offer' = NoOffer
    /\ UNCHANGED <<side, now, cache, pr>>

Pass ==
    /\ now < Horizon /\ now' = now + 1
    /\ UNCHANGED <<side, cache, pr, offer, deal, stage, cert>>

Next == Tick \/ Post \/ Status \/ Accept \/ Gate \/ Over \/ Pass

Spec == Init /\ [][Next]_vars

-----------------------------------------------------------------------------
(* Properties.                                                             *)

\* Whatever is accepted or committed, through the cache, its stale fallback and
\* a tick that takes its time, is certified on answers that were no more than a
\* minute old when the last of them came: not "nothing older than its 60 s gate",
\* since the stamp of a reading leaves out how long its sources took.
FreshMid ==
    cert.did # "none" => cert.at - cert.born <= StaleAge + FetchTime

\* Two certificates bound what a maker can lose: a win of MinBps when it
\* accepted, less MaxLoss (and the fraction a division drops) since.
WorstNet ==
    stage = "committed" =>
        cert.net * 10000 >= MinBps * deal.outlay - (MaxLoss + 1) * cert.outlay

\* The smallest fill a taker is told is a win for the maker, and one atom less
\* is not; a resting offer always has one within its size ("fills below ... will
\* be declined").
Viable ==
    LET v == MinViable(RoleIsA, offer.price, offer.mid)
        bps(n) == Profit(RoleIsA, n, offer.price, offer.mid).bps
    IN Rests => /\ v.hi = v.lo + 1 /\ v.hi <= 2 ^ offer.log2
                /\ bps(v.hi) >= MinBps
                /\ v.lo > 0 => bps(v.lo) < MinBps

Backed(o) == MaxXno(o) <= o.fund

\* A seller of XNO never accepts a fill larger than its wallet could fund when it
\* posted ("never advertise liquidity the wallet cannot actually fund").
Covered == Rests /\ side = 0 => Backed(offer)

\* The same for a seller of either coin: "exactly as the app" it reads the size
\* it wrote in XNO as one in XMR when it sells XMR.
NeverPhantom == Rests => Backed(offer)
=============================================================================
