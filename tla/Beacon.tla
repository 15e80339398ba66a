------------------------------ MODULE Beacon --------------------------------
(***************************************************************************)
(* The order book on the ledger (web/beacon.js): a maker publishes offers   *)
(* and cancels as sends from its account to the namespace of the epoch, a    *)
(* taker's scan keeps the newest of each maker and shows it while it is      *)
(* young.  The maker's account is also the one its ledger mail is posted     *)
(* from and its wallet pays and receives with (web/wallet.js,                *)
(* web/headless_wallet.js).                                                 *)
(*                                                                         *)
(* now    time                                                              *)
(* pub    publish, or the wallet's send or receive: where it stands, what it  *)
(*        is, the namespace chosen, the head it signs on                     *)
(* ids    how many of them there were                                        *)
(* rests  the offer the maker's state file says rests on the book, 0: none   *)
(***************************************************************************)
EXTENDS LedgerMail, Integers

CONSTANTS
    Epoch,      \* BEACON_EPOCH_SECS
    Ttl,        \* the age limit scanLive is given
    Skew,       \* how far ahead the maker's clock is
    Clocks,     \* how far ahead the clocks of takers are
    MaxPosts,   \* bound: intents published
    Horizon     \* bound: time stops here

ASSUME BeaconAssumption ==
    /\ Epoch \in Nat \ {0} /\ Ttl \in Nat /\ Skew \in Nat /\ Clocks \subseteq Nat
    /\ MaxPosts \in Nat /\ Horizon \in Nat

VARIABLES now, pub, ids, rests

beaconVars == <<now, pub, ids, rests>>
vars == <<nanoVars, mail, beaconVars>>

Kinds == {"offer", "cancel", "pay", "pocket"}
PubPcs == {"idle", "read", "pocket", "work"}
Idle == [pc |-> "idle", k |-> "offer", made |-> 0, on |-> NoHead]

Entries == [k : {"chunk", "receive", "drain"} \cup Kinds, id : 0 .. MaxPosts + Total,
            made : 0 .. Horizon + Skew, at : 0 .. Horizon, sound : BOOLEAN]
Heads == [head : Seq(Entries), sound : BOOLEAN]

TypeOK ==
    /\ windows \in AllWindows
    /\ view \in [Honest -> Seq(Entries)] /\ conf \in Seq(Entries)
    /\ mail \in [pc : MailPcs, idx : 0 .. Total, on : Heads, refreshes : 0 .. Refreshes,
                 rounds : 0 .. Rounds - 1]
    /\ now \in 0 .. Horizon
    /\ pub \in [pc : PubPcs, k : Kinds, made : 0 .. Horizon + Skew, on : Heads]
    /\ ids \in 0 .. MaxPosts /\ rests \in 0 .. ids

Init ==
    /\ NanoInit /\ MailInit
    /\ now = 0 /\ pub = Idle /\ ids = 0 /\ rests = 0

-----------------------------------------------------------------------------
(* The maker.                                                              *)

EpochOf(t) == t \div Epoch
Alone == "overlap" \in windows \/ (~MailBusy /\ pub.pc = "idle")

\* publish of an offer, or of the sentinel that withdraws the one that rests;
\* the wallet's send or receive.
PubStart ==
    /\ pub.pc = "idle" /\ ids < MaxPosts /\ Alone
    /\ \E k \in Kinds :
         /\ k = "cancel" => rests # 0
         /\ pub' = [Idle EXCEPT !.pc = "read", !.k = k]
    /\ ids' = ids + 1
    /\ UNCHANGED <<nanoVars, mail, now, rests>>

\* Signed for the namespace of the epoch its clock shows, before the work.
Signs(on) == pub' = [pub EXCEPT !.pc = "work", !.on = on, !.made = now + Skew]

Publishes == pub.k \in {"offer", "cancel"}

\* publish: the head, then what is receivable (pocketAll).  Anything that fails
\* throws.
PubRead ==
    /\ pub.pc = "read" /\ Publishes
    /\ \/ \E a \in Read :
            \/ Signs(a)
            \/ Receivable # {} /\ pub' = [pub EXCEPT !.pc = "pocket", !.on = a]
       \/ pub' = Idle
    /\ UNCHANGED <<nanoVars, mail, now, ids, rests>>

PubPocket ==
    /\ pub.pc = "pocket" /\ Publishes
    /\ \E e \in Receivable :
         LET chain == Pocketed(pub.on, e)
         IN \/ \E on \in Ahead(chain) : GoesOn(chain, on) /\ Signs(on)
            \/ Lost(chain) /\ pub' = Idle
    /\ UNCHANGED <<windows, conf, mail, now, ids, rests>>

Intent == [k |-> pub.k, id |-> ids, made |-> pub.made, at |-> now, sound |-> pub.on.sound]

\* The state file follows a publish that returned; one that threw leaves it.
PubSubmit ==
    LET chain == Append(pub.on.head, Intent)
    IN /\ pub.pc = "work" /\ Publishes
       /\ \/ (Taken(chain) \/ Misled(chain)) /\ rests' = IF pub.k = "offer" THEN ids ELSE 0
          \/ Lost(chain) /\ UNCHANGED rests
       /\ pub' = Idle
       /\ UNCHANGED <<windows, conf, mail, now, ids>>

-----------------------------------------------------------------------------
(* The wallet.                                                             *)

\* receive: the head, and each deposit shown.
ReceiveRead ==
    /\ pub.pc = "read" /\ pub.k = "pocket"
    /\ \/ \E a \in Read : Receivable # {} /\ pub' = [pub EXCEPT !.pc = "pocket", !.on = a]
       \/ pub' = Idle
    /\ UNCHANGED <<nanoVars, mail, now, ids, rests>>

ReceiveSubmit ==
    /\ pub.pc = "pocket" /\ pub.k = "pocket"
    /\ \E e \in Receivable :
         LET chain == Pocketed(pub.on, e) IN Taken(chain) \/ Misled(chain) \/ Lost(chain)
    /\ pub' = Idle
    /\ UNCHANGED <<windows, conf, mail, now, ids, rests>>

\* send: the head and the balance, signed at once, then work and broadcast.
SendRead ==
    /\ pub.pc = "read" /\ pub.k = "pay"
    /\ pub' \in {Idle} \cup {[pub EXCEPT !.pc = "work", !.on = a] : a \in Read}
    /\ UNCHANGED <<nanoVars, mail, now, ids, rests>>

SendSubmit ==
    LET chain == Append(pub.on.head, [Entry("pay", ids) EXCEPT !.sound = pub.on.sound])
    IN /\ pub.pc = "work" /\ pub.k = "pay"
       /\ Taken(chain) \/ Misled(chain) \/ Lost(chain)
       /\ pub' = Idle
       /\ UNCHANGED <<windows, conf, mail, now, ids, rests>>

Pass ==
    /\ now < Horizon
    /\ now' = now + 1
    /\ UNCHANGED <<nanoVars, mail, pub, ids, rests>>

Next ==
    \/ PubStart \/ PubRead \/ PubPocket \/ PubSubmit
    \/ ReceiveRead \/ ReceiveSubmit \/ SendRead \/ SendSubmit
    \/ MailStart /\ Alone /\ UNCHANGED beaconVars
    \/ MailNext /\ UNCHANGED beaconVars
    \/ NanoNext /\ UNCHANGED <<mail, beaconVars>>
    \/ Pass

Spec == Init /\ [][Next]_vars

-----------------------------------------------------------------------------
(* The taker: scan and scanLive over the cemented chain, at a time its own  *)
(* clock shows.  Namespaces may fail to answer, and batches of metadata too. *)

Intents(chain) == {i \in 1 .. Len(chain) : chain[i].k \in {"offer", "cancel"}}

\* scan: the previous, the current and the next epoch.
Namespace(e) == EpochOf(e.made)
WindowNow(clock) == {EpochOf(clock)}
Window(clock) == EpochOf(clock) - 1 .. EpochOf(clock) + 1
Scanned(chain, clock, down) ==
    {i \in Intents(chain) : Namespace(chain[i]) \in Window(clock) \ down}

\* scanLive's choice: the greatest height, 0 without metadata; a cancel wins a tie.
Height(i, known) == IF i \in known THEN i ELSE 0
Newest(chain, raw, known) ==
    {i \in raw : \A j \in raw \ {i} :
        \/ Height(i, known) > Height(j, known)
        \/ Height(i, known) = Height(j, known) /\ chain[i].k = "cancel"}

Expired(chain, i, clock) == clock - chain[i].at > Ttl

\* The offers shown.  One without a time of its own cannot be proved fresh.
Live(chain, clock, down, known) ==
    {i \in Newest(chain, Scanned(chain, clock, down), known) :
        chain[i].k = "offer" /\ i \in known /\ ~Expired(chain, i, clock)}

-----------------------------------------------------------------------------
(* Properties.                                                             *)

\* No block on any honest node gives away more than its amount, whatever a lying
\* node answers to a read and whoever else uses the account ("one
\* lying/under-reporting node can't set the head alone (which could burn funds on
\* a send)").  That a lying node may answer a submission with another block's hash,
\* or show a deposit of a negative amount, endangers no more than the blocks signed
\* on what it said, and never a payment.
Endangered(e) ==
    \/ "echo" \in windows /\ e.k \in {"chunk", "offer", "cancel"}
    \/ "minus" \in windows /\ e.k = "drain"
NoBurn ==
    \A n \in Honest : \A i \in 1 .. Len(view[n]) :
        view[n][i].sound \/ Endangered(view[n][i])

\* Once the network has settled, every taker's book agrees with the maker's state
\* file: no offer shows that was withdrawn or replaced, across epochs; and the one
\* that rests shows while it is young, unless the taker's clock is more than an
\* epoch from the maker's when it signed ("the +/-1 epoch read window also absorbs
\* up to ~30 min of maker/taker clock skew").  Not claimed when answers are lost
\* or the account is used twice at a time.
Settled == \A n \in Honest : view[n] = conf
BookTrue ==
    windows = {} /\ Settled =>
        \A i \in Intents(conf), t \in Clocks :
            LET shown == i \in Live(conf, now + t, {}, Intents(conf))
            IN /\ shown => conf[i].id = rests
               /\ /\ conf[i].id = rests /\ ~Expired(conf, i, now + t)
                  /\ now + t - conf[i].made \in -Epoch .. Epoch
                  => shown
=============================================================================
