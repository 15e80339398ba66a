------------------------------ MODULE TwoParty ------------------------------
(***************************************************************************)
(* The two-party settlement of web/two_party.js: runA (sells XNO) and runB *)
(* (sells XMR) run in two processes, each with its own store, and meet in  *)
(* three co-signing rounds over a mailbox wire (open, refund, claim).      *)
(* Modelled with them: the joint Nano account, whose open block has ONE    *)
(* successor (claim or refund), the joint Monero output, the resume path   *)
(* over fresh step channels, and the agent around the drivers: the         *)
(* unattended maker (integrations/hermes/scripts/xnoxmr.cjs, "cli") or the *)
(* browser (web/index.html, "browser").  The model starts after the key    *)
(* ceremony.  A signature is an event: completing the claim reveals x (what *)
(* A needs to sweep), completing the refund reveals A's Monero share (what *)
(* B needs to recover).                                                    *)
(***************************************************************************)
EXTENDS Naturals

CONSTANTS
  Agent,        \* [{"A","B"} -> {"cli","browser"}]: who runs each side
  MaxCrashes,   \* [{"A","B"} -> Nat]: crashes each process may suffer
  MaxAttempts,  \* step channels each side may open for the claim
  Timeouts,     \* BOOLEAN: timers may expire while a wait is unanswered
  Market,       \* BOOLEAN: a profitability gate may refuse
  RpcFails,     \* BOOLEAN: a read of the joint account's frontier may fail
  Forks,        \* BOOLEAN: claim and refund may both be accepted, by different nodes
  Windows       \* exposure windows (InWindow) in which a fault may strike

Party == {"A", "B"}
Peer(p) == IF p = "A" THEN "B" ELSE "A"

ASSUME Params ==
  /\ Agent \in [Party -> {"cli", "browser"}]
  /\ MaxCrashes \in [Party -> Nat] /\ MaxAttempts \in Nat
  /\ Timeouts \in BOOLEAN /\ Market \in BOOLEAN /\ RpcFails \in BOOLEAN
  /\ Forks \in BOOLEAN
  /\ Windows \subseteq {"unprotected", "presign", "lock", "immature"}

VARIABLES
  joint,     \* joint Nano account: "empty", "funded" (receivable) or "open"
  posted,    \* successors of the open block that some node accepted
  settled,   \* the successor the network settled on, or "none"
  locks,     \* outputs B has sent to the joint Monero address
  depth,     \* of the first: 0 shallow, 1 at deps.confTarget, 2 spendable (10)
  sweeper,   \* who spent the first: "none", "A" or "B"
  pc,        \* where each driver stands; "down" = process dead or driver threw
  ph,        \* in a round: "start", "commit" (sent it) or "share" (sent it)
  wire,      \* "live" (handshake wire) or "resume" (stepWire channels)
  attempts,  \* persisted counter rsAtt:claim
  peerAtt,   \* the peer attempt this side's recv is locked to
  commits,   \* signing commitments posted to the mailboxes
  shares,    \* signature shares posted, each bound to a pair of commitments
  store,     \* keys each session store holds
  crashes    \* crashes so far

chain == <<joint, posted, settled>>
monero == <<locks, depth, sweeper>>
net == <<attempts, peerAtt, commits, shares>>
vars == <<joint, posted, settled, locks, depth, sweeper, pc, ph, wire,
          attempts, peerAtt, commits, shares, store, crashes>>

Step == {"open", "refund", "claim"}          \* the co-signing rounds
Channel == 0..MaxAttempts                    \* 0 is the live wire
Spend == {"claim", "refund"}                 \* successors of the open block
Key == {"fund", "open", "refund", "lockseen", "presigned", "x", "sweep",
        "refunded", "lock", "skipped", "claim", "recovered", "none",
        "declined", "abandoned"}
Label == Step \cup
         {"fund", "fundSave", "openWait", "openTx", "openSave", "lockWait",
          "claimGate", "claimWait", "refundTx", "lateRefundTx", "refundSave",
          "sweep", "sweepSave", "lockGuard", "lockGate", "lockSave",
          "checkMoved", "confWait", "claimTx", "claimSave", "fallback",
          "recover", "recoverSave", "down", "done"}

Init ==
  /\ joint = "empty" /\ posted = {} /\ settled = "none"
  /\ locks = 0 /\ depth = 0 /\ sweeper = "none"
  /\ pc = [p \in Party |-> IF p = "A" THEN "fund" ELSE "openWait"]
  /\ ph = [p \in Party |-> "start"]
  /\ wire = [p \in Party |-> "live"]
  /\ attempts = [p \in Party |-> 0]
  /\ peerAtt = [p \in Party |-> 0]
  /\ commits = {} /\ shares = {}
  /\ store = [p \in Party |-> {}]
  /\ crashes = [p \in Party |-> 0]

-----------------------------------------------------------------------------
(* Helpers *)

Has(p, k) == k \in store[p]

Go(p, l) == /\ pc' = [pc EXCEPT ![p] = l]
            /\ ph' = [ph EXCEPT ![p] = "start"]
            /\ UNCHANGED <<wire, crashes>>

Save(p, K) == store' = [store EXCEPT ![p] = @ \cup K]

\* The frontier(s) a node may answer with once it moved past the open block.
Moved == IF settled = "none" THEN posted ELSE {settled}

\* processBlock: posted to every endpoint, one acceptance is success.
Accepts(b) == /\ settled = "none" /\ b \notin posted
              /\ posted = {} \/ Forks
Post(b) == /\ posted' = posted \cup {b}
           /\ settled' = IF Forks THEN settled ELSE b
           /\ UNCHANGED joint

\* No node takes the block: the account already has a successor everywhere.
Refuses == posted # {}

\* The attempt a side sends on: 0 is the live wire.
Att(p) == IF wire[p] = "live" THEN 0 ELSE attempts[p]

\* Channels recv reads: the live wire, or the peer's attempts my-2 .. my+2.
Listens(p) == IF wire[p] = "live" THEN {0}
              ELSE {a \in 1..(attempts[p] + 2) : a + 2 >= attempts[p]}

Heard(p) == {c \in commits : /\ c.from = Peer(p) /\ c.step = pc[p]
                             /\ c.att \in Listens(p)}

PeerShare(p) == {s \in shares : /\ s.from = Peer(p) /\ s.step = pc[p]
                                /\ s.att = peerAtt[p]}

\* The peer may still complete its presignature with the share A sent.
PeerCanFinish ==
  \/ PeerShare("A") # {}
  \/ pc["B"] = "claim" /\ ph["B"] # "start" /\ Att("B") = peerAtt["A"]
       /\ wire["B"] = wire["A"]

\* The windows in which one party's fault exposes somebody's coins.
InWindow(p, w) ==
  CASE w = "unprotected" -> /\ ~Has("A", "refund")
                            /\ joint # "empty" \/ (p = "B" /\ pc["A"] = "fund")
    [] w = "presign" -> /\ p = "A" /\ pc["A"] = "claim" /\ ph["A"] = "share"
                        /\ PeerCanFinish
    [] w = "lock" -> p = "B" /\ pc["B"] = "lockSave"
    [] OTHER -> FALSE

MayFail(p) == \A w \in {"unprotected", "presign", "lock"} :
                 InWindow(p, w) => w \in Windows

-----------------------------------------------------------------------------
(* The co-signing rounds: jointSignRole and adaptorPresignRole.  Each side *)
(* sends its commitment, receives the peer's, sends its share, receives    *)
(* the peer's share, aggregates.                                           *)

\* Mutants of SendCommit: the counter is not persisted; the channel is one off.
SendCommitUnsaved(p) ==
  /\ pc[p] \in Step /\ ph[p] = "start"
  /\ commits' = commits \cup
       {[from |-> p, step |-> pc[p],
         att |-> IF wire[p] = "live" THEN 0 ELSE attempts[p] + 1]}
  /\ ph' = [ph EXCEPT ![p] = "commit"]
  /\ UNCHANGED <<chain, monero, pc, wire, attempts, peerAtt, shares, store, crashes>>
SendCommitOneOff(p) ==
  /\ pc[p] \in Step /\ ph[p] = "start"
  /\ wire[p] = "resume" => attempts[p] < MaxAttempts
  /\ attempts' = IF wire[p] = "live" THEN attempts
                 ELSE [attempts EXCEPT ![p] = @ + 1]
  /\ commits' = commits \cup
       {[from |-> p, step |-> pc[p],
         att |-> IF wire[p] = "live" THEN 0 ELSE attempts[p] + 2]}
  /\ ph' = [ph EXCEPT ![p] = "commit"]
  /\ UNCHANGED <<chain, monero, pc, wire, peerAtt, shares, store, crashes>>

SendCommit(p) ==
  /\ pc[p] \in Step /\ ph[p] = "start"
  /\ wire[p] = "resume" => attempts[p] < MaxAttempts
  /\ attempts' = IF wire[p] = "live" THEN attempts
                 ELSE [attempts EXCEPT ![p] = @ + 1]
  /\ commits' = commits \cup
       {[from |-> p, step |-> pc[p],
         att |-> IF wire[p] = "live" THEN 0 ELSE attempts[p] + 1]}
  /\ ph' = [ph EXCEPT ![p] = "commit"]
  /\ UNCHANGED <<chain, monero, pc, wire, peerAtt, shares, store, crashes>>

\* recv locks to the lowest channel that answers and stays on it.
SendShare(p) ==
  /\ pc[p] \in Step /\ ph[p] = "commit"
  /\ \E c \in Heard(p) :
       /\ \A d \in Heard(p) : c.att <= d.att
       /\ peerAtt' = [peerAtt EXCEPT ![p] = c.att]
       /\ shares' = shares \cup {[from |-> p, step |-> pc[p], att |-> Att(p),
                                  peer |-> c.att]}
  /\ ph' = [ph EXCEPT ![p] = "share"]
  /\ UNCHANGED <<chain, monero, pc, wire, attempts, commits, store, crashes>>

\* The peer's share is there and was made for our commitment: aggregate works.
Aggregates(p, step) ==
  /\ pc[p] = step /\ ph[p] = "share"
  /\ \E s \in PeerShare(p) : s.peer = Att(p)

\* The round throws: no delivery, recv timed out, or the share is for another
\* commitment of ours (InvalidShare).
RoundBreaks(p) ==
  \/ /\ Timeouts /\ MayFail(p)
     /\ CASE ph[p] = "start" -> TRUE
          [] ph[p] = "commit" -> Heard(p) = {}
          [] ph[p] = "share" -> PeerShare(p) = {}
  \/ ph[p] = "start" /\ wire[p] = "resume" /\ attempts[p] = MaxAttempts
  \/ /\ ph[p] = "share" /\ PeerShare(p) # {}
     /\ \A s \in PeerShare(p) : s.peer # Att(p)

\* Mutant of RoundFail: A's claim round is outside the try, no refund is taken.
RoundFailUncaught(p) ==
  /\ pc[p] \in Step /\ RoundBreaks(p)
  /\ Go(p, IF pc[p] = "claim" /\ p = "B" /\ wire[p] = "resume" THEN "fallback"
                                                                ELSE "down")
  /\ UNCHANGED <<chain, monero, net, store>>

\* An open or refund round that throws ends the driver; a claim round makes A
\* take its refund, and B end or watch for A's refund (__resumeFallback).
RoundFail(p) ==
  /\ pc[p] \in Step /\ RoundBreaks(p)
  /\ Go(p, CASE pc[p] = "claim" /\ p = "A" -> "refundTx"
             [] pc[p] = "claim" /\ p = "B" /\ wire[p] = "resume" -> "fallback"
             [] OTHER -> "down")
  /\ UNCHANGED <<chain, monero, net, store>>

-----------------------------------------------------------------------------
(* runA *)

FundSend ==
  /\ pc["A"] = "fund"
  /\ joint' = "funded"
  /\ Go("A", "fundSave")
  /\ UNCHANGED <<posted, settled, monero, net, store>>

FundSave ==
  /\ pc["A"] = "fundSave"
  /\ Save("A", {"fund"}) /\ Go("A", "openWait")
  /\ UNCHANGED <<chain, monero, net>>

\* Both: the funding is receivable, the open round starts.
FundSeen(p) ==
  /\ pc[p] = "openWait" /\ joint # "empty"
  /\ Go(p, "open")
  /\ UNCHANGED <<chain, monero, net, store>>

\* No node shows the funding before the deadline, whether it was sent or not: either
\* side gives up.  Or, only for B, a gate refuses while the funding is not seen.
FundGiveUp(p) ==
  /\ pc[p] = "openWait" /\ joint # "open" /\ MayFail(p)
  /\ \/ p = "B" /\ Market /\ Save("B", {"declined"}) /\ Go("B", "done")
     \/ Timeouts /\ Agent[p] = "cli" /\ Save(p, {"abandoned"}) /\ Go(p, "done")
     \/ Timeouts /\ Agent[p] = "browser" /\ Go(p, "down") /\ UNCHANGED store
  /\ UNCHANGED <<chain, monero, net>>

\* Mutant of OpenAgreed: B locks before the refund exists.
OpenAgreedLockFirst(p) ==
  /\ Aggregates(p, "open")
  /\ IF p = "A" THEN Go(p, "openTx") /\ UNCHANGED store
                ELSE Save(p, {"open"}) /\ Go(p, "lockGuard")
  /\ UNCHANGED <<chain, monero, net>>

OpenAgreed(p) ==
  /\ Aggregates(p, "open")
  /\ IF p = "A" THEN Go(p, "openTx") /\ UNCHANGED store
                ELSE Save(p, {"open"}) /\ Go(p, "refund")
  /\ UNCHANGED <<chain, monero, net>>

OpenTx ==
  /\ pc["A"] = "openTx"
  /\ joint' = "open"
  /\ Go("A", "openSave")
  /\ UNCHANGED <<posted, settled, monero, net, store>>

OpenSave ==
  /\ pc["A"] = "openSave"
  /\ Save("A", {"open"}) /\ Go("A", "refund")
  /\ UNCHANGED <<chain, monero, net>>

RefundAgreed(p) ==
  /\ Aggregates(p, "refund")
  /\ Save(p, {"refund"})
  /\ Go(p, IF p = "A" THEN "lockWait" ELSE "lockGuard")
  /\ UNCHANGED <<chain, monero, net>>

LockSeen ==
  /\ pc["A"] = "lockWait" /\ locks > 0 /\ depth >= 1
  /\ Save("A", {"lockseen"}) /\ Go("A", "claimGate")
  /\ UNCHANGED <<chain, monero, net>>

\* The 90-minute deadline, or the market gate while no lock has been found.
LockAbandon ==
  /\ pc["A"] = "lockWait"
  /\ Timeouts \/ (Market /\ (locks = 0 \/ depth = 0))
  /\ Go("A", "refundTx")
  /\ UNCHANGED <<chain, monero, net, store>>

ClaimGate ==
  /\ pc["A"] = "claimGate"
  /\ \/ Go("A", "claim")
     \/ Market /\ Go("A", "refundTx")
  /\ UNCHANGED <<chain, monero, net, store>>

\* Mutant of PresignSave: the presignature is kept in memory only.
PresignUnsaved ==
  /\ Aggregates("A", "claim")
  /\ Go("A", "claimWait")
  /\ UNCHANGED <<chain, monero, net, store>>

PresignSave ==
  /\ Aggregates("A", "claim")
  /\ Save("A", {"presigned"}) /\ Go("A", "claimWait")
  /\ UNCHANGED <<chain, monero, net>>

\* A reads the frontier: its own refund, or B's claim, which yields x.
ClaimSeen ==
  /\ pc["A"] = "claimWait"
  /\ \E b \in Moved :
       IF b = "refund" THEN Save("A", {"refunded"}) /\ Go("A", "done")
                       ELSE Save("A", {"x"}) /\ Go("A", "sweep")
  /\ UNCHANGED <<chain, monero, net>>

\* Past the claim deadline with the frontier just read unmoved: refund.
ClaimDeadline ==
  /\ pc["A"] = "claimWait" /\ Timeouts /\ Moved = {}
  /\ Go("A", "lateRefundTx")
  /\ UNCHANGED <<chain, monero, net, store>>

\* That read is not inside a try: when it fails the driver throws.
ClaimUnread ==
  /\ pc["A"] = "claimWait" /\ RpcFails
  /\ Go("A", "down")
  /\ UNCHANGED <<chain, monero, net, store>>

RefundPost ==
  /\ pc["A"] \in {"refundTx", "lateRefundTx"}
  /\ Accepts("refund") /\ Post("refund")
  /\ Go("A", "refundSave")
  /\ UNCHANGED <<monero, net, store>>

\* Mutant of RefundRefused: a refused refund counts as sent.
RefundRefusedAsSent ==
  /\ pc["A"] \in {"refundTx", "lateRefundTx"} /\ Refuses
  /\ Go("A", "refundSave")
  /\ UNCHANGED <<chain, monero, net, store>>

\* Only the claim-deadline attempt is inside a try: it goes back to waiting.
RefundRefused ==
  /\ pc["A"] \in {"refundTx", "lateRefundTx"} /\ Refuses
  /\ Go("A", IF pc["A"] = "lateRefundTx" THEN "claimWait" ELSE "down")
  /\ UNCHANGED <<chain, monero, net, store>>

RefundSave ==
  /\ pc["A"] = "refundSave"
  /\ Save("A", {"refunded"}) /\ Go("A", "done")
  /\ UNCHANGED <<chain, monero, net>>

\* The sweep waits for the full ten confirmations, whatever the instant tier.
XmrSweep ==
  /\ pc["A"] = "sweep" /\ locks > 0 /\ depth = 2
  /\ IF sweeper = "none" THEN sweeper' = "A" /\ Go("A", "sweepSave")
                         ELSE UNCHANGED sweeper /\ Go("A", "down")
  /\ UNCHANGED <<chain, locks, depth, net, store>>

SweepSave ==
  /\ pc["A"] = "sweepSave"
  /\ Save("A", {"sweep"}) /\ Go("A", "done")
  /\ UNCHANGED <<chain, monero, net>>

-----------------------------------------------------------------------------
(* runB *)

\* The resume guard: a frontier past the open block means "do not lock".  A
\* read that fails lets the lock proceed.
LockGuard ==
  /\ pc["B"] = "lockGuard"
  /\ \/ Moved # {} /\ Save("B", {"lock", "skipped"}) /\ Go("B", "checkMoved")
     \/ (Moved = {} \/ RpcFails) /\ Go("B", "lockGate") /\ UNCHANGED store
  /\ UNCHANGED <<chain, monero, net>>

\* The gate before the irreversible step refuses: walk away, A will refund.
LockDecline ==
  /\ pc["B"] = "lockGate" /\ Market
  /\ Save("B", {"declined"}) /\ Go("B", "done")
  /\ UNCHANGED <<chain, monero, net>>

LockSend ==
  /\ pc["B"] = "lockGate" /\ locks < 2
  /\ locks' = locks + 1
  /\ Go("B", "lockSave")
  /\ UNCHANGED <<chain, depth, sweeper, net, store>>

LockSave ==
  /\ pc["B"] = "lockSave"
  /\ Save("B", {"lock"}) /\ Go("B", "checkMoved")
  /\ UNCHANGED <<chain, monero, net>>

\* Mutant of OnMoved: every moved frontier is taken for A's refund.
OnMovedRefund(b) == UNCHANGED store /\ Go("B", "recover")

\* onMoved: our own claim from an earlier run, or the counterparty's refund.
OnMoved(b) ==
  IF b = "claim" THEN Save("B", {"claim"}) /\ Go("B", "done")
                 ELSE UNCHANGED store /\ Go("B", "recover")

CheckMoved ==
  /\ pc["B"] = "checkMoved"
  /\ \/ \E b \in Moved : OnMoved(b)
     \/ (Moved = {} \/ RpcFails) /\ Go("B", "confWait") /\ UNCHANGED store
  /\ UNCHANGED <<chain, monero, net>>

\* B waits for its own lock to reach A's confirmation target, so that both
\* reach the claim round together; a Monero error lets it proceed at once.
ConfWait ==
  /\ pc["B"] = "confWait"
  /\ (locks > 0 /\ depth >= 1) \/ RpcFails
  /\ Go("B", "claim")
  /\ UNCHANGED <<chain, monero, net, store>>

ClaimAgreed ==
  /\ Aggregates("B", "claim")
  /\ Go("B", "claimTx")
  /\ UNCHANGED <<chain, monero, net, store>>

\* Mutant of ClaimPost: a refused claim counts as sent.
ClaimPostAnyway ==
  /\ pc["B"] = "claimTx"
  /\ \/ Accepts("claim") /\ Post("claim")
     \/ Refuses /\ UNCHANGED chain
  /\ Go("B", "claimSave")
  /\ UNCHANGED <<monero, net, store>>

ClaimPost ==
  /\ pc["B"] = "claimTx"
  /\ \/ Accepts("claim") /\ Post("claim") /\ Go("B", "claimSave")
     \/ Refuses /\ UNCHANGED chain /\ Go("B", "down")
  /\ UNCHANGED <<monero, net, store>>

ClaimSave ==
  /\ pc["B"] = "claimSave"
  /\ Save("B", {"claim"}) /\ Go("B", "done")
  /\ UNCHANGED <<chain, monero, net>>

\* A resumed B whose claim round failed polls for A's refund, then gives up.
Fallback ==
  /\ pc["B"] = "fallback"
  /\ \/ \E b \in Moved : OnMoved(b)
     \/ (Moved = {} \/ RpcFails) /\ Timeouts /\ Go("B", "down") /\ UNCHANGED store
  /\ UNCHANGED <<chain, monero, net>>

\* recoverXmrFromRefund: sweep the lock back with the revealed share.
Recover ==
  /\ pc["B"] = "recover" /\ ~Has("B", "skipped")
  /\ locks > 0 /\ depth = 2
  /\ IF sweeper = "none" THEN sweeper' = "B" /\ Go("B", "recoverSave")
                         ELSE UNCHANGED sweeper /\ Go("B", "down")
  /\ UNCHANGED <<chain, locks, depth, net, store>>

\* {none}: nothing was locked, or ten minutes went by without a spendable hit.
RecoverNone ==
  /\ pc["B"] = "recover"
  /\ \/ Has("B", "skipped")
     \/ /\ Timeouts /\ ~(locks > 0 /\ depth = 2)
        /\ locks > 0 => "immature" \in Windows
  /\ Save("B", {"recovered", "none"}) /\ Go("B", "done")
  /\ UNCHANGED <<chain, monero, net>>

RecoverSave ==
  /\ pc["B"] = "recoverSave"
  /\ Save("B", {"recovered"}) /\ Go("B", "done")
  /\ UNCHANGED <<chain, monero, net>>

-----------------------------------------------------------------------------
(* Crashes, the agent's resume rules, and the two chains *)

Crash(p) ==
  /\ pc[p] \notin {"down", "done"} /\ crashes[p] < MaxCrashes[p] /\ MayFail(p)
  /\ pc' = [pc EXCEPT ![p] = "down"]
  /\ ph' = [ph EXCEPT ![p] = "start"]
  /\ crashes' = [crashes EXCEPT ![p] = @ + 1]
  /\ UNCHANGED <<chain, monero, wire, net, store>>

\* Where runA resumes from its store.
EntryA == CASE Has("A", "sweep") -> "done"
            [] Has("A", "x") -> "sweep"
            [] Has("A", "presigned") -> "claimWait"
            [] Has("A", "lockseen") -> "claimGate"
            [] OTHER -> "lockWait"

\* The maker's tick drops an unfunded session, leaves a funded one without a
\* refund to its operator, and re-runs the rest.
MakerResumeA ==
  IF {"open", "refund"} \subseteq store["A"] THEN {EntryA}
    ELSE IF Has("A", "fund") THEN {} ELSE {"done"}

\* It drops every session of B without a lock on record.
MakerResumeB == CASE Has("B", "claim") -> {"done"}
                  [] Has("B", "lock") -> {"checkMoved"}
                  [] OTHER -> {"done"}

\* The page offers refundNow for a session that holds the refund and not x, and
\* lets the user clear one in which no funds moved.
PageResumeA ==
  IF {"open", "refund"} \subseteq store["A"]
    THEN CASE Has("A", "x") -> {EntryA}
           [] Has("A", "refunded") -> {"done"}
           [] OTHER -> {"refundTx"}
    ELSE IF Has("A", "fund") THEN {} ELSE {"done"}

\* Mutant of PageResumeB: a lock on record is not looked for.
PageResumeBRelock ==
  CASE Has("B", "claim") -> {"done"}
    [] Has("B", "lock") \/ {"open", "refund"} \subseteq store["B"] -> {"lockGate"}
    [] OTHER -> {}

\* It re-runs B from a lock on record and, on a click, into the lock once the
\* refund is held.
PageResumeB ==
  CASE Has("B", "claim") -> {"done"}
    [] Has("B", "lock") -> {"checkMoved"}
    [] {"open", "refund"} \subseteq store["B"] -> {"lockGuard"}
    [] Has("B", "open") -> {}
    [] OTHER -> {"done"}

ResumeA == IF Agent["A"] = "cli" THEN MakerResumeA ELSE PageResumeA
ResumeB == IF Agent["B"] = "cli" THEN MakerResumeB ELSE PageResumeB

Restart(p) ==
  /\ pc[p] = "down"
  /\ \E l \in IF p = "A" THEN ResumeA ELSE ResumeB :
       /\ pc' = [pc EXCEPT ![p] = l]
       /\ Save(p, IF l = "done" /\ store[p] \cap {"claim", "sweep", "refunded"} = {}
                  THEN {"abandoned"} ELSE {})
  /\ wire' = [wire EXCEPT ![p] = "resume"]
  /\ UNCHANGED <<chain, monero, ph, net, crashes>>

\* Monero confirms the lock; the Nano votes settle on one successor.
MineXmr ==
  /\ locks > 0 /\ depth < 2
  /\ depth' = depth + 1
  /\ UNCHANGED <<chain, locks, sweeper, pc, ph, wire, net, store, crashes>>

Vote ==
  /\ settled = "none"
  /\ \E b \in posted : settled' = b
  /\ UNCHANGED <<joint, posted, monero, pc, ph, wire, net, store, crashes>>

-----------------------------------------------------------------------------
NextA ==
  \/ FundSend \/ FundSave \/ FundGiveUp("A") \/ OpenTx \/ OpenSave
  \/ LockSeen \/ LockAbandon \/ ClaimGate \/ PresignSave \/ ClaimSeen
  \/ ClaimDeadline \/ ClaimUnread \/ RefundPost \/ RefundRefused \/ RefundSave
  \/ XmrSweep \/ SweepSave

NextB ==
  \/ FundGiveUp("B") \/ LockGuard \/ LockDecline \/ LockSend \/ LockSave
  \/ CheckMoved \/ ConfWait \/ ClaimAgreed \/ ClaimPost \/ ClaimSave
  \/ Fallback \/ Recover \/ RecoverNone \/ RecoverSave

Round(p) ==
  \/ SendCommit(p) \/ SendShare(p) \/ FundSeen(p) \/ OpenAgreed(p)
  \/ RefundAgreed(p) \/ RoundFail(p)

\* What a process does when it is scheduled; a crash is not.
Run(p) == Round(p) \/ Restart(p) \/ IF p = "A" THEN NextA ELSE NextB

Next ==
  \/ \E p \in Party : Run(p) \/ Crash(p)
  \/ MineXmr \/ Vote

Spec == Init /\ [][Next]_vars

\* Timers fire, a process that can step does, an agent restarts a dead session
\* (the maker's tick, or the user's click), and both chains make progress.
FairSpec ==
  /\ Spec
  /\ \A p \in Party : WF_vars(Run(p))
  /\ WF_vars(MineXmr) /\ WF_vars(Vote)
-----------------------------------------------------------------------------
(* Properties *)

TypeOK ==
  /\ joint \in {"empty", "funded", "open"}
  /\ posted \subseteq Spend /\ settled \in Spend \cup {"none"}
  /\ locks \in 0..2 /\ depth \in 0..2 /\ sweeper \in {"none", "A", "B"}
  /\ pc \in [Party -> Label]
  /\ ph \in [Party -> {"start", "commit", "share"}]
  /\ wire \in [Party -> {"live", "resume"}]
  /\ attempts \in [Party -> 0..MaxAttempts]
  /\ peerAtt \in [Party -> Channel]
  /\ commits \subseteq [from : Party, step : Step, att : Channel]
  /\ shares \subseteq [from : Party, step : Step, att : Channel, peer : Channel]
  /\ store \in [Party -> SUBSET Key]
  /\ crashes \in [Party -> Nat]

\* The two legs as the abstract swap sees them.
xnoLeg == CASE settled = "claim" -> "claimed"
            [] settled = "refund" -> "refunded"
            [] joint = "empty" -> "home"
            [] OTHER -> "joint"
xmrLeg == CASE sweeper = "A" -> "swept"
            [] sweeper = "B" -> "recovered"
            [] locks > 0 -> "joint"
            [] OTHER -> "home"
Swap == INSTANCE AtomicSwap WITH xno <- xnoLeg, xmr <- xmrLeg

\* Whatever crashes, times out or refuses, and whoever runs each side, the two
\* drivers only ever make the moves of the abstract swap: the Nano is claimed
\* only over a standing Monero lock, and the lock is spent only by the party
\* that did not get the Nano.
Implements == Swap!Spec

\* stepWire: "a crash never reuses an attempt".  A commitment always goes to a
\* channel that side never committed on, so no (key, nonce) slot sees two
\* plaintexts.
FreshNonce ==
  [][\A p \in Party :
       ph[p] = "start" /\ ph'[p] = "commit" => commits' # commits]_vars

\* B sends its Monero once.
LocksOnce == locks <= 1

\* runA: "The counterparty only commits its Monero once that refund exists":
\* when Monero stands in the joint address, A holds the refund that would
\* return its XNO and let B recover, or has all it takes to finish that round.
RefundInHand == locks > 0 => Has("A", "refund") \/ Aggregates("A", "refund")

\* Once B's claim is public, A holds the presignature that turns it into x, or
\* has all it takes to finish that round.
Extractable == "claim" \in posted => Has("A", "presigned") \/ Aggregates("A", "claim")

\* A session is closed only over a finished leg: unless nodes accepted both
\* successors, no side marks it done while coins it could still bring home
\* stand in a joint account.
ClosedA == pc["A"] = "done" /\ posted # Spend =>
             joint = "empty" \/ sweeper = "A" \/ "refund" \in posted
ClosedB == pc["B"] = "done" /\ posted # Spend =>
             locks = 0 \/ sweeper = "B" \/ "claim" \in posted

\* Each party has one of the two coins and no coin is left in between.
Whole == \/ settled = "claim" /\ sweeper = "A"
         \/ settled = "refund" /\ (locks = 0 \/ sweeper = "B")

\* README.md: "the swap completes for both sides, or it unwinds and both sides
\* recover": once A has funded, the swap ends with both parties whole.
Ends == joint # "empty" ~> []Whole
=============================================================================
