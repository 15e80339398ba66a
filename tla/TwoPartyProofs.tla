--------------------------- MODULE TwoPartyProofs ---------------------------
(***************************************************************************)
(* For any agents, any number of crashes and any set of windows: the two   *)
(* drivers keep their types, two different contents of a round never share *)
(* a channel, and as long as no two nodes accept different successors of   *)
(* the open block (Forks = FALSE), they implement the abstract swap.       *)
(*                                                                         *)
(* Each other property is proved with every window open but those in which *)
(* a fault undoes it: the joint account is locked at most once (but        *)
(* "lock"), A is exposed only with a refund in hand and returns only over  *)
(* a finished leg (but "unprotected"), B's published claim can be turned   *)
(* into x (but "presign"), and B returns only over a finished leg (but     *)
(* "lock" and "immature").                                                 *)
(***************************************************************************)
EXTENDS TwoParty, TLAPS

USE Params DEF Party, Peer, Channel

LEMMA TypeInit == Init => TypeOK
  BY DEF Init, TypeOK, Label, Step, Spend, Key

\* What a session resumes to is a place of its driver.
LEMMA ResumeType == ResumeA \subseteq Label /\ ResumeB \subseteq Label
  BY DEF ResumeA, ResumeB, MakerResumeA, MakerResumeB, PageResumeA,
         PageResumeB, EntryA, Label, Step

LEMMA TypeRound ==
  ASSUME TypeOK, NEW p \in Party, Round(p)
  PROVE  TypeOK'
  <1> USE DEF TypeOK, Label, Step, Key, chain, monero, net
  <1>1. CASE SendCommit(p)
    <2>1. attempts' \in [Party -> 0..MaxAttempts]
      BY <1>1 DEF SendCommit
    <2>2. commits' \subseteq [from : Party, step : Step, att : Channel]
      BY <1>1 DEF SendCommit
    <2> QED BY <1>1, <2>1, <2>2 DEF SendCommit
  <1>2. CASE SendShare(p)
    <2>1. PICK c \in Heard(p) :
            /\ peerAtt' = [peerAtt EXCEPT ![p] = c.att]
            /\ shares' = shares \cup {[from |-> p, step |-> pc[p], att |-> Att(p),
                                       peer |-> c.att]}
      BY <1>2 DEF SendShare
    <2>2. c.att \in Channel /\ Att(p) \in Channel
      BY <2>1 DEF Heard, Att
    <2>3. pc[p] \in Step
      BY <1>2 DEF SendShare
    <2> QED BY <1>2, <2>1, <2>2, <2>3 DEF SendShare
  <1>3. CASE FundSeen(p)
    BY <1>3 DEF FundSeen, Go
  <1>4. CASE OpenAgreed(p)
    BY <1>4 DEF OpenAgreed, Go, Save
  <1>5. CASE RefundAgreed(p)
    BY <1>5 DEF RefundAgreed, Go, Save
  <1>6. CASE RoundFail(p)
    BY <1>6 DEF RoundFail, Go
  <1> QED BY <1>1, <1>2, <1>3, <1>4, <1>5, <1>6 DEF Round

LEMMA TypeA ==
  ASSUME TypeOK, NextA
  PROVE  TypeOK'
  <1> USE DEF TypeOK, Label, Step, Key, Spend, chain, monero, net, Go, Save, Post
  <1>1. CASE FundSend BY <1>1 DEF FundSend
  <1>2. CASE FundSave BY <1>2 DEF FundSave
  <1>3. CASE OpenTx BY <1>3 DEF OpenTx
  <1>4. CASE OpenSave BY <1>4 DEF OpenSave
  <1>5. CASE LockSeen BY <1>5 DEF LockSeen
  <1>6. CASE LockAbandon BY <1>6 DEF LockAbandon
  <1>7. CASE ClaimGate BY <1>7 DEF ClaimGate
  <1>8. CASE PresignSave BY <1>8 DEF PresignSave
  <1>9. CASE ClaimSeen BY <1>9 DEF ClaimSeen
  <1>10. CASE ClaimDeadline BY <1>10 DEF ClaimDeadline
  <1>11. CASE ClaimUnread BY <1>11 DEF ClaimUnread
  <1>12. CASE RefundPost BY <1>12 DEF RefundPost
  <1>13. CASE RefundRefused BY <1>13 DEF RefundRefused
  <1>14. CASE RefundSave BY <1>14 DEF RefundSave
  <1>15. CASE XmrSweep BY <1>15 DEF XmrSweep
  <1>16. CASE SweepSave BY <1>16 DEF SweepSave
  <1>17. CASE FundGiveUp("A") BY <1>17 DEF FundGiveUp
  <1> QED BY <1>1, <1>2, <1>3, <1>4, <1>5, <1>6, <1>7, <1>8, <1>9, <1>10,
             <1>11, <1>12, <1>13, <1>14, <1>15, <1>16, <1>17 DEF NextA

LEMMA TypeB ==
  ASSUME TypeOK, NextB
  PROVE  TypeOK'
  <1> USE DEF TypeOK, Label, Step, Key, Spend, chain, monero, net, Go, Save, Post
  <1>1. CASE FundGiveUp("B") BY <1>1 DEF FundGiveUp
  <1>2. CASE LockGuard BY <1>2 DEF LockGuard
  <1>3. CASE LockDecline BY <1>3 DEF LockDecline
  <1>4. CASE LockSend BY <1>4 DEF LockSend
  <1>5. CASE LockSave BY <1>5 DEF LockSave
  <1>6. CASE CheckMoved BY <1>6 DEF CheckMoved, OnMoved
  <1>7. CASE ConfWait BY <1>7 DEF ConfWait
  <1>8. CASE ClaimAgreed BY <1>8 DEF ClaimAgreed
  <1>9. CASE ClaimPost
    <2>1. CASE Post("claim") /\ Go("B", "claimSave")
      BY <1>9, <2>1 DEF ClaimPost
    <2>2. CASE UNCHANGED chain /\ Go("B", "down")
      BY <1>9, <2>2 DEF ClaimPost
    <2> QED BY <1>9, <2>1, <2>2 DEF ClaimPost
  <1>10. CASE ClaimSave BY <1>10 DEF ClaimSave
  <1>11. CASE Fallback BY <1>11 DEF Fallback, OnMoved
  <1>12. CASE Recover BY <1>12 DEF Recover
  <1>13. CASE RecoverNone BY <1>13 DEF RecoverNone
  <1>14. CASE RecoverSave BY <1>14 DEF RecoverSave
  <1> QED BY <1>1, <1>2, <1>3, <1>4, <1>5, <1>6, <1>7, <1>8, <1>9, <1>10,
             <1>11, <1>12, <1>13, <1>14 DEF NextB

LEMMA TypeNext == TypeOK /\ [Next]_vars => TypeOK'
  <1> SUFFICES ASSUME TypeOK, [Next]_vars PROVE TypeOK'
    OBVIOUS
  <1>1. CASE \E p \in Party : Run(p)
    <2>1. PICK p \in Party : Run(p) BY <1>1
    <2>2. CASE Round(p) BY <2>2, TypeRound
    <2>3. CASE Restart(p)
      BY <2>3, ResumeType DEF Restart, TypeOK, Save, Key, chain, monero, net
    <2>4. CASE NextA BY <2>4, TypeA
    <2>5. CASE NextB BY <2>5, TypeB
    <2> QED BY <2>1, <2>2, <2>3, <2>4, <2>5 DEF Run
  <1>2. CASE \E p \in Party : Crash(p)
    BY <1>2 DEF Crash, TypeOK, Label, chain, monero, net
  <1>3. CASE MineXmr
    BY <1>3 DEF MineXmr, TypeOK, chain, monero, net
  <1>4. CASE Vote
    BY <1>4 DEF Vote, TypeOK, chain, monero, net
  <1>5. CASE UNCHANGED vars
    BY <1>5 DEF vars, TypeOK
  <1> QED BY <1>1, <1>2, <1>3, <1>4, <1>5 DEF Next

\* Every reachable state is well typed, for all agents, bounds and faults.
THEOREM TypeCorrect == Spec => []TypeOK
  BY TypeInit, TypeNext, PTL DEF Spec

-----------------------------------------------------------------------------
(***************************************************************************)
(* The invariant behind the refinement, in five parts: what each stage of  *)
(* the two legs implies for where the drivers can be and what they hold.   *)
(***************************************************************************)

\* One successor: a block that was accepted is the one that settled.
OneSuccessor == \/ settled = "none" /\ posted = {}
                \/ settled \in Spend /\ posted = {settled}

\* Before the funding neither driver is past its first wait.
Unfunded ==
  /\ pc["A"] = "fund" => joint = "empty"
  /\ joint = "empty" =>
       /\ posted = {}
       /\ pc["A"] \in {"fund", "down", "done"} /\ store["A"] \cap {"open", "fund"} = {}
       /\ pc["B"] \in {"openWait", "down", "done"}
       /\ store["B"] \cap {"open", "lock", "claim"} = {}

\* Before the lock A has committed to no claim, so B can hold none.
Unlocked ==
  locks = 0 =>
    /\ sweeper = "none"
    /\ pc["A"] \notin {"claimGate", "claim"} /\ ~Has("A", "lockseen")
    /\ \A s \in shares : ~(s.from = "A" /\ s.step = "claim")
    /\ pc["B"] # "claimTx"

\* A goes for the Monero only over a settled claim, B only over a refund.
SweepRight ==
  /\ sweeper = "A" \/ pc["A"] = "sweep" \/ Has("A", "x") => settled = "claim"
  /\ sweeper = "B" \/ pc["B"] = "recover" => settled = "refund"

SwapInv == TypeOK /\ OneSuccessor /\ Unfunded /\ Unlocked /\ SweepRight

LEMMA SwapInit == Init => SwapInv
  BY TypeInit DEF Init, SwapInv, OneSuccessor, Unfunded, Unlocked, SweepRight,
                  Has, Spend

LEMMA SwapRound ==
  ASSUME SwapInv, NEW p \in Party, Round(p)
  PROVE  (OneSuccessor /\ Unfunded /\ Unlocked /\ SweepRight)'
  <1> USE DEF SwapInv, TypeOK, OneSuccessor, Unfunded, Unlocked, SweepRight, Has,
              Spend, Step, chain, monero, net
  <1>1. CASE SendCommit(p)
    BY <1>1 DEF SendCommit
  <1>2. CASE SendShare(p)
    <2>1. PICK c \in Heard(p) :
            shares' = shares \cup {[from |-> p, step |-> pc[p], att |-> Att(p),
                                    peer |-> c.att]}
      BY <1>2 DEF SendShare
    <2> QED BY <1>2, <2>1 DEF SendShare
  <1>3. CASE FundSeen(p)
    BY <1>3 DEF FundSeen, Go
  <1>4. CASE OpenAgreed(p)
    BY <1>4 DEF OpenAgreed, Aggregates, Go, Save
  <1>5. CASE RefundAgreed(p)
    BY <1>5 DEF RefundAgreed, Aggregates, Go, Save
  <1>6. CASE RoundFail(p)
    BY <1>6 DEF RoundFail, Go
  <1> QED BY <1>1, <1>2, <1>3, <1>4, <1>5, <1>6 DEF Round

LEMMA SwapA ==
  ASSUME Forks = FALSE, SwapInv, NextA
  PROVE  (OneSuccessor /\ Unfunded /\ Unlocked /\ SweepRight)'
  <1> USE DEF SwapInv, TypeOK, OneSuccessor, Unfunded, Unlocked, SweepRight, Has,
              Spend, Step, chain, monero, net, Go, Save
  <1>1. CASE FundSend BY <1>1 DEF FundSend
  <1>2. CASE FundSave BY <1>2 DEF FundSave
  <1>3. CASE OpenTx BY <1>3 DEF OpenTx
  <1>4. CASE OpenSave BY <1>4 DEF OpenSave
  <1>5. CASE LockSeen BY <1>5 DEF LockSeen
  <1>6. CASE LockAbandon BY <1>6 DEF LockAbandon
  <1>7. CASE ClaimGate BY <1>7 DEF ClaimGate
  <1>8. CASE PresignSave BY <1>8 DEF PresignSave, Aggregates
  <1>9. CASE ClaimSeen BY <1>9 DEF ClaimSeen, Moved
  <1>10. CASE ClaimDeadline BY <1>10 DEF ClaimDeadline
  <1>11. CASE ClaimUnread BY <1>11 DEF ClaimUnread
  <1>12. CASE RefundPost
    <2>1. settled' \in Spend /\ posted' = {settled'}
      BY <1>12 DEF RefundPost, Accepts, Post
    <2> QED BY <1>12, <2>1 DEF RefundPost, Accepts, Post
  <1>13. CASE RefundRefused BY <1>13 DEF RefundRefused
  <1>14. CASE RefundSave BY <1>14 DEF RefundSave
  <1>15. CASE XmrSweep BY <1>15 DEF XmrSweep
  <1>16. CASE SweepSave BY <1>16 DEF SweepSave
  <1>17. CASE FundGiveUp("A") BY <1>17 DEF FundGiveUp
  <1> QED BY <1>1, <1>2, <1>3, <1>4, <1>5, <1>6, <1>7, <1>8, <1>9, <1>10,
             <1>11, <1>12, <1>13, <1>14, <1>15, <1>16, <1>17 DEF NextA

LEMMA SwapB ==
  ASSUME Forks = FALSE, SwapInv, NextB
  PROVE  (OneSuccessor /\ Unfunded /\ Unlocked /\ SweepRight)'
  <1> USE DEF SwapInv, TypeOK, OneSuccessor, Unfunded, Unlocked, SweepRight, Has,
              Spend, Step, chain, monero, net, Go, Save
  <1>1. CASE FundGiveUp("B") BY <1>1 DEF FundGiveUp
  <1>2. CASE LockGuard BY <1>2 DEF LockGuard
  <1>3. CASE LockDecline BY <1>3 DEF LockDecline
  <1>4. CASE LockSend BY <1>4 DEF LockSend
  <1>5. CASE LockSave BY <1>5 DEF LockSave
  <1>6. CASE CheckMoved BY <1>6 DEF CheckMoved, OnMoved, Moved
  <1>7. CASE ConfWait BY <1>7 DEF ConfWait
  <1>8. CASE ClaimAgreed
    <2>1. \E s \in shares : s.from = "A" /\ s.step = "claim"
      BY <1>8 DEF ClaimAgreed, Aggregates, PeerShare
    <2>2. locks # 0
      BY <2>1
    <2> QED BY <1>8, <2>2 DEF ClaimAgreed, Aggregates
  <1>9. CASE ClaimPost
    <2>1. CASE Accepts("claim") /\ Post("claim") /\ Go("B", "claimSave")
      <3>1. settled' \in Spend /\ posted' = {settled'}
        BY <2>1 DEF Accepts, Post
      <3> QED BY <1>9, <2>1, <3>1 DEF ClaimPost, Accepts, Post
    <2>2. CASE UNCHANGED chain /\ Go("B", "down")
      BY <1>9, <2>2 DEF ClaimPost
    <2> QED BY <1>9, <2>1, <2>2 DEF ClaimPost
  <1>10. CASE ClaimSave BY <1>10 DEF ClaimSave
  <1>11. CASE Fallback BY <1>11 DEF Fallback, OnMoved, Moved
  <1>12. CASE Recover BY <1>12 DEF Recover
  <1>13. CASE RecoverNone BY <1>13 DEF RecoverNone
  <1>14. CASE RecoverSave BY <1>14 DEF RecoverSave
  <1> QED BY <1>1, <1>2, <1>3, <1>4, <1>5, <1>6, <1>7, <1>8, <1>9, <1>10,
             <1>11, <1>12, <1>13, <1>14 DEF NextB

LEMMA SwapNext ==
  ASSUME Forks = FALSE
  PROVE  SwapInv /\ [Next]_vars => SwapInv'
  <1> SUFFICES ASSUME SwapInv, [Next]_vars
               PROVE  (OneSuccessor /\ Unfunded /\ Unlocked /\ SweepRight)'
    BY TypeNext DEF SwapInv
  <1> USE DEF SwapInv, TypeOK, OneSuccessor, Unfunded, Unlocked, SweepRight, Has,
              Spend, chain, monero, net
  <1>1. CASE \E p \in Party : Run(p)
    <2>1. PICK p \in Party : Run(p) BY <1>1
    <2>2. CASE Round(p) BY <2>2, SwapRound
    <2>3. CASE Restart(p)
      BY <2>3 DEF Restart, ResumeA, ResumeB, MakerResumeA, MakerResumeB,
                  PageResumeA, PageResumeB, EntryA, Save
    <2>4. CASE NextA BY <2>4, SwapA
    <2>5. CASE NextB BY <2>5, SwapB
    <2> QED BY <2>1, <2>2, <2>3, <2>4, <2>5 DEF Run
  <1>2. CASE \E p \in Party : Crash(p)
    BY <1>2 DEF Crash
  <1>3. CASE MineXmr
    BY <1>3 DEF MineXmr
  <1>4. CASE Vote
    BY <1>4 DEF Vote
  <1>5. CASE UNCHANGED vars
    BY <1>5 DEF vars
  <1> QED BY <1>1, <1>2, <1>3, <1>4, <1>5 DEF Next

LEMMA SwapInvariant == ASSUME Forks = FALSE PROVE Spec => []SwapInv
  BY SwapInit, SwapNext, PTL DEF Spec

-----------------------------------------------------------------------------
(* Every step of the drivers is a step of the abstract swap or a stutter. *)

LEMMA SwapStepInit == Init => Swap!Init
  BY DEF Init, Swap!Init, xnoLeg, xmrLeg

LEMMA SwapStepA ==
  ASSUME Forks = FALSE, SwapInv, NextA
  PROVE  [Swap!Next]_<<xnoLeg, xmrLeg>>
  <1> USE DEF SwapInv, TypeOK, OneSuccessor, Unfunded, Unlocked, SweepRight, Has,
              Spend, chain, monero, net, xnoLeg, xmrLeg
  <1>1. CASE FundSend
    BY <1>1 DEF FundSend, Swap!Next, Swap!FundXno
  <1>2. CASE OpenTx
    BY <1>2 DEF OpenTx
  <1>3. CASE RefundPost
    BY <1>3 DEF RefundPost, Accepts, Post, Swap!Next, Swap!Refund
  <1>4. CASE XmrSweep
    BY <1>4 DEF XmrSweep, Go, Swap!Next, Swap!Sweep
  <1>5. CASE UNCHANGED <<chain, monero>>
    BY <1>5
  <1> QED BY <1>1, <1>2, <1>3, <1>4, <1>5
          DEF NextA, FundGiveUp, FundSave, OpenSave, LockSeen, LockAbandon, ClaimGate,
              PresignSave, ClaimSeen, ClaimDeadline, ClaimUnread, RefundRefused,
              RefundSave, SweepSave

LEMMA SwapStepB ==
  ASSUME Forks = FALSE, SwapInv, NextB
  PROVE  [Swap!Next]_<<xnoLeg, xmrLeg>>
  <1> USE DEF SwapInv, TypeOK, OneSuccessor, Unfunded, Unlocked, SweepRight, Has,
              Spend, chain, monero, net, xnoLeg, xmrLeg
  <1>1. CASE LockSend
    BY <1>1 DEF LockSend, Swap!Next, Swap!LockXmr
  <1>2. CASE ClaimPost
    <2>1. CASE Accepts("claim") /\ Post("claim")
      BY <1>2, <2>1 DEF ClaimPost, Accepts, Post, Swap!Next, Swap!Claim
    <2>2. CASE UNCHANGED chain
      BY <1>2, <2>2 DEF ClaimPost
    <2> QED BY <1>2, <2>1, <2>2 DEF ClaimPost
  <1>3. CASE Recover
    BY <1>3 DEF Recover, Go, Swap!Next, Swap!Recover
  <1>4. CASE UNCHANGED <<chain, monero>>
    BY <1>4
  <1> QED BY <1>1, <1>2, <1>3, <1>4
          DEF NextB, FundGiveUp, LockGuard, LockDecline, LockSave, CheckMoved,
              ConfWait, ClaimAgreed, ClaimSave, Fallback, RecoverNone, RecoverSave

LEMMA SwapStep ==
  ASSUME Forks = FALSE
  PROVE  SwapInv /\ [Next]_vars => [Swap!Next]_<<xnoLeg, xmrLeg>>
  <1> SUFFICES ASSUME SwapInv, [Next]_vars
               PROVE  [Swap!Next]_<<xnoLeg, xmrLeg>>
    OBVIOUS
  <1> USE DEF xnoLeg, xmrLeg, chain, monero
  <1>1. CASE \E p \in Party : Run(p)
    <2>1. PICK p \in Party : Run(p) BY <1>1
    <2>2. CASE Round(p)
      BY <2>2 DEF Round, SendCommit, SendShare, FundSeen, OpenAgreed,
                  RefundAgreed, RoundFail
    <2>3. CASE Restart(p) BY <2>3 DEF Restart
    <2>4. CASE NextA BY <2>4, SwapStepA
    <2>5. CASE NextB BY <2>5, SwapStepB
    <2> QED BY <2>1, <2>2, <2>3, <2>4, <2>5 DEF Run
  <1>2. CASE \E p \in Party : Crash(p)
    BY <1>2 DEF Crash
  <1>3. CASE MineXmr
    BY <1>3 DEF MineXmr, SwapInv, TypeOK
  <1>4. CASE Vote
    BY <1>4 DEF Vote, SwapInv, OneSuccessor
  <1>5. CASE UNCHANGED vars
    BY <1>5 DEF vars
  <1> QED BY <1>1, <1>2, <1>3, <1>4, <1>5 DEF Next

\* While nodes never accept two successors of the open block, the drivers
\* implement the abstract swap, whatever crashes, times out or is refused.
THEOREM Atomicity == ASSUME Forks = FALSE PROVE Spec => Implements
  <1>1. SwapInv /\ [Next]_vars => [Swap!Next]_Swap!vars
    BY SwapStep DEF Swap!vars
  <1> QED BY SwapInvariant, SwapStepInit, <1>1, PTL DEF Implements, Swap!Spec, Spec

-----------------------------------------------------------------------------
(***************************************************************************)
(* The co-signing traffic, for all agents, bounds and windows: which        *)
(* channels a side has used and what its place in a round says of the       *)
(* commitments and shares it has posted.                                    *)
(***************************************************************************)

\* The places at which a driver on the live wire still has a round before it.
BeforeOpen == {"fund", "fundSave", "openWait"}
BeforeRefund == BeforeOpen \cup {"open", "openTx", "openSave"}
BeforeClaim == BeforeRefund \cup
  {"refund", "lockWait", "lockGuard", "lockGate", "lockSave", "checkMoved",
   "confWait", "claimGate"}
Before(s) == CASE s = "open" -> BeforeOpen
               [] s = "refund" -> BeforeRefund
               [] s = "claim" -> BeforeClaim

\* At place l in phase h, the commitment for round s is still to be sent.
Earlier(l, h, s) == l \in Before(s) \/ (l = s /\ h = "start")
Ahead(p, s) == wire[p] = "live" /\ Earlier(pc[p], ph[p], s)

Commit(p, s, a) == [from |-> p, step |-> s, att |-> a]
Share(p, s, a, b) == [from |-> p, step |-> s, att |-> a, peer |-> b]

\* Used channels are counted; on the live wire a round committed to is behind.
Fresh == \A c \in commits : /\ c.att <= attempts[c.from]
                            /\ c.att = 0 => ~Ahead(c.from, c.step)

\* The live wire is channel 0, and only the live wire is.
LiveWire ==
  \A p \in Party :
    /\ wire[p] = "live" => attempts[p] = 0 /\ peerAtt[p] = 0
    /\ wire[p] # "live" /\ ph[p] # "start" => attempts[p] > 0
    /\ wire[p] # "live" /\ ph[p] = "share" => peerAtt[p] > 0

\* What a side in a round has sent on its current channel, and what not yet.
InRound ==
  \A p \in Party :
    /\ ph[p] # "start" => pc[p] \in Step /\ Commit(p, pc[p], Att(p)) \in commits
    /\ ph[p] = "share" => Share(p, pc[p], Att(p), peerAtt[p]) \in shares
    /\ ph[p] = "commit" =>
         \A s \in shares : ~(s.from = p /\ s.step = pc[p] /\ s.att = Att(p))

\* A share is bound to two commitments that were posted.
Bound == \A s \in shares : /\ Commit(s.from, s.step, s.att) \in commits
                           /\ Commit(Peer(s.from), s.step, s.peer) \in commits

NetInv == TypeOK /\ Fresh /\ LiveWire /\ InRound /\ Bound

LEMMA NetInit == Init => NetInv
  BY TypeInit DEF Init, NetInv, Fresh, LiveWire, InRound, Bound

\* A step that posts nothing leaves a side where it was, or at the start of a
\* place from which it has no round before it that it did not have already.
Placed(p) ==
  \/ UNCHANGED <<pc[p], ph[p], wire[p]>>
  \/ /\ ph'[p] = "start" /\ (wire'[p] = "live" => wire[p] = "live")
     /\ wire'[p] = "live" =>
          \A s \in Step : Earlier(pc'[p], "start", s) => Earlier(pc[p], ph[p], s)

\* Going from one place to the next.
Onward(p, l) == \A s \in Step : Earlier(l, "start", s) => Earlier(pc[p], ph[p], s)

LEMMA GoPlaced ==
  ASSUME TypeOK, NEW p \in Party, NEW l, Go(p, l), Onward(p, l)
  PROVE  \A q \in Party : Placed(q)
  BY DEF TypeOK, Go, Onward, Placed

\* Nothing is left to commit to past the claim round.
LEMMA LateOnward ==
  ASSUME NEW p \in Party, NEW l, l \notin BeforeClaim, l # "claim"
  PROVE  Onward(p, l)
  BY DEF Onward, Earlier, Before, BeforeClaim, BeforeRefund, BeforeOpen, Step

LEMMA PlacedA ==
  ASSUME TypeOK, NextA
  PROVE  UNCHANGED net /\ \A q \in Party : Placed(q)
  <1> USE DEF Onward, Earlier, Before, BeforeClaim, BeforeRefund, BeforeOpen, Step
  <1>1. CASE FundSend BY <1>1, GoPlaced DEF FundSend
  <1>2. CASE FundSave BY <1>2, GoPlaced DEF FundSave
  <1>3. CASE OpenTx BY <1>3, GoPlaced DEF OpenTx
  <1>4. CASE OpenSave BY <1>4, GoPlaced DEF OpenSave
  <1>5. CASE LockSeen BY <1>5, GoPlaced DEF LockSeen
  <1>6. CASE LockAbandon BY <1>6, GoPlaced DEF LockAbandon
  <1>7. CASE ClaimGate BY <1>7, GoPlaced DEF ClaimGate
  <1>8. CASE PresignSave BY <1>8, GoPlaced DEF PresignSave
  <1>9. CASE ClaimSeen BY <1>9, GoPlaced DEF ClaimSeen
  <1>10. CASE ClaimDeadline BY <1>10, GoPlaced DEF ClaimDeadline
  <1>11. CASE ClaimUnread BY <1>11, GoPlaced DEF ClaimUnread
  <1>12. CASE RefundPost BY <1>12, GoPlaced DEF RefundPost
  <1>13. CASE RefundRefused BY <1>13, GoPlaced DEF RefundRefused
  <1>14. CASE RefundSave BY <1>14, GoPlaced DEF RefundSave
  <1>15. CASE XmrSweep BY <1>15, GoPlaced DEF XmrSweep
  <1>16. CASE SweepSave BY <1>16, GoPlaced DEF SweepSave
  <1>17. CASE FundGiveUp("A") BY <1>17, GoPlaced DEF FundGiveUp
  <1> QED BY <1>1, <1>2, <1>3, <1>4, <1>5, <1>6, <1>7, <1>8, <1>9, <1>10,
             <1>11, <1>12, <1>13, <1>14, <1>15, <1>16, <1>17 DEF NextA

LEMMA PlacedB ==
  ASSUME TypeOK, NextB
  PROVE  UNCHANGED net /\ \A q \in Party : Placed(q)
  <1> USE DEF Onward, Earlier, Before, BeforeClaim, BeforeRefund, BeforeOpen, Step
  <1>1. CASE FundGiveUp("B") BY <1>1, GoPlaced DEF FundGiveUp
  <1>2. CASE LockGuard BY <1>2, GoPlaced DEF LockGuard
  <1>3. CASE LockDecline BY <1>3, GoPlaced DEF LockDecline
  <1>4. CASE LockSend BY <1>4, GoPlaced DEF LockSend
  <1>5. CASE LockSave BY <1>5, GoPlaced DEF LockSave
  <1>6. CASE CheckMoved BY <1>6, GoPlaced DEF CheckMoved, OnMoved
  <1>7. CASE ConfWait BY <1>7, GoPlaced DEF ConfWait
  <1>8. CASE ClaimAgreed BY <1>8, GoPlaced DEF ClaimAgreed
  <1>9. CASE ClaimPost BY <1>9, GoPlaced DEF ClaimPost
  <1>10. CASE ClaimSave BY <1>10, GoPlaced DEF ClaimSave
  <1>11. CASE Fallback BY <1>11, GoPlaced DEF Fallback, OnMoved
  <1>12. CASE Recover BY <1>12, GoPlaced DEF Recover
  <1>13. CASE RecoverNone BY <1>13, GoPlaced DEF RecoverNone
  <1>14. CASE RecoverSave BY <1>14, GoPlaced DEF RecoverSave
  <1> QED BY <1>1, <1>2, <1>3, <1>4, <1>5, <1>6, <1>7, <1>8, <1>9, <1>10,
             <1>11, <1>12, <1>13, <1>14 DEF NextB

\* A step that sends neither a commitment nor a share.
Silent == [Next]_vars /\ ~ \E p \in Party : SendCommit(p) \/ SendShare(p)

LEMMA PlacedSilent ==
  ASSUME NetInv, Silent
  PROVE  UNCHANGED net /\ \A q \in Party : Placed(q)
  <1> USE DEF NetInv
  <1>1. ASSUME NEW p \in Party, Round(p)
        PROVE  UNCHANGED net /\ \A q \in Party : Placed(q)
    <2> USE DEF Onward, Earlier, Before, BeforeClaim, BeforeRefund, BeforeOpen, Step
    <2>1. CASE FundSeen(p) BY <2>1, GoPlaced DEF FundSeen
    <2>2. CASE OpenAgreed(p) BY <2>2, GoPlaced DEF OpenAgreed, Aggregates
    <2>3. CASE RefundAgreed(p) BY <2>3, GoPlaced DEF RefundAgreed, Aggregates
    <2>4. CASE RoundFail(p) BY <2>4, GoPlaced DEF RoundFail
    <2> QED BY <1>1, <2>1, <2>2, <2>3, <2>4 DEF Silent, Round
  <1>2. ASSUME NEW p \in Party, Restart(p)
        PROVE  UNCHANGED net /\ \A q \in Party : Placed(q)
    <2>1. ph[p] = "start"
      BY <1>2 DEF Restart, InRound, Step, TypeOK
    <2> QED BY <1>2, <2>1 DEF Restart, Placed, TypeOK
  <1>3. ASSUME NEW p \in Party, Crash(p)
        PROVE  UNCHANGED net /\ \A q \in Party : Placed(q)
    BY <1>3 DEF Crash, Placed, TypeOK, Earlier, Before, BeforeClaim, BeforeRefund,
                BeforeOpen, Step
  <1>4. CASE MineXmr \/ Vote \/ UNCHANGED vars
    BY <1>4 DEF MineXmr, Vote, vars, Placed, net
  <1> QED BY <1>1, <1>2, <1>3, <1>4, PlacedA, PlacedB DEF Silent, Next, Run

LEMMA NetSilent ==
  ASSUME NetInv, Silent
  PROVE  NetInv'
  <1>0. TypeOK /\ TypeOK'
    BY TypeNext DEF NetInv, Silent
  <1>1. /\ attempts' = attempts /\ peerAtt' = peerAtt /\ commits' = commits
        /\ shares' = shares
        /\ \A q \in Party : Placed(q)
    BY PlacedSilent DEF net
  <1>2. Fresh'
    <2> SUFFICES ASSUME NEW c \in commits, c.att = 0, Ahead(c.from, c.step)'
                 PROVE  Ahead(c.from, c.step)
      BY <1>1 DEF Fresh, NetInv
    <2>1. c.from \in Party /\ c.step \in Step
      BY <1>0 DEF TypeOK
    <2> QED BY <1>1, <2>1 DEF Placed, Ahead
  <1>3. LiveWire'
    BY <1>1 DEF LiveWire, NetInv, Placed
  <1>4. InRound'
    BY <1>1 DEF InRound, NetInv, Placed, Att
  <1>5. Bound'
    BY <1>1 DEF Bound, NetInv
  <1> QED BY <1>0, <1>2, <1>3, <1>4, <1>5 DEF NetInv

\* A commitment goes to a channel its sender never committed on.
LEMMA NewChannel ==
  ASSUME NetInv, NEW p \in Party, SendCommit(p)
  PROVE  /\ TypeOK' /\ pc[p] \in Step /\ ph[p] = "start"
         /\ commits' = commits \cup {Commit(p, pc[p], Att(p)')}
         /\ Commit(p, pc[p], Att(p)') \notin commits
         /\ attempts[p] <= attempts'[p] /\ Att(p)' <= attempts'[p]
         /\ wire[p] = "live" <=> Att(p)' = 0
         /\ wire[p] = "live" => UNCHANGED attempts
         /\ \A q \in Party \ {p} : attempts'[q] = attempts[q]
  <1>1. /\ pc[p] \in Step /\ ph[p] = "start" /\ wire' = wire
        /\ attempts' = IF wire[p] = "live" THEN attempts
                       ELSE [attempts EXCEPT ![p] = @ + 1]
        /\ commits' = commits \cup
             {[from |-> p, step |-> pc[p],
               att |-> IF wire[p] = "live" THEN 0 ELSE attempts[p] + 1]}
    BY DEF SendCommit
  <1>2. TypeOK /\ TypeOK' /\ attempts[p] \in Nat
    BY TypeRound DEF NetInv, Round, TypeOK
  <1>3. CASE wire[p] = "live"
    <2>1. Att(p)' = 0 /\ UNCHANGED attempts
      BY <1>1, <1>3 DEF Att
    <2>2. Commit(p, pc[p], 0) \notin commits
      <3>1. Ahead(p, pc[p])
        BY <1>1, <1>3 DEF Ahead, Earlier
      <3> QED BY <3>1 DEF NetInv, Fresh, Commit
    <2> QED BY <1>1, <1>2, <1>3, <2>1, <2>2 DEF Commit
  <1>4. CASE wire[p] # "live"
    <2>1. attempts'[p] = attempts[p] + 1 /\ Att(p)' = attempts[p] + 1
          /\ \A q \in Party \ {p} : attempts'[q] = attempts[q]
      BY <1>1, <1>2, <1>4 DEF Att, TypeOK
    <2>2. Commit(p, pc[p], attempts[p] + 1) \notin commits
      BY <1>2 DEF NetInv, Fresh, Commit
    <2> QED BY <1>1, <1>2, <1>4, <2>1, <2>2 DEF Commit
  <1> QED BY <1>3, <1>4

LEMMA NetCommit ==
  ASSUME NetInv, NEW p \in Party, SendCommit(p)
  PROVE  NetInv'
  <1>0. /\ TypeOK /\ TypeOK' /\ pc[p] \in Step /\ ph[p] = "start"
        /\ pc' = pc /\ wire' = wire /\ peerAtt' = peerAtt /\ shares' = shares
        /\ ph' = [ph EXCEPT ![p] = "commit"]
    BY NewChannel DEF SendCommit, NetInv
  <1>1. /\ commits' = commits \cup {Commit(p, pc[p], Att(p)')}
        /\ Commit(p, pc[p], Att(p)') \notin commits
    BY NewChannel
  <1>2. /\ attempts[p] <= attempts'[p] /\ Att(p)' <= attempts'[p]
        /\ \A q \in Party \ {p} : attempts'[q] = attempts[q] /\ Att(q)' = Att(q)
        /\ \A q \in Party : attempts[q] \in Nat /\ attempts'[q] \in Nat
    BY <1>0, NewChannel DEF TypeOK, Att
  <1>3. ph'[p] = "commit" /\ \A q \in Party \ {p} : ph'[q] = ph[q]
    BY <1>0 DEF TypeOK
  <1>4. \A q \in Party, s \in Step : Ahead(q, s)' => Ahead(q, s)
    BY <1>0, <1>3 DEF Ahead, Earlier
  <1>5. Fresh'
    <2> SUFFICES ASSUME NEW c \in commits'
                 PROVE  c.att <= attempts'[c.from] /\ (c.att = 0 => ~Ahead(c.from, c.step)')
      BY DEF Fresh
    <2>1. CASE c \in commits
      <3>1. c.from \in Party /\ c.step \in Step /\ c.att \in Nat
        BY <1>0, <2>1 DEF TypeOK
      <3>2. c.att <= attempts[c.from] /\ (c.att = 0 => ~Ahead(c.from, c.step))
        BY <2>1 DEF NetInv, Fresh
      <3>3. c.att <= attempts'[c.from]
        BY <1>2, <3>1, <3>2
      <3> QED BY <1>4, <3>1, <3>2, <3>3
    <2>2. CASE c = Commit(p, pc[p], Att(p)')
      <3>1. c.from = p /\ c.step = pc[p] /\ c.att = Att(p)'
        BY <2>2 DEF Commit
      <3>2. ~Ahead(c.from, c.step)'
        BY <1>0, <1>3, <3>1 DEF Ahead, Earlier, Before, BeforeOpen, BeforeRefund,
                          BeforeClaim, Step
      <3> QED BY <1>2, <3>1, <3>2
    <2> QED BY <1>1, <2>1, <2>2
  <1>6. LiveWire'
    <2>1. wire[p] # "live" => attempts'[p] > 0
      BY <1>0, <1>2, NewChannel DEF Att
    <2> QED BY <1>0, <1>2, <1>3, <2>1, NewChannel DEF NetInv, LiveWire
  <1>7. InRound'
    <2> SUFFICES ASSUME NEW q \in Party
                 PROVE  (/\ ph[q] # "start" => pc[q] \in Step /\ Commit(q, pc[q], Att(q)) \in commits
                         /\ ph[q] = "share" => Share(q, pc[q], Att(q), peerAtt[q]) \in shares
                         /\ ph[q] = "commit" =>
                              \A s \in shares : ~(s.from = q /\ s.step = pc[q] /\ s.att = Att(q)))'
      BY DEF InRound
    <2>1. CASE q = p
      <3>1. ASSUME NEW s \in shares, s.from = p, s.step = pc[p], s.att = Att(p)'
            PROVE  FALSE
        <4>1. Commit(s.from, s.step, s.att) \in commits
          BY DEF NetInv, Bound
        <4> QED BY <1>1, <3>1, <4>1
      <3> QED BY <1>0, <1>1, <1>3, <2>1, <3>1
    <2>2. CASE q # p
      <3>1. Att(q)' = Att(q) /\ ph'[q] = ph[q] /\ commits \subseteq commits'
        BY <1>1, <1>2, <1>3, <2>2
      <3> QED BY <1>0, <3>1 DEF NetInv, InRound
    <2> QED BY <2>1, <2>2
  <1>8. Bound'
    BY <1>0, <1>1 DEF NetInv, Bound
  <1> QED BY <1>0, <1>5, <1>6, <1>7, <1>8 DEF NetInv

\* recv answers on a channel the peer committed on; the share names it.
LEMMA NewShare ==
  ASSUME NetInv, NEW p \in Party, SendShare(p)
  PROVE  /\ TypeOK' /\ pc[p] \in Step /\ ph[p] = "commit"
         /\ UNCHANGED <<pc, wire, attempts, commits, chain, store>>
         /\ ph' = [ph EXCEPT ![p] = "share"]
         /\ Commit(Peer(p), pc[p], peerAtt'[p]) \in commits
         /\ shares' = shares \cup {Share(p, pc[p], Att(p), peerAtt'[p])}
         /\ wire[p] = "live" <=> peerAtt'[p] = 0
         /\ \A q \in Party \ {p} : peerAtt'[q] = peerAtt[q]
  <1>1. PICK c \in Heard(p) :
          /\ peerAtt' = [peerAtt EXCEPT ![p] = c.att]
          /\ shares' = shares \cup {[from |-> p, step |-> pc[p], att |-> Att(p),
                                     peer |-> c.att]}
    BY DEF SendShare
  <1>2. TypeOK /\ TypeOK'
    BY TypeRound DEF NetInv, Round
  <1>3. c \in commits /\ c.from = Peer(p) /\ c.step = pc[p] /\ c.att \in Listens(p)
    BY DEF Heard
  <1>4. c = Commit(Peer(p), pc[p], c.att)
    <2>1. c \in [from : Party, step : Step, att : Channel]
      BY <1>2, <1>3 DEF TypeOK
    <2> QED BY <1>3, <2>1 DEF Commit
  <1>5. peerAtt'[p] = c.att /\ \A q \in Party \ {p} : peerAtt'[q] = peerAtt[q]
    BY <1>1, <1>2 DEF TypeOK
  <1>6. wire[p] = "live" <=> c.att = 0
    BY <1>2, <1>3 DEF Listens, TypeOK
  <1>7. /\ pc[p] \in Step /\ ph[p] = "commit"
        /\ UNCHANGED <<pc, wire, attempts, commits, chain, store>>
        /\ ph' = [ph EXCEPT ![p] = "share"]
    BY DEF SendShare
  <1>8. shares' = shares \cup {Share(p, pc[p], Att(p), peerAtt'[p])}
    BY <1>1, <1>5 DEF Share
  <1> QED BY <1>2, <1>3, <1>4, <1>5, <1>6, <1>7, <1>8

LEMMA NetShare ==
  ASSUME NetInv, NEW p \in Party, SendShare(p)
  PROVE  NetInv'
  <1>0. /\ TypeOK /\ TypeOK' /\ pc[p] \in Step /\ ph[p] = "commit"
        /\ UNCHANGED <<pc, wire, attempts, commits>>
        /\ ph' = [ph EXCEPT ![p] = "share"]
    BY NewShare DEF NetInv
  <1>1. shares' = shares \cup {Share(p, pc[p], Att(p), peerAtt'[p])}
    BY NewShare
  <1>2. /\ ph'[p] = "share" /\ \A q \in Party \ {p} : ph'[q] = ph[q]
        /\ \A q \in Party : Att(q)' = Att(q)
    BY <1>0 DEF TypeOK, Att
  <1>3. \A q \in Party, s \in Step : Ahead(q, s)' => Ahead(q, s)
    BY <1>0, <1>2 DEF Ahead, Earlier
  <1>4. Fresh'
    <2> SUFFICES ASSUME NEW c \in commits, c.att = 0, Ahead(c.from, c.step)'
                 PROVE  Ahead(c.from, c.step)
      BY <1>0 DEF Fresh, NetInv
    <2>1. c.from \in Party /\ c.step \in Step
      BY <1>0 DEF TypeOK
    <2> QED BY <1>3, <2>1
  <1>5. LiveWire'
    <2>1. wire[p] # "live" => peerAtt'[p] > 0
      BY <1>0, NewShare DEF TypeOK
    <2> QED BY <1>0, <1>2, <2>1, NewShare DEF NetInv, LiveWire
  <1>6. InRound'
    <2> SUFFICES ASSUME NEW q \in Party
                 PROVE  (/\ ph[q] # "start" => pc[q] \in Step /\ Commit(q, pc[q], Att(q)) \in commits
                         /\ ph[q] = "share" => Share(q, pc[q], Att(q), peerAtt[q]) \in shares
                         /\ ph[q] = "commit" =>
                              \A s \in shares : ~(s.from = q /\ s.step = pc[q] /\ s.att = Att(q)))'
      BY DEF InRound
    <2>1. CASE q = p
      <3>1. Commit(p, pc[p], Att(p)) \in commits
        BY <1>0 DEF NetInv, InRound
      <3> QED BY <1>0, <1>1, <1>2, <2>1, <3>1
    <2>2. CASE q # p
      <3>1. ph'[q] = ph[q] /\ Att(q)' = Att(q) /\ peerAtt'[q] = peerAtt[q]
        BY <1>2, <2>2, NewShare
      <3>2. \A s \in shares' : s.from = q => s \in shares
        BY <1>1, <2>2 DEF Share
      <3>3. shares \subseteq shares'
        BY <1>1
      <3> QED BY <1>0, <3>1, <3>2, <3>3 DEF NetInv, InRound
    <2> QED BY <2>1, <2>2
  <1>7. Bound'
    <2> SUFFICES ASSUME NEW s \in shares'
                 PROVE  /\ Commit(s.from, s.step, s.att) \in commits
                        /\ Commit(Peer(s.from), s.step, s.peer) \in commits
      BY <1>0 DEF Bound
    <2>1. CASE s \in shares
      BY <2>1 DEF NetInv, Bound
    <2>2. CASE s = Share(p, pc[p], Att(p), peerAtt'[p])
      <3>1. s.from = p /\ s.step = pc[p] /\ s.att = Att(p) /\ s.peer = peerAtt'[p]
        BY <2>2 DEF Share
      <3>2. Commit(p, pc[p], Att(p)) \in commits
        BY <1>0 DEF NetInv, InRound
      <3> QED BY <3>1, <3>2, NewShare
    <2> QED BY <1>1, <2>1, <2>2
  <1> QED BY <1>0, <1>4, <1>5, <1>6, <1>7 DEF NetInv

LEMMA NetNext == NetInv /\ [Next]_vars => NetInv'
  BY NetSilent, NetCommit, NetShare DEF Silent

LEMMA NetInvariant == Spec => []NetInv
  BY NetInit, NetNext, PTL DEF Spec

\* No (key, nonce) slot of a step channel ever sees two plaintexts: whatever
\* crashes and resumes, a commitment goes to a channel its sender has not used.
THEOREM NonceFresh == Spec => FreshNonce
  <1>1. NetInv /\ [Next]_vars =>
          [\A p \in Party :
             ph[p] = "start" /\ ph'[p] = "commit" => commits' # commits]_vars
    <2> SUFFICES ASSUME NetInv, [Next]_vars, NEW p \in Party,
                        ph[p] = "start", ph'[p] = "commit"
                 PROVE  commits' # commits
      OBVIOUS
    <2>1. CASE Silent
      <3>1. Placed(p)
        BY <2>1, PlacedSilent
      <3> QED BY <3>1 DEF Placed
    <2>2. CASE \E q \in Party : SendCommit(q)
      BY <2>2, NewChannel
    <2>3. CASE \E q \in Party : SendShare(q)
      <3>1. PICK q \in Party : SendShare(q)
        BY <2>3
      <3>2. ph[q] = "commit" /\ ph' = [ph EXCEPT ![q] = "share"] /\ ph \in [Party -> {"start", "commit", "share"}]
        BY <3>1 DEF SendShare, NetInv, TypeOK
      <3> QED BY <3>2
    <2> QED BY <2>1, <2>2, <2>3 DEF Silent
  <1> QED BY NetInvariant, <1>1, PTL DEF Spec, FreshNonce

-----------------------------------------------------------------------------
(***************************************************************************)
(* What a driver's places and markers stand for on the chains (for every   *)
(* instance), and, unless B's process can die between sending its lock and  *)
(* recording it ("lock" \notin Windows), that a lock is on record before it *)
(* can be sent again.                                                       *)
(***************************************************************************)

Recorded ==
  /\ settled # "none" => settled \in posted
  /\ pc["B"] = "claimSave" \/ Has("B", "claim") => "claim" \in posted
  /\ pc["B"] = "recoverSave" => sweeper = "B"
  /\ pc["A"] = "refundSave" \/ Has("A", "refunded") => "refund" \in posted
  /\ pc["A"] = "sweepSave" \/ Has("A", "sweep") => sweeper = "A"

LockKept ==
  /\ LocksOnce
  /\ locks > 0 => Has("B", "lock") \/ pc["B"] = "lockSave"
  /\ pc["B"] \in {"openWait", "open", "refund", "lockGuard", "lockGate", "lockSave"} =>
       ~Has("B", "lock")
  /\ Has("B", "skipped") => Has("B", "lock") /\ locks = 0

LEMMA KeptInit == Init => Recorded /\ LockKept
  BY DEF Init, Recorded, LockKept, LocksOnce, Has

\* The places a fault cannot strike.
LEMMA NoFaultAtLock ==
  ASSUME "lock" \notin Windows, MayFail("B")
  PROVE  pc["B"] # "lockSave"
  BY DEF MayFail, InWindow

LEMMA KeptA ==
  ASSUME TypeOK, Recorded, NextA
  PROVE  /\ Recorded' /\ UNCHANGED locks /\ pc'["B"] = pc["B"] /\ store'["B"] = store["B"]
         /\ posted \subseteq posted' /\ (sweeper # "none" => sweeper' = sweeper)
  <1> USE DEF TypeOK, Recorded, Has, Spend, chain, monero, net, Go, Save
  <1>1. CASE FundSend BY <1>1 DEF FundSend
  <1>2. CASE FundSave BY <1>2 DEF FundSave
  <1>3. CASE OpenTx BY <1>3 DEF OpenTx
  <1>4. CASE OpenSave BY <1>4 DEF OpenSave
  <1>5. CASE LockSeen BY <1>5 DEF LockSeen
  <1>6. CASE LockAbandon BY <1>6 DEF LockAbandon
  <1>7. CASE ClaimGate BY <1>7 DEF ClaimGate
  <1>8. CASE PresignSave BY <1>8 DEF PresignSave, Aggregates
  <1>9. CASE ClaimSeen BY <1>9 DEF ClaimSeen, Moved
  <1>10. CASE ClaimDeadline BY <1>10 DEF ClaimDeadline
  <1>11. CASE ClaimUnread BY <1>11 DEF ClaimUnread
  <1>12. CASE RefundPost BY <1>12 DEF RefundPost, Accepts, Post
  <1>13. CASE RefundRefused BY <1>13 DEF RefundRefused
  <1>14. CASE RefundSave BY <1>14 DEF RefundSave
  <1>15. CASE XmrSweep BY <1>15 DEF XmrSweep
  <1>16. CASE SweepSave BY <1>16 DEF SweepSave
  <1>17. CASE FundGiveUp("A") BY <1>17 DEF FundGiveUp
  <1> QED BY <1>1, <1>2, <1>3, <1>4, <1>5, <1>6, <1>7, <1>8, <1>9, <1>10,
             <1>11, <1>12, <1>13, <1>14, <1>15, <1>16, <1>17 DEF NextA

LEMMA RecordedB ==
  ASSUME TypeOK, Recorded, NextB
  PROVE  /\ Recorded' /\ pc'["A"] = pc["A"] /\ store'["A"] = store["A"]
         /\ posted \subseteq posted' /\ UNCHANGED joint
         /\ (sweeper # "none" => sweeper' = sweeper)
  <1> USE DEF TypeOK, Recorded, Has, Spend, chain, monero, net, Go, Save
  <1>1. CASE FundGiveUp("B") BY <1>1 DEF FundGiveUp
  <1>2. CASE LockGuard BY <1>2 DEF LockGuard
  <1>3. CASE LockDecline BY <1>3 DEF LockDecline
  <1>4. CASE LockSend BY <1>4 DEF LockSend
  <1>5. CASE LockSave BY <1>5 DEF LockSave
  <1>6. CASE CheckMoved BY <1>6 DEF CheckMoved, OnMoved, Moved
  <1>7. CASE ConfWait BY <1>7 DEF ConfWait
  <1>8. CASE ClaimAgreed BY <1>8 DEF ClaimAgreed
  <1>9. CASE ClaimPost BY <1>9 DEF ClaimPost, Accepts, Post
  <1>10. CASE ClaimSave BY <1>10 DEF ClaimSave
  <1>11. CASE Fallback BY <1>11 DEF Fallback, OnMoved, Moved
  <1>12. CASE Recover BY <1>12 DEF Recover
  <1>13. CASE RecoverNone BY <1>13 DEF RecoverNone
  <1>14. CASE RecoverSave BY <1>14 DEF RecoverSave
  <1> QED BY <1>1, <1>2, <1>3, <1>4, <1>5, <1>6, <1>7, <1>8, <1>9, <1>10,
             <1>11, <1>12, <1>13, <1>14 DEF NextB

LEMMA RecordedNext == TypeOK /\ Recorded /\ [Next]_vars => Recorded'
  <1> SUFFICES ASSUME TypeOK, Recorded, [Next]_vars PROVE Recorded'
    OBVIOUS
  <1> USE DEF TypeOK, Recorded, Has, chain, monero, net
  <1>1. ASSUME NEW p \in Party, Round(p) PROVE Recorded'
    <2> USE DEF Step, Go, Save
    <2>1. CASE SendCommit(p) BY <2>1 DEF SendCommit
    <2>2. CASE SendShare(p) BY <2>2 DEF SendShare
    <2>3. CASE FundSeen(p) BY <2>3 DEF FundSeen
    <2>4. CASE OpenAgreed(p) BY <2>4 DEF OpenAgreed, Aggregates
    <2>5. CASE RefundAgreed(p) BY <2>5 DEF RefundAgreed, Aggregates
    <2>6. CASE RoundFail(p) BY <2>6 DEF RoundFail
    <2> QED BY <1>1, <2>1, <2>2, <2>3, <2>4, <2>5, <2>6 DEF Round
  <1>2. ASSUME NEW p \in Party, Restart(p) PROVE Recorded'
    BY <1>2 DEF Restart, ResumeA, ResumeB, MakerResumeA, MakerResumeB,
                PageResumeA, PageResumeB, EntryA, Save
  <1>3. ASSUME NEW p \in Party, Crash(p) PROVE Recorded'
    BY <1>3 DEF Crash
  <1>4. CASE MineXmr \/ Vote \/ UNCHANGED vars
    BY <1>4 DEF MineXmr, Vote, vars
  <1> QED BY <1>1, <1>2, <1>3, <1>4, KeptA, RecordedB DEF Next, Run

LEMMA LockKeptB ==
  ASSUME "lock" \notin Windows, TypeOK, LockKept, NextB
  PROVE  LockKept'
  <1> USE DEF TypeOK, LockKept, LocksOnce, Has, chain, monero, net, Go, Save
  <1>1. CASE FundGiveUp("B") BY <1>1 DEF FundGiveUp
  <1>2. CASE LockGuard BY <1>2 DEF LockGuard
  <1>3. CASE LockDecline BY <1>3 DEF LockDecline
  <1>4. CASE LockSend BY <1>4 DEF LockSend
  <1>5. CASE LockSave BY <1>5 DEF LockSave
  <1>6. CASE CheckMoved BY <1>6 DEF CheckMoved, OnMoved
  <1>7. CASE ConfWait BY <1>7 DEF ConfWait
  <1>8. CASE ClaimAgreed BY <1>8 DEF ClaimAgreed, Aggregates
  <1>9. CASE ClaimPost BY <1>9 DEF ClaimPost
  <1>10. CASE ClaimSave BY <1>10 DEF ClaimSave
  <1>11. CASE Fallback BY <1>11 DEF Fallback, OnMoved
  <1>12. CASE Recover BY <1>12 DEF Recover
  <1>13. CASE RecoverNone BY <1>13 DEF RecoverNone
  <1>14. CASE RecoverSave BY <1>14 DEF RecoverSave
  <1> QED BY <1>1, <1>2, <1>3, <1>4, <1>5, <1>6, <1>7, <1>8, <1>9, <1>10,
             <1>11, <1>12, <1>13, <1>14 DEF NextB

LEMMA LockKeptNext ==
  ASSUME "lock" \notin Windows
  PROVE  TypeOK /\ Recorded /\ LockKept /\ [Next]_vars => LockKept'
  <1> SUFFICES ASSUME TypeOK, Recorded, LockKept, [Next]_vars PROVE LockKept'
    OBVIOUS
  <1> USE DEF TypeOK, LockKept, LocksOnce, Has, chain, monero, net
  <1>1. ASSUME NEW p \in Party, Round(p) PROVE LockKept'
    <2> USE DEF Step, Go, Save
    <2>1. CASE SendCommit(p) BY <2>1 DEF SendCommit
    <2>2. CASE SendShare(p) BY <2>2 DEF SendShare
    <2>3. CASE FundSeen(p) BY <2>3 DEF FundSeen
    <2>4. CASE OpenAgreed(p) BY <2>4 DEF OpenAgreed, Aggregates
    <2>5. CASE RefundAgreed(p) BY <2>5 DEF RefundAgreed, Aggregates
    <2>6. CASE RoundFail(p) BY <2>6 DEF RoundFail
    <2> QED BY <1>1, <2>1, <2>2, <2>3, <2>4, <2>5, <2>6 DEF Round
  <1>2. ASSUME NEW p \in Party, Restart(p) PROVE LockKept'
    BY <1>2 DEF Restart, ResumeA, ResumeB, MakerResumeB, PageResumeB, Save
  <1>3. ASSUME NEW p \in Party, Crash(p) PROVE LockKept'
    BY <1>3, NoFaultAtLock DEF Crash
  <1>4. CASE MineXmr \/ Vote \/ UNCHANGED vars
    BY <1>4 DEF MineXmr, Vote, vars
  <1>5. CASE NextA
    BY <1>5, KeptA
  <1> QED BY <1>1, <1>2, <1>3, <1>4, <1>5, LockKeptB DEF Next, Run

LEMMA KeptInvariant ==
  ASSUME "lock" \notin Windows
  PROVE  Spec => [](TypeOK /\ Recorded /\ LockKept)
  <1>1. TypeOK /\ Recorded /\ LockKept /\ [Next]_vars => (TypeOK /\ Recorded /\ LockKept)'
    BY TypeNext, RecordedNext, LockKeptNext
  <1> QED BY TypeInit, KeptInit, <1>1, PTL DEF Spec

\* Whatever else crashes, times out or is resumed, B sends its Monero once, as
\* long as its process does not die between the transfer and the record of it.
THEOREM LocksOnlyOnce == ASSUME "lock" \notin Windows PROVE Spec => []LocksOnce
  <1>1. LockKept => LocksOnce
    BY DEF LockKept
  <1> QED BY KeptInvariant, <1>1, PTL

\* A finished B: how each way to be done leaves it.
LEMMA DoneB ==
  ASSUME {"lock", "immature"} \cap Windows = {}, TypeOK, Recorded, LockKept, NextB,
         ClosedB
  PROVE  ClosedB'
  <1>1. posted \subseteq posted' /\ (sweeper # "none" => sweeper' = sweeper)
    BY RecordedB
  <1>2. CASE pc["B"] = "done"
    BY <1>2 DEF NextB, FundGiveUp, LockGuard, LockDecline, LockSend, LockSave,
                CheckMoved, ConfWait, ClaimAgreed, Aggregates, ClaimPost, ClaimSave,
                Fallback, Recover, RecoverNone, RecoverSave
  <1> USE DEF TypeOK, Recorded, LockKept, ClosedB, Has, Spend, chain, monero, net, Go, Save
  <1>3. CASE FundGiveUp("B") BY <1>3 DEF FundGiveUp
  <1>4. CASE LockDecline BY <1>4 DEF LockDecline
  <1>5. CASE CheckMoved BY <1>5 DEF CheckMoved, OnMoved, Moved
  <1>6. CASE ClaimSave BY <1>6 DEF ClaimSave
  <1>7. CASE Fallback BY <1>7 DEF Fallback, OnMoved, Moved
  <1>8. CASE RecoverNone
    <2>1. locks = 0
      BY <1>8 DEF RecoverNone
    <2> QED BY <1>8, <2>1 DEF RecoverNone
  <1>9. CASE RecoverSave BY <1>9 DEF RecoverSave
  <1>10. CASE LockGuard \/ LockSend \/ LockSave \/ ConfWait \/ ClaimAgreed \/ ClaimPost
              \/ Recover
    <2>1. pc'["B"] # "done"
      BY <1>10 DEF LockGuard, LockSend, LockSave, ConfWait, ClaimAgreed, ClaimPost, Recover
    <2> QED BY <2>1
  <1> QED BY <1>2, <1>3, <1>4, <1>5, <1>6, <1>7, <1>8, <1>9, <1>10 DEF NextB

\* B's session is closed only over a finished leg, for any agents: its lock was
\* never sent, or is home, or its claim was accepted.
THEOREM ClosesB ==
  ASSUME {"lock", "immature"} \cap Windows = {}
  PROVE  Spec => []ClosedB
  <1>1. Init => ClosedB
    BY DEF Init, ClosedB
  <1>2. TypeOK /\ Recorded /\ LockKept /\ ClosedB /\ [Next]_vars => ClosedB'
    <2> SUFFICES ASSUME TypeOK, Recorded, LockKept, ClosedB, [Next]_vars PROVE ClosedB'
      OBVIOUS
    <2> USE DEF TypeOK, ClosedB, chain, monero, net
    <2>1. ASSUME NEW p \in Party, Round(p) PROVE ClosedB'
      <3> USE DEF Step, Go
      <3>1. CASE SendCommit(p) BY <3>1 DEF SendCommit
      <3>2. CASE SendShare(p) BY <3>2 DEF SendShare
      <3>3. CASE FundSeen(p) BY <3>3 DEF FundSeen
      <3>4. CASE OpenAgreed(p) BY <3>4 DEF OpenAgreed, Aggregates
      <3>5. CASE RefundAgreed(p) BY <3>5 DEF RefundAgreed, Aggregates
      <3>6. CASE RoundFail(p) BY <3>6 DEF RoundFail
      <3> QED BY <2>1, <3>1, <3>2, <3>3, <3>4, <3>5, <3>6 DEF Round
    <2>2. ASSUME NEW p \in Party, Restart(p) PROVE ClosedB'
      <3>1. CASE p = "A"
        BY <2>2, <3>1 DEF Restart
      <3>2. CASE p = "B"
        <4>1. pc["B"] = "down" /\ UNCHANGED <<posted, locks, sweeper>>
          BY <2>2, <3>2 DEF Restart
        <4>2. pc'["B"] = "done" => "done" \in ResumeB
          BY <2>2, <3>2 DEF Restart
        <4>3. "done" \in ResumeB => Has("B", "claim") \/ ~Has("B", "lock")
          BY DEF ResumeB, MakerResumeB, PageResumeB, Has
        <4> QED BY <4>1, <4>2, <4>3 DEF Recorded, LockKept
      <3> QED BY <3>1, <3>2
    <2>3. ASSUME NEW p \in Party, Crash(p) PROVE ClosedB'
      BY <2>3 DEF Crash
    <2>4. CASE MineXmr \/ Vote \/ UNCHANGED vars
      BY <2>4 DEF MineXmr, Vote, vars
    <2>5. CASE NextA
      <3>1. /\ UNCHANGED locks /\ pc'["B"] = pc["B"] /\ posted \subseteq posted'
            /\ sweeper # "none" => sweeper' = sweeper
        BY <2>5, KeptA
      <3> QED BY <3>1 DEF Spend
    <2> QED BY <2>1, <2>2, <2>3, <2>4, <2>5, DoneB DEF Next, Run
  <1>3. "lock" \notin Windows
    OBVIOUS
  <1> QED BY <1>1, <1>2, <1>3, KeptInvariant, PTL DEF Spec

-----------------------------------------------------------------------------
(***************************************************************************)
(* Unless a fault may strike while A's coins stand in the joint account     *)
(* without a refund ("unprotected" \notin Windows), both drivers are then on *)
(* the live wire, on their way to the refund round, and B is past that      *)
(* round only when both shares of it are posted.                            *)
(***************************************************************************)

Exposed == joint # "empty" /\ ~Has("A", "refund")

Unstarted ==
  /\ pc["A"] = "fund" =>
       /\ joint = "empty" /\ store["A"] = {} /\ wire["A"] = "live"
       /\ pc["B"] = "openWait" /\ wire["B"] = "live"
  /\ joint = "empty" =>
       /\ posted = {} /\ settled = "none" /\ locks = 0
       /\ pc["A"] \in {"fund", "down", "done"} /\ store["A"] \cap {"open", "refund"} = {}
       /\ pc["B"] \in {"openWait", "down", "done"} /\ store["B"] \cap {"open", "lock"} = {}

OpenFirst ==
  /\ pc["A"] = "refund" \/ Has("A", "refund") => Has("A", "open")
  /\ pc["A"] \in {"fund", "fundSave", "openWait"} => ~Has("A", "open")

ToRefund == {"openWait", "open", "refund"}    \* B, up to the refund round

OnTrack ==
  Exposed =>
    /\ wire["A"] = "live" /\ wire["B"] = "live"
    /\ posted = {} /\ settled = "none"
    /\ pc["A"] \in {"fundSave", "openWait", "open", "openTx", "openSave", "refund"}
    /\ pc["B"] \in ToRefund \cup {"lockGuard", "lockGate", "lockSave", "checkMoved",
                                  "confWait", "claim", "done"}
    /\ pc["B"] \in ToRefund => locks = 0
    /\ pc["B"] \notin ToRefund => /\ Share("A", "refund", 0, 0) \in shares
                                  /\ Share("B", "refund", 0, 0) \in shares

Sheltered == Unstarted /\ OpenFirst /\ OnTrack

LEMMA ShelteredInit == Init => Sheltered
  BY DEF Init, Sheltered, Unstarted, OpenFirst, OnTrack, Exposed, Has

\* No fault strikes a side while A is exposed, nor B while A is about to fund.
LEMMA NoFaultExposed ==
  ASSUME "unprotected" \notin Windows, NEW p \in Party, MayFail(p)
  PROVE  ~Exposed /\ (p = "B" => pc["A"] # "fund" \/ Has("A", "refund"))
  BY DEF MayFail, InWindow, Exposed

\* On the live wire a round's shares fit: while A is exposed, none breaks.
LEMMA NoBreakExposed ==
  ASSUME "unprotected" \notin Windows, NetInv, OnTrack, Exposed, NEW p \in Party
  PROVE  ~RoundFail(p)
  <1> SUFFICES ASSUME pc[p] \in Step, RoundBreaks(p) PROVE FALSE
    BY DEF RoundFail
  <1>1. wire[p] = "live" /\ attempts[p] = 0 /\ Att(p) = 0
    BY DEF OnTrack, NetInv, LiveWire, Att
  <1>2. ~MayFail(p)
    BY NoFaultExposed
  <1>3. PICK s \in PeerShare(p) : s.peer # Att(p)
    BY <1>1, <1>2 DEF RoundBreaks
  <1>4. s \in shares /\ s.from = Peer(p) /\ s.peer \in Nat
    BY <1>3 DEF PeerShare, NetInv, TypeOK
  <1>5. Commit(p, s.step, s.peer) \in commits
    BY <1>4 DEF NetInv, Bound
  <1>6. s.peer <= attempts[p]
    BY <1>5 DEF NetInv, Fresh, Commit
  <1> QED BY <1>1, <1>3, <1>4, <1>6

\* Nor can B complete a claim round A has not begun.
LEMMA NoClaimExposed ==
  ASSUME NetInv, OnTrack, Exposed
  PROVE  ~Aggregates("B", "claim")
  <1> SUFFICES ASSUME NEW s \in shares, s.from = "A", s.step = "claim" PROVE FALSE
    BY DEF Aggregates, PeerShare
  <1>1. Commit("A", "claim", s.att) \in commits /\ s.att \in Nat
    BY DEF NetInv, Bound, TypeOK
  <1>2. s.att <= attempts["A"] /\ (s.att = 0 => ~Ahead("A", "claim"))
    BY <1>1 DEF NetInv, Fresh, Commit
  <1>3. wire["A"] = "live" /\ attempts["A"] = 0
    BY DEF OnTrack, NetInv, LiveWire
  <1>4. pc["A"] \in BeforeClaim
    BY DEF OnTrack, BeforeClaim, BeforeRefund, BeforeOpen
  <1> QED BY <1>1, <1>2, <1>3, <1>4 DEF Ahead, Earlier, Before

LEMMA ShelteredRound ==
  ASSUME "unprotected" \notin Windows, NetInv, Sheltered, NEW p \in Party, Round(p)
  PROVE  Sheltered'
  <1> USE DEF NetInv, TypeOK, Sheltered, Unstarted, OpenFirst, OnTrack, Exposed, ToRefund,
              Has, Step, chain, monero, net
  <1>1. CASE SendCommit(p)
    BY <1>1 DEF SendCommit
  <1>2. CASE SendShare(p)
    <2>1. shares \subseteq shares'
      BY <1>2, NewShare
    <2> QED BY <1>2, <2>1 DEF SendShare
  <1>3. CASE FundSeen(p)
    BY <1>3 DEF FundSeen, Go
  <1>4. CASE OpenAgreed(p)
    BY <1>4 DEF OpenAgreed, Aggregates, Go, Save
  <1>5. CASE RefundAgreed(p)
    <2>1. CASE p = "A"
      BY <1>5, <2>1 DEF RefundAgreed, Aggregates, Go, Save
    <2>2. CASE p = "B"
      <3>1. Exposed => /\ Share("A", "refund", 0, 0) \in shares
                       /\ Share("B", "refund", 0, 0) \in shares
        <4> SUFFICES ASSUME Exposed
                     PROVE  /\ Share("A", "refund", 0, 0) \in shares
                            /\ Share("B", "refund", 0, 0) \in shares
          OBVIOUS
        <4>1. Att("B") = 0 /\ peerAtt["B"] = 0
          BY DEF LiveWire, Att
        <4>2. PICK s \in PeerShare("B") : s.peer = 0
          BY <1>5, <2>2, <4>1 DEF RefundAgreed, Aggregates
        <4>3. s = Share("A", "refund", 0, 0)
          BY <1>5, <2>2, <4>1, <4>2 DEF PeerShare, Share, RefundAgreed, Aggregates
        <4>4. Share("B", "refund", 0, 0) \in shares
          BY <1>5, <2>2, <4>1 DEF InRound, RefundAgreed, Aggregates
        <4> QED BY <4>2, <4>3, <4>4 DEF PeerShare
      <3> QED BY <1>5, <2>2, <3>1 DEF RefundAgreed, Aggregates, Go, Save
    <2> QED BY <2>1, <2>2
  <1>6. CASE RoundFail(p)
    <2>1. ~Exposed
      BY <1>6, NoBreakExposed
    <2> QED BY <1>6, <2>1 DEF RoundFail, Go
  <1> QED BY <1>1, <1>2, <1>3, <1>4, <1>5, <1>6 DEF Round

LEMMA ShelteredA ==
  ASSUME "unprotected" \notin Windows, NetInv, Sheltered, NextA
  PROVE  Sheltered'
  <1> USE DEF NetInv, TypeOK, Sheltered, Unstarted, OpenFirst, OnTrack, Exposed, ToRefund,
              Has, chain, monero, net, Go, Save
  <1>1. CASE FundSend BY <1>1 DEF FundSend
  <1>2. CASE FundSave BY <1>2 DEF FundSave
  <1>3. CASE OpenTx BY <1>3 DEF OpenTx
  <1>4. CASE OpenSave BY <1>4 DEF OpenSave
  <1>5. CASE LockSeen BY <1>5 DEF LockSeen
  <1>6. CASE LockAbandon BY <1>6 DEF LockAbandon
  <1>7. CASE ClaimGate BY <1>7 DEF ClaimGate
  <1>8. CASE PresignSave BY <1>8 DEF PresignSave, Aggregates
  <1>9. CASE ClaimSeen BY <1>9 DEF ClaimSeen
  <1>10. CASE ClaimDeadline BY <1>10 DEF ClaimDeadline
  <1>11. CASE ClaimUnread BY <1>11 DEF ClaimUnread
  <1>12. CASE RefundPost BY <1>12 DEF RefundPost, Post
  <1>13. CASE RefundRefused BY <1>13 DEF RefundRefused
  <1>14. CASE RefundSave BY <1>14 DEF RefundSave
  <1>15. CASE XmrSweep BY <1>15 DEF XmrSweep
  <1>16. CASE SweepSave BY <1>16 DEF SweepSave
  <1>17. CASE FundGiveUp("A") BY <1>17, NoFaultExposed DEF FundGiveUp
  <1> QED BY <1>1, <1>2, <1>3, <1>4, <1>5, <1>6, <1>7, <1>8, <1>9, <1>10,
             <1>11, <1>12, <1>13, <1>14, <1>15, <1>16, <1>17 DEF NextA

LEMMA ShelteredB ==
  ASSUME "unprotected" \notin Windows, NetInv, Sheltered, NextB
  PROVE  Sheltered'
  <1> USE DEF NetInv, TypeOK, Sheltered, Unstarted, OpenFirst, OnTrack, Exposed, ToRefund,
              Has, chain, monero, net, Go, Save
  <1>1. CASE FundGiveUp("B")
    BY <1>1, NoFaultExposed DEF FundGiveUp
  <1>2. CASE LockGuard BY <1>2 DEF LockGuard, Moved
  <1>3. CASE LockDecline BY <1>3 DEF LockDecline
  <1>4. CASE LockSend BY <1>4 DEF LockSend
  <1>5. CASE LockSave BY <1>5 DEF LockSave
  <1>6. CASE CheckMoved BY <1>6 DEF CheckMoved, OnMoved, Moved
  <1>7. CASE ConfWait BY <1>7 DEF ConfWait
  <1>8. CASE ClaimAgreed BY <1>8, NoClaimExposed DEF ClaimAgreed, Aggregates
  <1>9. CASE ClaimPost BY <1>9 DEF ClaimPost, Post
  <1>10. CASE ClaimSave BY <1>10 DEF ClaimSave
  <1>11. CASE Fallback BY <1>11 DEF Fallback, OnMoved
  <1>12. CASE Recover BY <1>12 DEF Recover
  <1>13. CASE RecoverNone BY <1>13 DEF RecoverNone
  <1>14. CASE RecoverSave BY <1>14 DEF RecoverSave
  <1> QED BY <1>1, <1>2, <1>3, <1>4, <1>5, <1>6, <1>7, <1>8, <1>9, <1>10,
             <1>11, <1>12, <1>13, <1>14 DEF NextB

LEMMA ShelteredNext ==
  ASSUME "unprotected" \notin Windows
  PROVE  NetInv /\ Sheltered /\ [Next]_vars => Sheltered'
  <1> SUFFICES ASSUME NetInv, Sheltered, [Next]_vars PROVE Sheltered'
    OBVIOUS
  <1> USE DEF NetInv, TypeOK, Sheltered, Unstarted, OpenFirst, OnTrack, Exposed, ToRefund,
              Has, chain, monero, net
  <1>1. ASSUME NEW p \in Party, Restart(p) PROVE Sheltered'
    BY <1>1 DEF Restart, ResumeA, ResumeB, MakerResumeA, MakerResumeB,
                PageResumeA, PageResumeB, EntryA, Save
  <1>2. ASSUME NEW p \in Party, Crash(p) PROVE Sheltered'
    BY <1>2, NoFaultExposed DEF Crash
  <1>3. CASE MineXmr \/ Vote \/ UNCHANGED vars
    BY <1>3 DEF MineXmr, Vote, vars
  <1> QED BY <1>1, <1>2, <1>3, ShelteredRound, ShelteredA, ShelteredB DEF Next, Run

LEMMA ShelteredInvariant ==
  ASSUME "unprotected" \notin Windows
  PROVE  Spec => [](NetInv /\ Recorded /\ Sheltered)
  <1>1. NetInv /\ Recorded /\ Sheltered /\ [Next]_vars => (NetInv /\ Recorded /\ Sheltered)'
    BY NetNext, RecordedNext, ShelteredNext DEF NetInv
  <1> QED BY NetInit, KeptInit, ShelteredInit, <1>1, PTL DEF Spec

\* When Monero stands in the joint address, A holds its refund or has all it
\* takes to finish that round: for any agents, and with faults everywhere but
\* between A's funding and its refund.
THEOREM RefundsInHand ==
  ASSUME "unprotected" \notin Windows
  PROVE  Spec => []RefundInHand
  <1>1. NetInv /\ Sheltered => RefundInHand
    <2> SUFFICES ASSUME NetInv, Sheltered, locks > 0, ~Has("A", "refund")
                 PROVE  Aggregates("A", "refund")
      BY DEF RefundInHand
    <2>1. Exposed /\ pc["B"] \notin ToRefund
      BY DEF Exposed, Sheltered, Unstarted, OnTrack
    <2>2. /\ Share("A", "refund", 0, 0) \in shares /\ Share("B", "refund", 0, 0) \in shares
          /\ wire["A"] = "live"
          /\ pc["A"] \in {"fundSave", "openWait", "open", "openTx", "openSave", "refund"}
      BY <2>1 DEF Sheltered, OnTrack
    <2>3. Att("A") = 0 /\ peerAtt["A"] = 0
      BY <2>2 DEF NetInv, LiveWire, Att
    <2>4. Commit("A", "refund", 0) \in commits
      BY <2>2 DEF NetInv, Bound, Share
    <2>5. ~Ahead("A", "refund")
      BY <2>4 DEF NetInv, Fresh, Commit
    <2>6. pc["A"] = "refund" /\ ph["A"] # "start"
      BY <2>2, <2>5 DEF Ahead, Earlier, Before, BeforeRefund, BeforeOpen
    <2>7. ph["A"] # "commit"
      BY <2>2, <2>3, <2>6 DEF NetInv, InRound, Share
    <2>8. ph["A"] = "share"
      BY <2>6, <2>7 DEF NetInv, TypeOK
    <2>9. Share("B", "refund", 0, 0) \in PeerShare("A") /\ Share("B", "refund", 0, 0).peer = 0
      BY <2>2, <2>3, <2>6 DEF PeerShare, Share
    <2> QED BY <2>3, <2>6, <2>8, <2>9 DEF Aggregates
  <1> QED BY ShelteredInvariant, <1>1, PTL

\* A finished A: how each way to be done leaves it.
LEMMA DoneA ==
  ASSUME "unprotected" \notin Windows, TypeOK, Recorded, NextA, ClosedA, Unstarted, OpenFirst
  PROVE  ClosedA'
  <1>1. posted \subseteq posted' /\ (sweeper # "none" => sweeper' = sweeper)
    BY KeptA
  <1>2. CASE pc["A"] = "done"
    BY <1>2 DEF NextA, FundSend, FundGiveUp, FundSave, OpenTx, OpenSave, LockSeen, LockAbandon,
                ClaimGate, PresignSave, Aggregates, ClaimSeen, ClaimDeadline,
                ClaimUnread, RefundPost, RefundRefused, RefundSave, XmrSweep, SweepSave
  <1> USE DEF TypeOK, Recorded, ClosedA, Has, Spend, chain, monero, net, Go, Save
  <1>3. CASE ClaimSeen BY <1>3 DEF ClaimSeen, Moved
  <1>4. CASE RefundSave BY <1>4 DEF RefundSave
  <1>5. CASE SweepSave BY <1>5 DEF SweepSave
  <1>6. CASE FundSend \/ FundSave \/ OpenTx \/ OpenSave \/ LockSeen \/ LockAbandon
             \/ ClaimGate \/ PresignSave \/ ClaimDeadline \/ ClaimUnread
             \/ RefundPost \/ RefundRefused \/ XmrSweep
    <2>1. pc'["A"] # "done"
      BY <1>6 DEF FundSend, FundSave, OpenTx, OpenSave, LockSeen, LockAbandon,
                  ClaimGate, PresignSave, ClaimDeadline, ClaimUnread, RefundPost,
                  RefundRefused, XmrSweep
    <2> QED BY <2>1
  <1>7. CASE FundGiveUp("A")
    <2>1. pc["A"] = "openWait" /\ MayFail("A")  BY <1>7 DEF FundGiveUp
    <2>2. joint # "empty"  BY <2>1 DEF Unstarted
    <2>3. ~Has("A", "refund")  BY <2>1 DEF OpenFirst
    <2> QED BY <2>1, <2>2, <2>3, NoFaultExposed DEF Exposed
  <1> QED BY <1>2, <1>3, <1>4, <1>5, <1>6, <1>7 DEF NextA

\* A's session is closed only over a finished leg, for any agents: it never
\* funded, or swept the Monero, or its refund was accepted.
THEOREM ClosesA ==
  ASSUME "unprotected" \notin Windows
  PROVE  Spec => []ClosedA
  <1>1. Init => ClosedA
    BY DEF Init, ClosedA
  <1>2. NetInv /\ Recorded /\ Sheltered /\ ClosedA /\ [Next]_vars => ClosedA'
    <2> SUFFICES ASSUME NetInv, Recorded, Sheltered, ClosedA, [Next]_vars PROVE ClosedA'
      OBVIOUS
    <2> USE DEF NetInv, TypeOK, ClosedA, chain, monero, net
    <2>1. ASSUME NEW p \in Party, Round(p) PROVE ClosedA'
      <3> USE DEF Step, Go
      <3>1. CASE SendCommit(p) BY <3>1 DEF SendCommit
      <3>2. CASE SendShare(p) BY <3>2 DEF SendShare
      <3>3. CASE FundSeen(p) BY <3>3 DEF FundSeen
      <3>4. CASE OpenAgreed(p) BY <3>4 DEF OpenAgreed, Aggregates
      <3>5. CASE RefundAgreed(p) BY <3>5 DEF RefundAgreed, Aggregates
      <3>6. CASE RoundFail(p) BY <3>6 DEF RoundFail
      <3> QED BY <2>1, <3>1, <3>2, <3>3, <3>4, <3>5, <3>6 DEF Round
    <2>2. ASSUME NEW p \in Party, Restart(p) PROVE ClosedA'
      <3>1. CASE p = "B"
        BY <2>2, <3>1 DEF Restart
      <3>2. CASE p = "A"
        <4>1. pc["A"] = "down" /\ UNCHANGED <<joint, posted, sweeper>>
          BY <2>2, <3>2 DEF Restart
        <4>2. pc'["A"] = "done" => "done" \in ResumeA
          BY <2>2, <3>2 DEF Restart
        <4>3. "done" \in ResumeA =>
                Has("A", "sweep") \/ Has("A", "refunded") \/ ~({"open", "refund"} \subseteq store["A"])
          BY DEF ResumeA, MakerResumeA, PageResumeA, EntryA, Has
        <4>4. ~({"open", "refund"} \subseteq store["A"]) => joint = "empty"
          BY <4>1 DEF Sheltered, OpenFirst, OnTrack, Exposed, Has
        <4> QED BY <4>1, <4>2, <4>3, <4>4 DEF Recorded
      <3> QED BY <3>1, <3>2
    <2>3. ASSUME NEW p \in Party, Crash(p) PROVE ClosedA'
      BY <2>3 DEF Crash
    <2>4. CASE MineXmr \/ Vote \/ UNCHANGED vars
      BY <2>4 DEF MineXmr, Vote, vars
    <2>5. CASE NextB
      <3>1. /\ UNCHANGED joint /\ pc'["A"] = pc["A"] /\ posted \subseteq posted'
            /\ sweeper # "none" => sweeper' = sweeper
        BY <2>5, RecordedB
      <3> QED BY <3>1 DEF Spend
    <2> QED BY <2>1, <2>2, <2>3, <2>4, <2>5, DoneA DEF Next, Run, Sheltered
  <1> QED BY <1>1, <1>2, ShelteredInvariant, PTL DEF Spec

-----------------------------------------------------------------------------
(***************************************************************************)
(* Unless a fault may strike A while B can complete the presignature A has  *)
(* sent its share of ("presign" \notin Windows): a share of A's that B can  *)
(* use belongs to the round A is in, or A has the presignature.             *)
(***************************************************************************)

\* A still stands where it sent s.
StandsBy(s) == /\ pc["A"] = "claim" /\ ph["A"] = "share"
               /\ peerAtt["A"] = s.peer /\ Att("A") = s.att

\* B's claim round can use s.
Usable(s) ==
  /\ s.from = "A" /\ s.step = "claim" /\ s.peer = Att("B")
  /\ pc["B"] = "claim"
  /\ \/ ph["B"] = "commit"
     \/ ph["B"] = "share" /\ s.att = peerAtt["B"]

Claimable == pc["B"] = "claimTx" \/ "claim" \in posted

Witnessed ==
  Has("A", "presigned") \/
    /\ \A s \in shares : Usable(s) => StandsBy(s)
    /\ Claimable => Aggregates("A", "claim")

LEMMA WitnessedInit == Init => Witnessed
  BY DEF Init, Witnessed, Claimable

\* While B can complete the claim with a share of A's, no fault strikes A and
\* its round does not break.
LEMMA NoBreakStanding ==
  ASSUME "presign" \notin Windows, NetInv,
         \/ \E s \in shares : Usable(s) /\ StandsBy(s)
         \/ Aggregates("A", "claim")
  PROVE  ~MayFail("A") /\ ~RoundFail("A")
  <1>0. pc["A"] = "claim" /\ ph["A"] = "share"
    BY DEF StandsBy, Aggregates
  <1>1. PeerCanFinish
    <2>1. CASE Aggregates("A", "claim")
      BY <2>1 DEF PeerCanFinish, Aggregates
    <2>2. CASE \E s \in shares : Usable(s) /\ StandsBy(s)
      <3>1. PICK s \in shares : Usable(s) /\ StandsBy(s)
        BY <2>2
      <3>2. pc["B"] = "claim" /\ ph["B"] # "start" /\ Att("B") = peerAtt["A"]
        BY <3>1 DEF Usable, StandsBy
      <3>3. wire["B"] = wire["A"]
        BY <1>0, <3>2 DEF NetInv, LiveWire, TypeOK, Att
      <3> QED BY <3>2, <3>3 DEF PeerCanFinish
    <2> QED BY <2>1, <2>2
  <1>2. ~MayFail("A")
    BY <1>0, <1>1 DEF MayFail, InWindow
  <1>3. PeerShare("A") # {} => \E t \in PeerShare("A") : t.peer = Att("A")
    <2>1. CASE Aggregates("A", "claim")
      BY <2>1 DEF Aggregates
    <2>2. CASE \E s \in shares : Usable(s) /\ StandsBy(s)
      <3> SUFFICES ASSUME NEW t \in PeerShare("A")
                   PROVE  \E u \in PeerShare("A") : u.peer = Att("A")
        OBVIOUS
      <3>1. PICK s \in shares : Usable(s) /\ StandsBy(s)
        BY <2>2
      <3>2. t \in shares /\ t.from = "B" /\ t.step = "claim" /\ t.att = Att("B")
        BY <1>0, <3>1 DEF PeerShare, Usable, StandsBy
      <3>3. ph["B"] = "share" /\ pc["B"] = "claim" /\ s.att = peerAtt["B"]
        BY <3>1, <3>2 DEF Usable, NetInv, InRound
      <3>4. Share("B", "claim", Att("B"), peerAtt["B"]) \in shares
        BY <3>3 DEF NetInv, InRound
      <3>5. peerAtt["A"] = Att("B") /\ Att("A") = peerAtt["B"]
        BY <3>1, <3>3 DEF Usable, StandsBy
      <3>6. Share("B", "claim", Att("B"), peerAtt["B"]) \in PeerShare("A")
        BY <1>0, <3>4, <3>5 DEF PeerShare, Share
      <3> QED BY <3>5, <3>6 DEF Share
    <2> QED BY <2>1, <2>2
  <1>4. ~RoundBreaks("A")
    BY <1>0, <1>2, <1>3 DEF RoundBreaks
  <1> QED BY <1>2, <1>4 DEF RoundFail

\* What the other side keeps, and a side that has moved on.
Stays(p) == /\ UNCHANGED <<pc[p], ph[p], wire[p], attempts[p], peerAtt[p]>>
            /\ store[p] \subseteq store'[p]

\* A step of B's that posts nothing new and does not agree on the claim.
LEMMA WitnessedB ==
  ASSUME Witnessed, Stays("A"), UNCHANGED shares, Claimable' => Claimable,
         pc'["B"] = "claim" => ph'["B"] = "start"
  PROVE  Witnessed'
  <1>1. Aggregates("A", "claim")' <=> Aggregates("A", "claim")
    BY DEF Stays, Aggregates, PeerShare, Att
  <1>2. \A s \in shares' : ~Usable(s)'
    BY DEF Usable
  <1> QED BY <1>1, <1>2 DEF Witnessed, Stays, Has

\* A step of A's from where it stands by nothing.
LEMMA WitnessedA ==
  ASSUME Witnessed, Stays("B"), UNCHANGED shares, Claimable' => Claimable,
         store["A"] \subseteq store'["A"],
         ~(pc["A"] = "claim" /\ ph["A"] = "share")
  PROVE  Witnessed'
  <1>1. ~Aggregates("A", "claim") /\ \A s : ~StandsBy(s)
    BY DEF Aggregates, StandsBy
  <1>2. \A s : Usable(s)' <=> Usable(s)
    BY DEF Usable, Stays, Att
  <1> QED BY <1>1, <1>2 DEF Witnessed, Has

LEMMA GoStays ==
  ASSUME TypeOK, NEW p \in Party, NEW q \in Party \ {p}, NEW l, Go(p, l), UNCHANGED net,
         UNCHANGED store \/ \E K \in SUBSET Key : Save(p, K)
  PROVE  Stays(q) /\ UNCHANGED shares /\ store[p] \subseteq store'[p]
  <1>1. UNCHANGED <<pc[q], ph[q], wire[q], attempts, peerAtt, shares>>
    BY DEF TypeOK, Go, net
  <1>2. \A r \in Party : store[r] \subseteq store'[r]
    BY DEF TypeOK, Save
  <1> QED BY <1>1, <1>2 DEF Stays

LEMMA StaysA ==
  ASSUME TypeOK, NextA
  PROVE  /\ Stays("B") /\ UNCHANGED shares /\ store["A"] \subseteq store'["A"]
         /\ Claimable' => Claimable
  <1>1. \E l : Go("A", l)
    BY DEF NextA, FundSend, FundGiveUp, FundSave, OpenTx, OpenSave, LockSeen, LockAbandon, ClaimGate,
           PresignSave, ClaimSeen, ClaimDeadline, ClaimUnread, RefundPost, RefundRefused,
           RefundSave, XmrSweep, SweepSave
  <1>2. UNCHANGED store \/ \E K \in SUBSET Key : Save("A", K)
    BY DEF NextA, FundSend, FundGiveUp, FundSave, OpenTx, OpenSave, LockSeen, LockAbandon, ClaimGate,
           PresignSave, ClaimSeen, ClaimDeadline, ClaimUnread, RefundPost, RefundRefused,
           RefundSave, XmrSweep, SweepSave, Key
  <1>3. UNCHANGED posted \/ posted' = posted \cup {"refund"}
    BY DEF NextA, FundSend, FundGiveUp, FundSave, OpenTx, OpenSave, LockSeen, LockAbandon, ClaimGate,
           PresignSave, ClaimSeen, ClaimDeadline, ClaimUnread, RefundPost, RefundRefused,
           RefundSave, XmrSweep, SweepSave, Post, chain
  <1>4. Stays("B") /\ UNCHANGED shares /\ store["A"] \subseteq store'["A"]
    BY <1>1, <1>2, GoStays, PlacedA
  <1> QED BY <1>3, <1>4 DEF Claimable, Stays

LEMMA StaysB ==
  ASSUME TypeOK, NextB
  PROVE  /\ Stays("A") /\ UNCHANGED shares
         /\ pc'["B"] # "claim" \/ ph'["B"] = "start"
         /\ Claimable' => Claimable \/ ClaimAgreed
  <1>1. \E l : Go("B", l)
    BY DEF NextB, FundGiveUp, LockGuard, LockDecline, LockSend, LockSave, CheckMoved,
           OnMoved, ConfWait, ClaimAgreed, ClaimPost, ClaimSave, Fallback, Recover,
           RecoverNone, RecoverSave
  <1>2. UNCHANGED store \/ \E K \in SUBSET Key : Save("B", K)
    BY DEF NextB, FundGiveUp, LockGuard, LockDecline, LockSend, LockSave, CheckMoved,
           OnMoved, ConfWait, ClaimAgreed, ClaimPost, ClaimSave, Fallback, Recover,
           RecoverNone, RecoverSave, Key
  <1>3. Stays("A") /\ UNCHANGED shares
    BY <1>1, <1>2, GoStays, PlacedB
  <1>4. ph'["B"] = "start"
    BY <1>1 DEF Go, TypeOK
  <1>5. CASE ClaimPost
    BY <1>3, <1>4, <1>5 DEF ClaimPost, Claimable
  <1>6. CASE ~ClaimPost /\ ~ClaimAgreed
    <2>1. UNCHANGED posted /\ pc'["B"] # "claimTx"
      BY <1>6 DEF NextB, FundGiveUp, LockGuard, LockDecline, LockSend, LockSave, CheckMoved,
           OnMoved, ConfWait, ClaimSave, Fallback, Recover, RecoverNone, RecoverSave,
           Go, TypeOK, chain
    <2> QED BY <1>3, <1>4, <2>1 DEF Claimable
  <1> QED BY <1>3, <1>4, <1>5, <1>6

\* When B's claim round agrees, A's half of it can finish as well.
LEMMA AgreedWitness ==
  ASSUME NetInv, Witnessed, ClaimAgreed
  PROVE  Has("A", "presigned") \/ Aggregates("A", "claim")
  <1>1. pc["B"] = "claim" /\ ph["B"] = "share"
    BY DEF ClaimAgreed, Aggregates
  <1>2. PICK s \in PeerShare("B") : s.peer = Att("B")
    BY DEF ClaimAgreed, Aggregates
  <1>3. s \in shares /\ Usable(s) /\ s.att = peerAtt["B"]
    BY <1>1, <1>2 DEF PeerShare, Usable
  <1>4. Share("B", "claim", Att("B"), peerAtt["B"]) \in shares
    BY <1>1 DEF NetInv, InRound
  <1>5. ASSUME StandsBy(s) PROVE Aggregates("A", "claim")
    <2>1. /\ Share("B", "claim", Att("B"), peerAtt["B"]) \in PeerShare("A")
          /\ Share("B", "claim", Att("B"), peerAtt["B"]).peer = Att("A")
      BY <1>3, <1>4, <1>5 DEF PeerShare, StandsBy, Usable, Share
    <2> QED BY <1>5, <2>1 DEF StandsBy, Aggregates
  <1> QED BY <1>3, <1>5 DEF Witnessed

LEMMA WitnessedRound ==
  ASSUME "presign" \notin Windows, NetInv, Witnessed, NEW p \in Party, Round(p)
  PROVE  Witnessed'
  <1>0. TypeOK
    BY DEF NetInv
  <1>1. CASE p = "A" /\ ~SendShare("A")
    <2>1. /\ Stays("B") /\ UNCHANGED shares /\ (Claimable' => Claimable)
          /\ store["A"] \subseteq store'["A"]
      <3>1. UNCHANGED <<pc["B"], ph["B"], wire["B"], attempts["B"], peerAtt["B"], shares, posted>>
        BY <1>0, <1>1 DEF Round, SendCommit, FundSeen, OpenAgreed, RefundAgreed, RoundFail,
                          Go, TypeOK, net, chain
      <3>2. store["A"] \subseteq store'["A"] /\ store["B"] \subseteq store'["B"]
        BY <1>0, <1>1 DEF Round, SendCommit, FundSeen, OpenAgreed, RefundAgreed, RoundFail,
                          Save, TypeOK
      <3> QED BY <3>1, <3>2 DEF Stays, Claimable
    <2>2. CASE pc["A"] = "claim" /\ ph["A"] = "share"
      <3>1. RoundFail("A")
        BY <1>1, <2>2 DEF Round, SendCommit, FundSeen, OpenAgreed, RefundAgreed, Aggregates
      <3>2. ~Aggregates("A", "claim") /\ \A s \in shares : ~(Usable(s) /\ StandsBy(s))
        BY <3>1, NoBreakStanding
      <3>3. \A s : Usable(s)' <=> Usable(s)
        BY <2>1 DEF Usable, Stays, Att
      <3> QED BY <2>1, <3>2, <3>3 DEF Witnessed, Has
    <2> QED BY <2>1, <2>2, WitnessedA
  <1>2. CASE p = "A" /\ SendShare("A")
    <2>1. /\ ph["A"] = "commit" /\ pc' = pc /\ wire' = wire /\ attempts' = attempts
          /\ store' = store /\ posted' = posted
          /\ ph'["A"] = "share" /\ ph'["B"] = ph["B"] /\ peerAtt'["B"] = peerAtt["B"]
          /\ shares' = shares \cup {Share("A", pc["A"], Att("A"), peerAtt'["A"])}
      BY <1>0, <1>2, NewShare DEF TypeOK, chain
    <2>2. ~Aggregates("A", "claim") /\ \A s : ~StandsBy(s)
      BY <2>1 DEF Aggregates, StandsBy
    <2>3. ASSUME NEW s \in shares', Usable(s)', ~Has("A", "presigned")
          PROVE  StandsBy(s)'
      <3>1. Usable(s)
        BY <2>1, <2>3 DEF Usable, Att
      <3>2. s = Share("A", pc["A"], Att("A"), peerAtt'["A"])
        BY <2>1, <2>2, <2>3, <3>1 DEF Witnessed
      <3>3. s.step = "claim"
        BY <3>1 DEF Usable
      <3> QED BY <2>1, <3>2, <3>3 DEF Share, StandsBy, Att
    <2> QED BY <2>1, <2>2, <2>3 DEF Witnessed, Claimable, Has
  <1>3. CASE p = "B" /\ ~SendCommit("B") /\ ~SendShare("B")
    <2>1. /\ Stays("A") /\ UNCHANGED shares /\ (Claimable' => Claimable)
          /\ ph'["B"] = "start"
      <3>1. UNCHANGED <<pc["A"], ph["A"], wire["A"], attempts["A"], peerAtt["A"], shares, posted>>
            /\ ph'["B"] = "start" /\ pc'["B"] # "claimTx"
        BY <1>0, <1>3 DEF Round, FundSeen, OpenAgreed, RefundAgreed, RoundFail,
                          Go, TypeOK, net, chain
      <3>2. store["A"] \subseteq store'["A"]
        BY <1>0, <1>3 DEF Round, FundSeen, OpenAgreed, RefundAgreed, RoundFail, Save, TypeOK
      <3> QED BY <3>1, <3>2 DEF Stays, Claimable
    <2> QED BY <2>1, WitnessedB
  <1>4. CASE p = "B" /\ SendCommit("B")
    <2>1. Stays("A") /\ UNCHANGED shares /\ (Claimable' => Claimable) /\ pc' = pc
      BY <1>0, <1>4 DEF SendCommit, Stays, Claimable, TypeOK, chain
    <2>2. \A s \in shares : ~Usable(s)'
      <3> SUFFICES ASSUME NEW s \in shares, Usable(s)' PROVE FALSE
        OBVIOUS
      <3>1. s.from = "A" /\ s.step = pc["B"] /\ s.peer = Att("B")'
        BY <2>1 DEF Usable
      <3>2. Commit("B", s.step, s.peer) \in commits
        BY <3>1 DEF NetInv, Bound
      <3> QED BY <1>4, <3>1, <3>2, NewChannel
    <2>3. Aggregates("A", "claim")' <=> Aggregates("A", "claim")
      BY <2>1 DEF Stays, Aggregates, PeerShare, Att
    <2> QED BY <2>1, <2>2, <2>3 DEF Witnessed, Stays, Has
  <1>5. CASE p = "B" /\ SendShare("B")
    <2>1. /\ ph["B"] = "commit" /\ pc' = pc /\ wire' = wire /\ attempts' = attempts
          /\ store' = store /\ posted' = posted /\ ph'["B"] = "share"
          /\ ph'["A"] = ph["A"] /\ peerAtt'["A"] = peerAtt["A"]
          /\ shares' = shares \cup {Share("B", pc["B"], Att("B"), peerAtt'["B"])}
      BY <1>0, <1>5, NewShare DEF TypeOK, chain
    <2>2. ASSUME NEW s \in shares', Usable(s)', ~Has("A", "presigned")
          PROVE  StandsBy(s)'
      <3>1. s \in shares
        BY <2>1, <2>2 DEF Usable, Share
      <3>2. Usable(s)
        BY <2>1, <2>2 DEF Usable, Att
      <3>3. StandsBy(s)
        BY <2>2, <3>1, <3>2 DEF Witnessed
      <3> QED BY <2>1, <3>3 DEF StandsBy, Att
    <2>3. Aggregates("A", "claim") => Aggregates("A", "claim")'
      BY <2>1 DEF Aggregates, PeerShare, Att
    <2> QED BY <2>1, <2>2, <2>3 DEF Witnessed, Claimable, Has
  <1> QED BY <1>1, <1>2, <1>3, <1>4, <1>5

LEMMA WitnessedNext ==
  ASSUME "presign" \notin Windows
  PROVE  NetInv /\ Witnessed /\ [Next]_vars => Witnessed'
  <1> SUFFICES ASSUME NetInv, Witnessed, [Next]_vars PROVE Witnessed'
    OBVIOUS
  <1>0. TypeOK
    BY DEF NetInv
  <1>1. CASE NextA
    <2>1. CASE pc["A"] = "claim" /\ ph["A"] = "share"
      <3>1. PresignSave
        BY <1>1, <2>1 DEF NextA, FundSend, FundGiveUp, FundSave, OpenTx, OpenSave, LockSeen,
              LockAbandon, ClaimGate, ClaimSeen, ClaimDeadline, ClaimUnread, RefundPost,
              RefundRefused, RefundSave, XmrSweep, SweepSave
      <3>2. Has("A", "presigned")'
        BY <1>0, <3>1 DEF PresignSave, Save, Has, TypeOK
      <3> QED BY <3>2 DEF Witnessed
    <2> QED BY <1>0, <1>1, <2>1, StaysA, WitnessedA
  <1>2. CASE NextB /\ ~ClaimAgreed
    <2>1. /\ Stays("A") /\ UNCHANGED shares /\ (Claimable' => Claimable)
          /\ (pc'["B"] = "claim" => ph'["B"] = "start")
      BY <1>0, <1>2, StaysB
    <2> QED BY <2>1, WitnessedB
  <1>3. CASE NextB /\ ClaimAgreed
    <2>1. /\ Stays("A") /\ UNCHANGED shares /\ (pc'["B"] = "claim" => ph'["B"] = "start")
      BY <1>0, <1>3, StaysB
    <2>2. Has("A", "presigned") \/ Aggregates("A", "claim")
      BY <1>3, AgreedWitness
    <2>3. Aggregates("A", "claim")' <=> Aggregates("A", "claim")
      BY <2>1 DEF Stays, Aggregates, PeerShare, Att
    <2>4. \A s \in shares' : ~Usable(s)'
      BY <2>1 DEF Usable
    <2> QED BY <2>1, <2>2, <2>3, <2>4 DEF Witnessed, Stays, Has
  <1>4. ASSUME NEW p \in Party, Restart(p) \/ Crash(p) PROVE Witnessed'
    <2>1. /\ UNCHANGED <<attempts, peerAtt, shares, posted>> /\ ph'[p] = "start"
          /\ pc'[p] # "claimTx" /\ store[p] \subseteq store'[p]
      <3>1. CASE Restart(p)
        <4>1. ph[p] = "start" /\ UNCHANGED <<attempts, peerAtt, shares, posted, ph>>
          BY <1>0, <3>1 DEF Restart, NetInv, InRound, Step, net, chain
        <4>2. pc'[p] \in ResumeA \cup ResumeB
          BY <1>0, <3>1 DEF Restart, TypeOK
        <4>3. "claimTx" \notin ResumeA \cup ResumeB
          BY DEF ResumeA, ResumeB, MakerResumeA, MakerResumeB, PageResumeA, PageResumeB,
                 EntryA
        <4>4. store[p] \subseteq store'[p]
          BY <1>0, <3>1 DEF Restart, Save, TypeOK
        <4> QED BY <4>1, <4>2, <4>3, <4>4
      <3>2. CASE Crash(p)
        BY <1>0, <3>2 DEF Crash, TypeOK, net, chain
      <3> QED BY <1>4, <3>1, <3>2
    <2>2. \A q \in Party \ {p} : UNCHANGED <<pc[q], ph[q], wire[q], store[q]>>
      BY <1>0, <1>4 DEF Restart, Crash, Save, TypeOK
    <2>3. \A q \in Party \ {p} : Stays(q)
      BY <2>1, <2>2 DEF Stays
    <2>4. Claimable' => Claimable
      BY <2>1, <2>2 DEF Claimable
    <2>5. CASE p = "B"
      BY <2>1, <2>3, <2>4, <2>5, WitnessedB
    <2>6. CASE p = "A" /\ ~(pc["A"] = "claim" /\ ph["A"] = "share")
      BY <2>1, <2>3, <2>4, <2>6, WitnessedA
    <2>7. CASE p = "A" /\ pc["A"] = "claim" /\ ph["A"] = "share"
      <3>1. MayFail("A")
        BY <1>4, <2>7 DEF Restart, Crash
      <3>2. ~Aggregates("A", "claim") /\ \A s \in shares : ~(Usable(s) /\ StandsBy(s))
        BY <3>1, NoBreakStanding
      <3>3. \A s : Usable(s)' <=> Usable(s)
        BY <2>3, <2>7 DEF Usable, Stays, Att
      <3>4. CASE Has("A", "presigned")
        BY <2>1, <2>7, <3>4 DEF Witnessed, Has
      <3>5. CASE ~Has("A", "presigned")
        <4>1. /\ \A s \in shares : ~Usable(s)
              /\ ~Claimable
          BY <3>2, <3>5 DEF Witnessed
        <4>2. /\ \A s \in shares' : ~Usable(s)'
              /\ ~Claimable'
          BY <2>1, <2>4, <3>3, <4>1
        <4> QED BY <4>2 DEF Witnessed
      <3> QED BY <3>4, <3>5
    <2> QED BY <2>5, <2>6, <2>7
  <1>5. CASE MineXmr \/ Vote \/ UNCHANGED vars
    <2>1. UNCHANGED <<pc, ph, wire, attempts, peerAtt, shares, store, posted>>
      BY <1>5 DEF MineXmr, Vote, vars, net, chain
    <2> QED BY <2>1 DEF Witnessed, Usable, StandsBy, Claimable, Aggregates, PeerShare,
                        Att, Has
  <1> QED BY <1>1, <1>2, <1>3, <1>4, <1>5, WitnessedRound DEF Next, Run

\* Once B's claim is public, A holds the presignature that turns it into x or
\* has all it takes to finish that round: for any agents, and with faults
\* everywhere but while B can complete what A has sent.
THEOREM ClaimsExtractable ==
  ASSUME "presign" \notin Windows
  PROVE  Spec => []Extractable
  <1>1. NetInv /\ Witnessed /\ [Next]_vars => (NetInv /\ Witnessed)'
    BY NetNext, WitnessedNext
  <1>2. Witnessed => Extractable
    BY DEF Witnessed, Claimable, Extractable
  <1> QED BY NetInit, WitnessedInit, <1>1, <1>2, PTL DEF Spec
=============================================================================
