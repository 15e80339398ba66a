---------------------------- MODULE Rendezvous -----------------------------
(***************************************************************************)
(* The public rendezvous of an offer (web/two_party.js): RV_SLOTS request  *)
(* boxes and as many response boxes, both keyed by the offer's block.      *)
(* Boxes live on the ledger, so a request or a reply is never removed.     *)
(*                                                                         *)
(* req[b][s]  the takers whose request sits in slot s of block b: two of   *)
(*            them blend into bytes that parse as neither                  *)
(* resp[b][s] the reply in slot s; a second one blends with the first      *)
(* taker[t]   where takerHandshake of taker t stands                       *)
(* book       the offer block scanLive shows for this maker, NoBlock when  *)
(*            there is none                                                *)
(***************************************************************************)
EXTENDS Naturals, Sequences, FiniteSets, FiniteSetsExt

CONSTANTS
    Takers,     \* the takers, each of whom takes at most once
    MaxBlocks,  \* bound: offer blocks the maker may post
    RvSlots     \* RV_SLOTS

ASSUME RendezvousAssumption ==
    /\ MaxBlocks \in Nat \ {0}
    /\ RvSlots \in Nat \ {0}
    /\ Takers # {}

VARIABLES book, req, resp, taker

rvVars == <<book, req, resp, taker>>

NoBlock == 0
Blocks == 1 .. MaxBlocks
SlotIds == 0 .. RvSlots - 1
Replies == {"none", "accept", "decline", "blend"}
TakerPcs == {"idle", "slotted", "waiting", "accepted", "gone"}

RvTypeOK ==
    /\ book \in Blocks \cup {NoBlock}
    /\ req \in [Blocks -> [SlotIds -> SUBSET Takers]]
    /\ resp \in [Blocks -> [SlotIds -> Replies]]
    /\ taker \in [Takers -> [pc : TakerPcs, b : Blocks \cup {NoBlock}, s : SlotIds]]

RvInit ==
    /\ book = NoBlock
    /\ req = [b \in Blocks |-> [s \in SlotIds |-> {}]]
    /\ resp = [b \in Blocks |-> [s \in SlotIds |-> "none"]]
    /\ taker = [t \in Takers |-> [pc |-> "idle", b |-> NoBlock, s |-> 0]]

-----------------------------------------------------------------------------
(* The taker: takerHandshake.                                              *)

Gone == [pc |-> "gone", b |-> NoBlock, s |-> 0]
TakerGoes(t, pc) == taker' = [taker EXCEPT ![t] = IF pc = "gone" THEN Gone ELSE [@ EXCEPT !.pc = pc]]

\* The user takes the offer the book shows, in "the first free slot": both are
\* read now and posted to later.
TakeOffer(t) ==
    LET free == {s \in SlotIds : req[book][s] = {}}
    IN /\ taker[t].pc = "idle"
       /\ book # NoBlock
       /\ IF free = {}
          THEN TakerGoes(t, "gone")
          ELSE taker' = [taker EXCEPT ![t] = [pc |-> "slotted", b |-> book, s |-> Min(free)]]
       /\ UNCHANGED <<book, req, resp>>

PostTake(t) ==
    /\ taker[t].pc = "slotted"
    /\ req' = [req EXCEPT ![taker[t].b][taker[t].s] = @ \cup {t}]
    /\ TakerGoes(t, "waiting")
    /\ UNCHANGED <<book, resp>>

\* One reply is parsed; two of them share the box's chunks and parse as
\* nothing the maker signed.
ReadReply(t) ==
    LET reply == resp[taker[t].b][taker[t].s]
    IN /\ taker[t].pc = "waiting"
       /\ reply # "none"
       /\ TakerGoes(t, IF reply = "accept" THEN "accepted" ELSE "gone")
       /\ UNCHANGED <<book, req, resp>>

\* The ten minutes are over, or an accepted taker's own ceremony fails.
Leave(t) ==
    /\ taker[t].pc \in {"waiting", "accepted"}
    /\ TakerGoes(t, "gone")
    /\ UNCHANGED <<book, req, resp>>

TakerNext(t) == \/ TakeOffer(t) \/ PostTake(t) \/ ReadReply(t) \/ Leave(t)

-----------------------------------------------------------------------------
(* What the maker's side of two_party.js computes from the boxes.          *)

\* bytesJson and makerValidateDeal accept the slot's content.
Valid(b, s) == Cardinality(req[b][s]) = 1
TakerAt(b, s) == CHOOSE t \in Takers : req[b][s] = {t}

\* peekTakes, cut to the rows handleTake acts on: valid and not answered.
PeekTakes(b) == {s \in SlotIds : Valid(b, s) /\ resp[b][s] = "none"}

\* relay.post to the response box of each slot in the domain of answers.
ReplyTo(b, answers) ==
    [resp EXCEPT ![b] = [s \in SlotIds |->
        IF s \notin DOMAIN answers THEN @[s]
        ELSE IF @[s] = "none" THEN answers[s] ELSE "blend"]]

PostDecline(b, s) == ReplyTo(b, [i \in {s} |-> "decline"])

\* The slot makerPollTake accepts: the first whose content is valid and whose
\* deal `fits` certifies. It does not look at the response boxes.
Pollable(b, fits) == {s \in SlotIds : Valid(b, s) /\ TakerAt(b, s) \in fits}

\* Its replies: an acceptance there, a decline in every valid slot before it.
PollReplies(b, fits) ==
    LET pick == Pollable(b, fits)
        upto == {s \in SlotIds : Valid(b, s) /\ (pick = {} \/ s <= Min(pick))}
    IN [s \in upto |-> IF s \in pick THEN "accept" ELSE "decline"]
=============================================================================
