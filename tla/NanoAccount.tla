---------------------------- MODULE NanoAccount -----------------------------
(***************************************************************************)
(* One Nano account used by several pieces of code at a time: the offer     *)
(* beacon (web/beacon.js), the ledger mail (web/ledger_relay.js) and the     *)
(* wallet (web/wallet.js, web/headless_wallet.js).  Each reads the head of   *)
(* the account, signs on it, proves work and submits, and keeps nothing      *)
(* the others could see in between.                                          *)
(*                                                                         *)
(* A block stands for the chain it ends, so one that is signed again on the *)
(* same head is the same block.                                             *)
(*                                                                         *)
(* windows  what the environment does (never changes), of                   *)
(*           "overlap" two uses of the account at the same time              *)
(*           "lag"     two nodes behind the others answer a read             *)
(*           "lie"     a lying node acknowledges what it does not keep       *)
(*           "deaf"    a block is taken and the answer lost                  *)
(*           "echo"    a lying node answers a block with another one's hash  *)
(*           "minus"   a lying node shows a deposit of a negative amount     *)
(* view     the account's chain as each honest node has it                   *)
(* conf     the chain the network has cemented                               *)
(* A deposit waits to be received, and a node may not show it yet.           *)
(***************************************************************************)
EXTENDS Naturals, Sequences, FiniteSets, SequencesExt

CONSTANTS
    Nodes,      \* the configured nodes
    Liars,      \* those that may answer anything
    AllWindows  \* the values of windows to look at

ASSUME NanoAssumption ==
    /\ Liars \subseteq Nodes
    /\ AllWindows \subseteq SUBSET {"overlap", "lag", "lie", "deaf", "echo", "minus"}

VARIABLES windows, view, conf

nanoVars == <<windows, view, conf>>

Honest == Nodes \ Liars

\* One block: what it carries, and whether the balance in it is that of the head
\* it is signed on, less or more what it carries.
Entry(k, id) == [k |-> k, id |-> id, made |-> 0, at |-> 0, sound |-> TRUE]
Received == Entry("receive", 0)

\* A receive of less than nothing lowers the balance: to a node it is a send.
Drain == [Entry("drain", 0) EXCEPT !.sound = FALSE]
Has(chain, e) == \E i \in 1 .. Len(chain) : chain[i] = e

NanoInit ==
    /\ windows \in AllWindows
    /\ view = [n \in Honest |-> <<>>]
    /\ conf = <<>>

-----------------------------------------------------------------------------
(* Reading.                                                                *)

\* What a node answers to account_info.  A liar may understate the balance.
Answers(n) ==
    IF n \in Honest THEN {[head |-> view[n], sound |-> TRUE]}
    ELSE {[head |-> view[m], sound |-> b] : m \in Honest, b \in BOOLEAN}

\* accountInfoQuorum: "require two to AGREE", on frontier and balance; "a 1-node
\* config trusts its one answer".
OneAnswers(a) == \E n \in Nodes : a \in Answers(n)
Single == \A n, m \in Nodes : n = m
TwoAgree(a) == \E n, m \in Nodes : (n # m \/ Single) /\ a \in Answers(n) \cap Answers(m)

AllAnswers == UNION {Answers(n) : n \in Nodes}
Behind(chain) == \E n \in Honest : Len(view[n]) > Len(chain)
Read == {a \in AllAnswers : TwoAgree(a) /\ ("lag" \in windows \/ ~Behind(a.head))}

\* The receivable RPC, answered by the first node that does: the deposit, with
\* the right amount or, from a liar, another.
Receivable ==
    (IF \E n \in Honest : ~Has(view[n], Received) THEN {Received} ELSE {})
    \cup (IF Liars = {} THEN {} ELSE {[Received EXCEPT !.sound = FALSE]})
    \cup (IF Liars # {} /\ "minus" \in windows THEN {Drain} ELSE {})

\* The block that pockets it adds the amount to the balance the code holds.
Receipt(on, e) == [e EXCEPT !.sound = @ /\ on.sound]
Pocketed(on, e) == Append(on.head, Receipt(on, e))

-----------------------------------------------------------------------------
(* Submitting.                                                             *)

\* An honest node takes the next block of the chain it has.  It checks what a
\* receive block claims; of a send, only that the balance does not grow.
Takes(n, chain) ==
    LET e == Last(chain)
    IN /\ view[n] = Front(chain)
       /\ e.k = "receive" => e.sound /\ ~Has(view[n], Received)

\* processBlock: every node is tried, the first hash answered counts.  The block
\* lands on those of the nodes reached that take it.
Submit(chain, reach) ==
    view' = [n \in Honest |-> IF n \in reach /\ Takes(n, chain) THEN chain ELSE view[n]]
Acknowledged(chain, reach) ==
    \/ \E n \in reach \cap Honest : Takes(n, chain)
    \/ "lie" \in windows /\ reach \cap Liars # {}

\* The ends of a submission of `chain`, reaching some of the nodes: its own hash
\* comes back, that of another block does, or nothing.
Taken(chain) ==
    \E reach \in SUBSET Nodes : Submit(chain, reach) /\ Acknowledged(chain, reach)
Misled(chain) ==
    \E reach \in SUBSET Nodes :
        Submit(chain, reach) /\ reach \cap Liars # {} /\ "echo" \in windows
Lost(chain) ==
    \E reach \in SUBSET Nodes :
        /\ Submit(chain, reach)
        /\ ~Acknowledged(chain, reach) \/ "deaf" \in windows

\* What was answered is the head the caller signs its next block on, with the
\* balance it reckons: that of another head is another.
Ahead(chain) ==
    {[head |-> chain, sound |-> TRUE]}
    \cup {[head |-> view[n], sound |-> FALSE] : n \in {m \in Honest : view[m] # chain}}
GoesOn(chain, on) ==
    IF on.sound THEN Taken(chain) ELSE Misled(chain)

\* Some node would say that the block does not fit what it has.
Refused(chain) == \E n \in Honest : ~Takes(n, chain)

-----------------------------------------------------------------------------
(* The network.                                                            *)

\* Representatives cement one of the chains the nodes have.
Confirm(n) ==
    /\ IsStrictPrefix(conf, view[n])
    /\ conf' = view[n]
    /\ UNCHANGED <<windows, view>>

\* A node learns what is cemented, and drops what contradicts it.
Adopt(n) ==
    /\ ~IsPrefix(conf, view[n])
    /\ view' = [view EXCEPT ![n] = conf]
    /\ UNCHANGED <<windows, conf>>

NanoNext == \E n \in Honest : Confirm(n) \/ Adopt(n)
=============================================================================
