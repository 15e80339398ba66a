----------------------------- MODULE XmrWallet ------------------------------
(***************************************************************************)
(* The Monero half of the web wallet (web/wallet.js, its keys in             *)
(* web/wallet-worker.js; web/headless_wallet.js is its port): a scan that    *)
(* keeps the outputs found, a height and the outputs spent in one stored     *)
(* record, and a send that scans, picks, signs, marks and broadcasts.  A     *)
(* Monero node cannot tell which outputs are spent: the marks are all the    *)
(* wallet has.                                                              *)
(*                                                                         *)
(* windows  what the user and the page do (never changes), of                *)
(*           "overlap" the page's own tick beside another call                *)
(*           "calls"   calls of the user and of settlements beside each other *)
(*           "lock"    the idle lock strikes during a send                    *)
(*           "rescan"  the user rescans                                       *)
(*           "store"   the browser's store is full or disabled: a write is    *)
(*                     dropped and a read finds nothing, both unseen          *)
(*           "torn"    the process ends while it rewrites its file, which is  *)
(*                     then read as no record                                 *)
(* chain    what each block pays this wallet, 0: nothing                      *)
(* file     the stored record, one per address                                *)
(* job      each running call: where it stands, the record as it holds it,    *)
(*          the chunks left to it, what it is to send, the inputs chosen      *)
(* locked   whether the worker has dropped the seed                           *)
(* relayed  the transactions that reached some node: the inputs of each       *)
(* lost     the outputs whose mark was not written, not read, or written over *)
(*           by a record without it: what the code lets slip                  *)
(***************************************************************************)
EXTENDS Integers, Sequences, FiniteSets, FiniteSetsExt

CONSTANTS
    Ticks,       \* the page's own background scan
    Calls,       \* what the user or a settlement calls
    AllWindows,  \* the values of windows to look at
    Lookback,    \* how far back a first scan starts (720 in the code)
    Chunk,       \* blocks a call to the worker scans (20)
    Unlock,      \* blocks until an output can be spent (10)
    MaxInputs,   \* inputs of one transaction (16)
    TickChunks,  \* chunks of a background scan (8)
    CallChunks,  \* chunks of any other (5000)
    Deposits,    \* what a deposit may come to
    Amounts,     \* what a send with its fee may come to
    MaxBlocks,   \* bound: the chain stops here
    MaxSends     \* bound: transactions relayed

ASSUME XmrAssumption ==
    /\ AllWindows \subseteq SUBSET {"overlap", "calls", "lock", "rescan", "store", "torn"}
    /\ Lookback \in Nat /\ Unlock \in Nat /\ Chunk \in Nat \ {0} /\ MaxInputs \in Nat \ {0}
    /\ TickChunks \in Nat \ {0} /\ CallChunks \in Nat \ {0} /\ Deposits \subseteq Nat \ {0} /\ Amounts \subseteq Nat \ {0}
    /\ MaxBlocks \in Nat /\ MaxSends \in Nat

VARIABLES windows, chain, file, job, locked, relayed, lost

vars == <<windows, chain, file, job, locked, relayed, lost>>

Jobs == Ticks \cup Calls

Height == Len(chain)
Blank == [restore |-> 0, scannedTo |-> -1, outputs |-> {}, spent |-> {}]
Idle == [pc |-> "idle", st |-> Blank, left |-> 0, need |-> 0, ins |-> {}]

\* An output is named by the block that pays it.
Blocks == 0 .. MaxBlocks - 1
Records == [restore : 0 .. MaxBlocks, scannedTo : -1 .. MaxBlocks,
            outputs : SUBSET Blocks, spent : SUBSET Blocks]
Pcs == {"idle", "load", "first", "scan", "build", "built", "publish"}

TypeOK ==
    /\ windows \in AllWindows
    /\ chain \in Seq(Deposits \cup {0}) /\ Height <= MaxBlocks
    /\ file \in Records
    /\ job \in [Jobs -> [pc : Pcs, st : Records, left : Nat,
                         need : Amounts \cup {0}, ins : SUBSET Blocks]]
    /\ locked \in BOOLEAN
    /\ relayed \in Seq(SUBSET Blocks)
    /\ lost \subseteq Blocks

Init ==
    /\ windows \in AllWindows
    /\ chain = <<>> /\ file = Blank /\ locked = TRUE
    /\ job = [j \in Jobs |-> Idle] /\ relayed = <<>> /\ lost = {}

Set(j, r) == job' = [job EXCEPT ![j] = r]
Throw(j) == Set(j, Idle) /\ UNCHANGED <<file, lost>>

\* A record replaces the stored one, and with it the marks it lacks.
Write(st) == file' = st /\ lost' = lost \cup (file.spent \ st.spent)
Save(st) == Write(st) \/ ("store" \in windows /\ UNCHANGED <<file, lost>>)

-----------------------------------------------------------------------------
(* Calls.                                                                  *)

Free(j) ==
    /\ job[j].pc = "idle" /\ ~locked
    /\ \A k \in Jobs : job[k].pc # "idle" =>
          (IF {j, k} \subseteq Calls THEN "calls" ELSE "overlap") \in windows

\* xmrAutoTick, xmrRefresh and xmrSend: the address first, and then the record.
Tick(j) ==
    /\ Free(j)
    /\ Set(j, [Idle EXCEPT !.pc = "load", !.left = TickChunks])
    /\ UNCHANGED <<windows, chain, file, locked, relayed, lost>>

Call(j) ==
    /\ Free(j)
    /\ \E a \in Amounts \cup {0} :
         Set(j, [Idle EXCEPT !.pc = "load", !.left = CallChunks, !.need = a])
    /\ UNCHANGED <<windows, chain, file, locked, relayed, lost>>

\* xmrRescanFrom: a new record over the old one, from any height, then a refresh.
Rescan(j) ==
    /\ "rescan" \in windows /\ Free(j)
    /\ \E h \in 0 .. MaxBlocks : Save([Blank EXCEPT !.restore = h, !.scannedTo = h])
    /\ Set(j, [Idle EXCEPT !.pc = "load", !.left = CallChunks])
    /\ UNCHANGED <<windows, chain, locked, relayed>>

\* A node's tip: one may be a block behind.
Tips == {Height} \cup IF Height = 0 THEN {} ELSE {Height - 1}

\* The record is read, or a blank one taken.
Load(j) ==
    /\ job[j].pc = "load"
    /\ \/ /\ ~locked
          /\ Set(j, [job[j] EXCEPT !.pc = IF file.scannedTo < 0 THEN "first" ELSE "scan",
                                   !.st = file])
          /\ UNCHANGED <<file, lost>>
       \/ /\ "store" \in windows /\ ~locked
          /\ Set(j, [job[j] EXCEPT !.pc = "first", !.st = Blank])
          /\ UNCHANGED file /\ lost' = lost \cup file.spent
       \/ Throw(j)
    /\ UNCHANGED <<windows, chain, locked, relayed>>

\* A first scan asks for the tip and starts a little before it.
First(j) ==
    /\ job[j].pc = "first"
    /\ \/ /\ ~locked
          /\ \E t \in Tips :
               LET from == Max({0, t - Lookback})
                   st == [job[j].st EXCEPT !.restore = from, !.scannedTo = from]
               IN Save(st) /\ Set(j, [job[j] EXCEPT !.pc = "scan", !.st = st])
       \/ Throw(j)
    /\ UNCHANGED <<windows, chain, locked, relayed>>

-----------------------------------------------------------------------------
(* Scanning.                                                               *)

\* xmr_scan of the worker, at a node with tip t: the last block looked at.
LastOf(from, t) == Min({t - 1, from + Chunk - 1})
NextOfTip(from, t) == IF from > t THEN from ELSE t
NextOf(from, t) == IF from > LastOf(from, t) THEN t ELSE LastOf(from, t) + 1
Paid(from, to) == {b \in from .. to : b < Height /\ chain[b + 1] > 0}

Scanned(st, t) ==
    [st EXCEPT !.outputs = @ \cup Paid(st.scannedTo, LastOf(st.scannedTo, t)),
               !.scannedTo = NextOf(st.scannedTo, t)]

Worth(outs) == MapThenSumSet(LAMBDA b : chain[b + 1], outs)
Spendable(st, tip) == {b \in st.outputs \ st.spent : tip - b >= Unlock}

\* The smallest outputs first, until they cover the amount.
Chosen(st, tip, need) ==
    {ins \in SUBSET Spendable(st, tip) :
        /\ Cardinality(ins) \in 1 .. MaxInputs
        /\ Worth(ins) >= need
        /\ \A b \in ins, c \in Spendable(st, tip) \ ins : chain[b + 1] <= chain[c + 1]
        /\ \E b \in ins : Worth(ins \ {b}) < need}

\* What follows the last chunk of a call.
Caught(j, st, t) ==
    IF job[j].need = 0 THEN Set(j, Idle)
    ELSE \/ \E ins \in Chosen(st, t, job[j].need) :
              Set(j, [job[j] EXCEPT !.pc = "build", !.st = st, !.ins = ins])
         \/ Chosen(st, t, job[j].need) = {} /\ Set(j, Idle)

\* One chunk: the record is written as this call holds it.
Scan(j) ==
    /\ job[j].pc = "scan"
    /\ \/ /\ ~locked
          /\ \E t \in Tips :
               LET st == Scanned(job[j].st, t)
               IN /\ Save(st)
                  /\ IF st.scannedTo >= t \/ job[j].left = 1 THEN Caught(j, st, t)
                     ELSE Set(j, [job[j] EXCEPT !.st = st, !.left = @ - 1])
       \/ Throw(j)
    /\ UNCHANGED <<windows, chain, locked, relayed>>

-----------------------------------------------------------------------------
(* Sending.                                                                *)

\* Phase 1: the worker takes the keys and builds on one node or the next.
Build(j) ==
    /\ job[j].pc = "build"
    /\ \/ ~locked /\ Set(j, [job[j] EXCEPT !.pc = "built"]) /\ UNCHANGED <<file, lost>>
       \/ Throw(j)
    /\ UNCHANGED <<windows, chain, locked, relayed>>

\* Phase 2: the inputs are marked, in memory and in store. In the browser what that
\* throws is swallowed: the address a locked wallet refuses, the write that fails.
MarkedInMemory(j, st) == UNCHANGED <<file, lost>>
Marked(j, st) ==
    \/ ~locked /\ Write(st)
    \/ /\ locked \/ "store" \in windows
       /\ UNCHANGED file /\ lost' = lost \cup job[j].ins

Mark(j) ==
    /\ job[j].pc = "built"
    /\ LET st == [job[j].st EXCEPT !.spent = @ \cup job[j].ins]
       IN Marked(j, st) /\ Set(j, [job[j] EXCEPT !.pc = "publish", !.st = st])
    /\ UNCHANGED <<windows, chain, locked, relayed>>

\* No node builds it, or the headless wallet's write throws.
BuildFails(j) ==
    /\ job[j].pc = "built"
    /\ Throw(j)
    /\ UNCHANGED <<windows, chain, locked, relayed>>

\* Phase 3: the same bytes to one node after the other, until one answers.
Publish(j) ==
    /\ job[j].pc = "publish"
    /\ \/ Len(relayed) < MaxSends /\ relayed' = Append(relayed, job[j].ins)
       \/ UNCHANGED relayed
    /\ Throw(j)
    /\ UNCHANGED <<windows, chain, locked>>

-----------------------------------------------------------------------------
(* The wallet and the world.                                               *)

Sending == \E j \in Jobs : job[j].pc \in {"built", "publish"}

Unlocks == locked /\ locked' = FALSE /\ UNCHANGED <<windows, chain, file, job, relayed, lost>>

\* lock, by the user, the idle timer or the erase button.
Locks ==
    /\ ~locked /\ ("lock" \in windows \/ ~Sending)
    /\ locked' = TRUE
    /\ UNCHANGED <<windows, chain, file, job, relayed, lost>>

\* The page is closed or reloaded, or the process ends, at any point.
Ends == locked' = TRUE /\ job' = [j \in Jobs |-> Idle] /\ UNCHANGED <<windows, chain, relayed>>

Reload == Ends /\ UNCHANGED <<file, lost>>

\* ... and in the middle of a write of the file.
Torn ==
    /\ "torn" \in windows
    /\ \E j \in Jobs : job[j].pc \in {"first", "scan", "built"}
    /\ Ends /\ Write(Blank)

Mine ==
    /\ Height < MaxBlocks
    /\ \E a \in Deposits \cup {0} : chain' = Append(chain, a)
    /\ UNCHANGED <<windows, file, job, locked, relayed, lost>>

Next ==
    \/ \E j \in Ticks : Tick(j)
    \/ \E j \in Calls : Call(j) \/ Rescan(j) \/ Build(j) \/ Mark(j) \/ BuildFails(j) \/ Publish(j)
    \/ \E j \in Jobs : Load(j) \/ First(j) \/ Scan(j)
    \/ Unlocks \/ Locks \/ Reload \/ Torn \/ Mine

Spec == Init /\ [][Next]_vars

-----------------------------------------------------------------------------
(* Properties.                                                             *)

\* Wherever the page is closed and whatever the nodes answer, an output goes into two
\* transactions that reached the network ("a false negative produces a double-spend
\* attempt") only after its mark was lost, and no mark is lost but through a scan
\* beside a send, a lock during one, a rescan, a store that fails or a torn file.
\* Two sends that run at once choose alike, and are not claimed.
NoRespend ==
    /\ "calls" \notin windows =>
         \A m, n \in 1 .. Len(relayed) : m # n => relayed[m] \cap relayed[n] \subseteq lost
    /\ windows = {} => lost = {}

\* Nothing paid to the wallet between the block its scan started from and the one
\* it has come to is missing, although calls overwrite each other's record, rescan
\* under each other or beyond the tip, lose what they write and are answered by
\* nodes that are behind.
Complete ==
    file.scannedTo >= 0 => Paid(file.restore, file.scannedTo - 1) \subseteq file.outputs
=============================================================================
