------------------------------ MODULE DexRelay ------------------------------
(***************************************************************************)
(* The gossip relays (dexd/src/main.rs, dexd/src/relay.rs over              *)
(* dex-core/src/book.rs): each holds a book of verified orders and a set of  *)
(* hashes seen, behind two locks, with a thread for every connection and one *)
(* that sweeps.  Any number of relays and browsers, connected as each relay  *)
(* is configured to dial.                                                   *)
(*                                                                         *)
(* An order is its hash.  Orders are well formed and within the longest life *)
(* an order may have; only time makes one invalid.                          *)
(*                                                                         *)
(* windows  what may happen besides (never changes), of                      *)
(*           "full"   the book has room for MaxBook orders only              *)
(*           "stall"  a write to a peer that is alive times out              *)
(*           "burst"  a connection spends its ingest budget                  *)
(* book, seen  of each relay                                                 *)
(* peers    of each relay, the connections that are flooded or told          *)
(* dials    of each relay, the configured peers it has yet to dial           *)
(* thread   of each relay and connection: where its thread stands, the order  *)
(*          it is about and the time it was read at                          *)
(* wire     copies of an order under way from a relay                        *)
(* shown    the orders a browser has been sent                               *)
(***************************************************************************)
EXTENDS Naturals, FiniteSets

CONSTANTS
    Relays,
    Browsers,
    Orders,
    NoOrder,
    Config,     \* for each relay, the peers on its command line
    Expiry,     \* for each order, when it dies
    MaxBook,    \* MAX_BOOK
    AllWindows, \* the values of windows to look at
    Horizon,    \* bound: time stops here
    MaxEvents   \* bound: restarts, broken connections and browsers that leave

ASSUME RelayAssumption ==
    /\ Relays \cap Browsers = {} /\ NoOrder \notin Orders
    /\ Config \in [Relays -> SUBSET Relays] /\ \A r \in Relays : r \notin Config[r]
    /\ Expiry \in [Orders -> Nat]
    /\ MaxBook \in Nat /\ Horizon \in Nat /\ MaxEvents \in Nat
    /\ AllWindows \subseteq SUBSET {"full", "stall", "burst"}

VARIABLES windows, now, book, seen, peers, dials, thread, wire, shown, events

vars == <<windows, now, book, seen, peers, dials, thread, wire, shown, events>>

Ends == Relays \cup Browsers
Pcs == {"off", "backlog", "snap", "read", "marked", "flood", "drain"}
Off == [pc |-> "off", o |-> NoOrder, at |-> 0]
Nothing == [o \in Orders |-> 0]

TypeOK ==
    /\ windows \in AllWindows
    /\ now \in Nat /\ events \in Nat
    /\ book \in [Relays -> SUBSET Orders]
    /\ seen \in [Relays -> SUBSET Orders]
    /\ peers \in [Relays -> SUBSET Ends]
    /\ dials \in [Relays -> SUBSET Relays]
    /\ thread \in [Relays -> [Ends -> [pc : Pcs, o : Orders \cup {NoOrder}, at : Nat]]]
    /\ wire \in [Relays -> [Ends -> [Orders -> Nat]]]
    /\ shown \in [Browsers -> SUBSET Orders]

Init ==
    /\ windows \in AllWindows
    /\ now = 0 /\ events = 0
    /\ book = [r \in Relays |-> {}]
    /\ seen = [r \in Relays |-> {}]
    /\ peers = [r \in Relays |-> {}]
    /\ dials = Config
    /\ thread = [r \in Relays |-> [x \in Ends |-> Off]]
    /\ wire = [r \in Relays |-> [x \in Ends |-> Nothing]]
    /\ shown = [b \in Browsers |-> {}]

Pc(r, x) == thread[r][x].pc
Goes(r, x, pc) == thread' = [thread EXCEPT ![r][x].pc = pc]
Broken(r, x) == x \in Relays /\ Pc(x, r) = "off"

\* Where a thread is when it is done with a frame: a browser's looks into its
\* outbox before it reads again.
Rest(x) == [Off EXCEPT !.pc = IF x \in Relays THEN "read" ELSE "drain"]

\* Copies of the orders in S put on the way to the ends in X.
Sends(r, X, S) ==
    wire' = [wire EXCEPT ![r] = [x \in Ends |->
        IF x \in X THEN [o \in Orders |-> wire[r][x][o] + (IF o \in S THEN 1 ELSE 0)]
        ELSE wire[r][x]]]

-----------------------------------------------------------------------------
(* Connections.  A connection is in the map of peers before its thread      *)
(* starts.                                                                 *)

\* main dials each configured peer once, when it starts, and goes on without
\* those that do not answer or have no room; the other side has yet to accept.
Dial(r) == \E q \in dials[r] :
    /\ dials' = [dials EXCEPT ![r] = @ \ {q}]
    /\ \/ UNCHANGED <<peers, thread>>
       \/ /\ Pc(r, q) = "off" /\ Pc(q, r) = "off"
          /\ peers' = [peers EXCEPT ![r] = @ \cup {q}]
          /\ thread' = [thread EXCEPT ![r][q].pc = "snap", ![q][r].pc = "backlog"]
    /\ UNCHANGED <<windows, now, book, seen, wire, shown, events>>

Accept(r, x) ==
    /\ Pc(r, x) = "backlog"
    /\ peers' = [peers EXCEPT ![r] = @ \cup {x}]
    /\ Goes(r, x, "snap")
    /\ UNCHANGED <<windows, now, book, seen, dials, wire, shown, events>>

\* ws_client: the outbox is registered, then the snapshot sent.
Join(r, b) ==
    /\ \A q \in Relays : Pc(q, b) = "off"
    /\ peers' = [peers EXCEPT ![r] = @ \cup {b}]
    /\ Goes(r, b, "snap")
    /\ UNCHANGED <<windows, now, book, seen, dials, wire, shown, events>>

\* The snapshot: "Send the current book to a joining peer".
ToldNothing(r, x) == {}
Told(r, x) == book[r]

Snap(r, x) ==
    /\ Pc(r, x) = "snap"
    /\ IF x \in Relays
       THEN Sends(r, IF Broken(r, x) THEN {} ELSE {x}, Told(r, x)) /\ UNCHANGED shown
       ELSE shown' = [shown EXCEPT ![x] = @ \cup Told(r, x)] /\ UNCHANGED wire
    /\ thread' = [thread EXCEPT ![r][x] = Rest(x)]
    /\ UNCHANGED <<windows, now, book, seen, peers, dials, events>>

\* The thread ends: what the other side had under way to it is lost.
Leaves(r, x) ==
    /\ peers' = [peers EXCEPT ![r] = @ \ {x}]
    /\ thread' = [thread EXCEPT ![r][x] = Off]
    /\ IF x \in Relays
       THEN wire' = [wire EXCEPT ![x][r] = Nothing] /\ UNCHANGED shown
       ELSE wire' = [wire EXCEPT ![r][x] = Nothing] /\ shown' = [shown EXCEPT ![x] = {}]

\* It reads an error: the other side is gone.
Close(r, x) ==
    /\ Pc(r, x) = "read" /\ Broken(r, x)
    /\ Leaves(r, x)
    /\ UNCHANGED <<windows, now, book, seen, dials, events>>

\* The network breaks the connection, or the browser leaves.
Break(r, x) ==
    /\ Pc(r, x) = "read" /\ events < MaxEvents
    /\ Leaves(r, x)
    /\ events' = events + 1
    /\ UNCHANGED <<windows, now, book, seen, dials>>

\* The relay dies and starts again: it keeps everything in memory.
Restart(r) ==
    /\ events < MaxEvents
    /\ events' = events + 1
    /\ book' = [book EXCEPT ![r] = {}]
    /\ seen' = [seen EXCEPT ![r] = {}]
    /\ peers' = [peers EXCEPT ![r] = {}]
    /\ dials' = [dials EXCEPT ![r] = Config[r]]
    /\ thread' = [thread EXCEPT ![r] = [x \in Ends |-> Off]]
    /\ wire' = [q \in Relays |-> [x \in Ends |->
          IF x = r \/ (q = r /\ x \in Browsers) THEN Nothing ELSE wire[q][x]]]
    /\ shown' = [b \in Browsers |-> IF Pc(r, b) = "off" THEN shown[b] ELSE {}]
    /\ UNCHANGED <<windows, now>>

-----------------------------------------------------------------------------
(* Ingest.                                                                 *)

\* A frame of a peer, or an order a browser posts.
Arrives(r, x, o) ==
    IF x \in Relays
    THEN wire[x][r][o] > 0 /\ wire' = [wire EXCEPT ![x][r][o] = @ - 1]
    ELSE UNCHANGED wire

\* The time is taken, and the hash marked as seen, or found to be.
MarkBlind(r, x, o) ==
    thread' = [thread EXCEPT ![r][x] = [pc |-> "marked", o |-> o, at |-> now]]
Mark(r, x, o) ==
    IF o \in seen[r]
    THEN thread' = [thread EXCEPT ![r][x] = Rest(x)]
    ELSE MarkBlind(r, x, o)

Receive(r, x) == \E o \in Orders :
    /\ Pc(r, x) = "read"
    /\ Arrives(r, x, o)
    /\ Mark(r, x, o)
    /\ seen' = [seen EXCEPT ![r] = @ \cup {o}]
    /\ UNCHANGED <<windows, now, book, peers, dials, shown, events>>

\* More frames in a second than the budget: the connection is dropped.
Drop(r, x) ==
    /\ "burst" \in windows /\ Pc(r, x) = "read"
    /\ x \in Relays => \E o \in Orders : wire[x][r][o] > 0
    /\ Leaves(r, x)
    /\ UNCHANGED <<windows, now, book, seen, dials, events>>

Full(r) == "full" \in windows /\ Cardinality(book[r]) >= MaxBook

\* Under the lock of the book: the order goes in, or its mark is taken back.
Insert(r, x) ==
    LET me == thread[r][x]
    IN /\ me.pc = "marked"
       /\ IF ~Full(r) /\ Expiry[me.o] > me.at
          THEN /\ book' = [book EXCEPT ![r] = @ \cup {me.o}]
               /\ Goes(r, x, "flood")
               /\ UNCHANGED seen
          ELSE /\ seen' = [seen EXCEPT ![r] = @ \ {me.o}]
               /\ thread' = [thread EXCEPT ![r][x] = Rest(x)]
               /\ UNCHANGED book
       /\ UNCHANGED <<windows, now, peers, dials, wire, shown, events>>

\* flood, then broadcast_ws: to the peers of now but the one it came from, and
\* into the outbox of every browser.  A write that fails takes the peer off the
\* map; its thread goes on.
Flood(r, x) ==
    LET to == (peers[r] \cap Relays) \ {x}
        gone == {y \in to : Broken(r, y)}
    IN /\ Pc(r, x) = "flood"
       /\ \E dead \in SUBSET (IF "stall" \in windows THEN to ELSE gone) :
            /\ Sends(r, (to \ (dead \cup gone)) \cup (peers[r] \cap Browsers), {thread[r][x].o})
            /\ peers' = [peers EXCEPT ![r] = @ \ dead]
       /\ thread' = [thread EXCEPT ![r][x] = Rest(x)]
       /\ UNCHANGED <<windows, now, book, seen, dials, shown, events>>

\* A browser's thread sends what is in its outbox, then waits for a frame.
Drain(r, b) ==
    /\ Pc(r, b) \in {"read", "drain"}
    /\ Pc(r, b) = "read" => wire[r][b] # Nothing
    /\ shown' = [shown EXCEPT ![b] = @ \cup {o \in Orders : wire[r][b][o] > 0}]
    /\ wire' = [wire EXCEPT ![r][b] = Nothing]
    /\ Goes(r, b, "read")
    /\ UNCHANGED <<windows, now, book, seen, peers, dials, events>>

Dead(r) == {o \in book[r] : Expiry[o] <= now}

\* The sweeper, under both locks: from the book, and from the marks what the
\* book dropped.
UnmarkedWholesale(r) == seen[r] \cap (book[r] \ Dead(r))
Unmarked(r) == seen[r] \ Dead(r)
Sweep(r) ==
    /\ book' = [book EXCEPT ![r] = @ \ Dead(r)]
    /\ seen' = [seen EXCEPT ![r] = Unmarked(r)]
    /\ UNCHANGED <<windows, now, peers, dials, thread, wire, shown, events>>

Pass ==
    /\ now < Horizon
    /\ now' = now + 1
    /\ UNCHANGED <<windows, book, seen, peers, dials, thread, wire, shown, events>>

Step(r, x) ==
    \/ Accept(r, x) \/ Snap(r, x) \/ Close(r, x) \/ Insert(r, x)
    \/ Flood(r, x)

Next ==
    \/ \E r \in Relays :
         \/ Dial(r) \/ Restart(r) \/ Sweep(r)
         \/ \E x \in Ends : Step(r, x) \/ Receive(r, x) \/ Break(r, x) \/ Drop(r, x)
         \/ \E b \in Browsers : Join(r, b) \/ Drain(r, b)
    \/ Pass

Spec == Init /\ [][Next]_vars

\* Fairness: threads run, and read what has arrived; nobody has to post, dial or
\* leave.
FairSpec ==
    /\ Spec
    /\ \A r \in Relays : \A x \in Ends \ {r} : WF_vars(
         Step(r, x) \/ (IF x \in Relays THEN Receive(r, x) ELSE Drain(r, x)))

-----------------------------------------------------------------------------
(* Properties.                                                             *)

\* What a relay takes for seen is its book and the orders its threads are about
\* to put there: no order of the book is flooded again, and none that was
\* refused or swept is shut out for good (the sweep race F1).
Marked(r) == {thread[r][x].o : x \in {y \in Ends : Pc(r, y) = "marked"}}
Dedup == \A r \in Relays : seen[r] = book[r] \cup Marked(r)

\* An order in the book of a relay reaches whoever is connected to it, peer or
\* browser, joined before or after, unless it expires or the connection ends
\* first.  Not claimed of a full book, a stalled write or a spent budget.
Connected(r, x) == Pc(r, x) # "off" /\ (x \in Relays => Pc(x, r) # "off")
Has(x, o) == o \in IF x \in Relays THEN book[x] ELSE shown[x]
Spread ==
    \A r \in Relays : \A x \in Ends \ {r} : \A o \in Orders :
        (windows = {} /\ o \in book[r] /\ Connected(r, x))
        ~> (Has(x, o) \/ Expiry[o] <= now \/ ~Connected(r, x))
=============================================================================
