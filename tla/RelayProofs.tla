----------------------------- MODULE RelayProofs -----------------------------
(***************************************************************************)
(* For any relays, browsers, orders, configuration and bounds: types, and   *)
(* that what a relay takes for seen is its book and what is about to go      *)
(* there.                                                                  *)
(***************************************************************************)
EXTENDS DexRelay, TLAPS

\* An order is marked by one thread at a time, and not while it is in the book.
Marks ==
  \A r \in Relays : \A x \in Ends : Pc(r, x) = "marked" =>
    /\ thread[r][x].o \in Orders \ book[r]
    /\ \A y \in Ends \ {x} : Pc(r, y) = "marked" => thread[r][y].o # thread[r][x].o

IInv == TypeOK /\ Dedup /\ Marks

Thread == [pc : Pcs, o : Orders \cup {NoOrder}, at : Nat]

-----------------------------------------------------------------------------
(* Types.                                                                  *)

LEMMA NothingType == Nothing \in [Orders -> Nat]
  BY DEF Nothing

LEMMA RestType == Off \in Thread /\ \A x \in Ends : Rest(x) \in Thread /\ Rest(x).pc # "marked"
  BY DEF Off, Rest, Thread, Pcs

\* One thread, or one wire, changes.
Sets(r, x, t) == thread' = [thread EXCEPT ![r][x] = t]
Puts(r, x, f) == wire' = [wire EXCEPT ![r][x] = f]

\* One thread changes, to something of the type.
LEMMA SetType ==
  ASSUME TypeOK, NEW r \in Relays, NEW x \in Ends, NEW t \in Thread,
         Sets(r, x, t)
  PROVE  /\ thread' \in [Relays -> [Ends -> Thread]]
         /\ thread'[r][x] = t
         /\ \A q \in Relays : \A y \in Ends :
              (q # r \/ y # x) => thread'[q][y] = thread[q][y]
  BY DEF TypeOK, Thread, Sets

\* One thread moves on.
LEMMA GoesType ==
  ASSUME TypeOK, NEW r \in Relays, NEW x \in Ends, NEW pc \in Pcs, Goes(r, x, pc)
  PROVE  /\ thread' \in [Relays -> [Ends -> Thread]]
         /\ Pc(r, x)' = pc
         /\ thread'[r][x].o = thread[r][x].o
         /\ \A q \in Relays : \A y \in Ends :
              (q # r \/ y # x) => thread'[q][y] = thread[q][y]
<1> DEFINE t == [thread[r][x] EXCEPT !.pc = pc]
<1>1. thread[r][x] \in Thread  BY DEF TypeOK, Thread
<1>2. t \in Thread /\ t.pc = pc /\ t.o = thread[r][x].o  BY <1>1 DEF Thread
<1>3. Sets(r, x, t)  BY DEF Goes, TypeOK, Sets
<1> HIDE DEF t
<1>4. /\ thread' \in [Relays -> [Ends -> Thread]]
      /\ thread'[r][x] = t
      /\ \A q \in Relays : \A y \in Ends :
           (q # r \/ y # x) => thread'[q][y] = thread[q][y]
  BY <1>2, <1>3, SetType
<1> QED  BY <1>2, <1>4 DEF Pc

LEMMA SendsType ==
  ASSUME TypeOK, NEW r \in Relays, NEW X, NEW S, Sends(r, X, S)
  PROVE  wire' \in [Relays -> [Ends -> [Orders -> Nat]]]
  BY DEF TypeOK, Sends

\* What is under way on one connection changes.
LEMMA WireType ==
  ASSUME TypeOK, NEW r \in Relays, NEW x \in Ends, NEW f \in [Orders -> Nat],
         Puts(r, x, f)
  PROVE  wire' \in [Relays -> [Ends -> [Orders -> Nat]]]
<1>1. wire[r] \in [Ends -> [Orders -> Nat]]  BY DEF TypeOK
<1>2. [wire[r] EXCEPT ![x] = f] \in [Ends -> [Orders -> Nat]]  BY <1>1
<1> QED  BY <1>2 DEF TypeOK, Puts

\* A thread that ends.
LEMMA LeavesType ==
  ASSUME TypeOK, NEW r \in Relays, NEW x \in Ends, Leaves(r, x)
  PROVE  /\ peers' \in [Relays -> SUBSET Ends]
         /\ wire' \in [Relays -> [Ends -> [Orders -> Nat]]]
         /\ shown' \in [Browsers -> SUBSET Orders]
         /\ thread' \in [Relays -> [Ends -> Thread]]
         /\ thread'[r][x] = Off
         /\ \A q \in Relays : \A y \in Ends :
              (q # r \/ y # x) => thread'[q][y] = thread[q][y]
<1>1. peers' \in [Relays -> SUBSET Ends]  BY DEF Leaves, TypeOK
<1>2. wire' \in [Relays -> [Ends -> [Orders -> Nat]]] /\ shown' \in [Browsers -> SUBSET Orders]
  <2>1. CASE x \in Relays
    <3>1. r \in Ends  BY DEF Ends
    <3>2. Puts(x, r, Nothing) /\ shown' = shown  BY <2>1 DEF Leaves, Puts
    <3> QED  BY <2>1, <3>1, <3>2, NothingType, WireType DEF TypeOK
  <2>2. CASE x \notin Relays
    <3>1. x \in Browsers  BY <2>2 DEF Ends
    <3>2. Puts(r, x, Nothing) /\ shown' = [shown EXCEPT ![x] = {}]
      BY <2>2 DEF Leaves, Puts
    <3>3. wire' \in [Relays -> [Ends -> [Orders -> Nat]]]  BY <3>2, NothingType, WireType
    <3> QED  BY <3>1, <3>2, <3>3 DEF TypeOK
  <2> QED  BY <2>1, <2>2
<1>3. Sets(r, x, Off) /\ Off \in Thread
  BY RestType DEF Leaves, Sets
<1>4. /\ thread' \in [Relays -> [Ends -> Thread]]
      /\ thread'[r][x] = Off
      /\ \A q \in Relays : \A y \in Ends :
           (q # r \/ y # x) => thread'[q][y] = thread[q][y]
  BY <1>3, SetType
<1> QED  BY <1>1, <1>2, <1>4

-----------------------------------------------------------------------------
(* Marks.                                                                  *)

\* A step that leaves the book, what is seen, and the marks alone.
LEMMA Quiet ==
  ASSUME IInv, book' = book, seen' = seen,
         \A r \in Relays : \A x \in Ends :
            \/ thread'[r][x] = thread[r][x]
            \/ Pc(r, x) # "marked" /\ Pc(r, x)' # "marked"
  PROVE  Dedup' /\ Marks'
<1>1. \A r \in Relays : Marked(r)' = Marked(r)  BY DEF Marked, Pc
<1>2. Dedup'  BY <1>1 DEF IInv, Dedup
<1>3. Marks'  BY DEF IInv, Marks, Pc
<1> QED  BY <1>2, <1>3

LEMMA InitInv == Init => IInv
<1> SUFFICES ASSUME Init PROVE IInv  OBVIOUS
<1>1. TypeOK
  BY RelayAssumption, NothingType, RestType DEF Init, TypeOK, Thread
<1>2. \A r \in Relays : \A x \in Ends : Pc(r, x) = "off"  BY DEF Init, Pc, Off
<1>3. Dedup /\ Marks  BY <1>2 DEF Init, Dedup, Marked, Marks
<1> QED  BY <1>1, <1>3 DEF IInv

-----------------------------------------------------------------------------
(* Each action keeps the invariant.                                        *)

USE DEF IInv

\* A connection is made, by one side or the other.
LEMMA DialInv ==
  ASSUME IInv, NEW r \in Relays, Dial(r)
  PROVE  IInv'
<1> PICK q \in dials[r] : Dial(r)!(q)  BY DEF Dial
<1>q. q \in Relays /\ q \in Ends /\ r \in Ends  BY DEF TypeOK, Ends
<1>1. CASE UNCHANGED <<peers, thread>>
  <2>1. TypeOK'  BY <1>1 DEF TypeOK
  <2> QED  BY <1>1, <2>1, Quiet
<1>2. CASE /\ Pc(r, q) = "off" /\ Pc(q, r) = "off"
           /\ peers' = [peers EXCEPT ![r] = @ \cup {q}]
           /\ thread' = [thread EXCEPT ![r][q].pc = "snap", ![q][r].pc = "backlog"]
  <2> DEFINE mid == [thread EXCEPT ![r][q].pc = "snap"]
             last == [mid EXCEPT ![q][r].pc = "backlog"]
  <2>1. thread[r][q] \in Thread /\ thread[q][r] \in Thread  BY <1>q DEF TypeOK, Thread
  <2>2. thread' = last  BY <1>2
  <2>3. /\ mid \in [Relays -> [Ends -> Thread]]
        /\ mid[r][q] = [thread[r][q] EXCEPT !.pc = "snap"]
        /\ \A p \in Relays : \A y \in Ends :
             (p # r \/ y # q) => mid[p][y] = thread[p][y]
    BY <1>q, <2>1 DEF TypeOK, Thread, Pcs
  <2> HIDE DEF mid
  <2>4. mid[q][r] \in Thread  BY <1>q, <2>3
  <2>5. /\ last \in [Relays -> [Ends -> Thread]]
        /\ last[q][r] = [mid[q][r] EXCEPT !.pc = "backlog"]
        /\ \A p \in Relays : \A y \in Ends :
             (p # q \/ y # r) => last[p][y] = mid[p][y]
    BY <1>q, <2>3, <2>4 DEF Thread, Pcs
  <2> HIDE DEF last
  <2>6. \A p \in Relays : \A y \in Ends :
          \/ thread'[p][y] = thread[p][y]
          \/ Pc(p, y) # "marked" /\ Pc(p, y)' # "marked"
    <3> SUFFICES ASSUME NEW p \in Relays, NEW y \in Ends, thread'[p][y] # thread[p][y]
                 PROVE  Pc(p, y) # "marked" /\ Pc(p, y)' # "marked"
      OBVIOUS
    <3>1. CASE p = q /\ y = r
      BY <1>2, <2>2, <2>4, <2>5, <3>1 DEF Pc, Thread
    <3>2. CASE ~(p = q /\ y = r)
      <4>1. p = r /\ y = q  BY <2>2, <2>3, <2>5, <3>2
      <4>2. last[p][y] = [thread[r][q] EXCEPT !.pc = "snap"]  BY <2>3, <2>5, <3>2, <4>1
      <4> QED  BY <1>2, <2>1, <2>2, <4>1, <4>2 DEF Pc, Thread
    <3> QED  BY <3>1, <3>2
  <2>7. peers' \in [Relays -> SUBSET Ends]  BY <1>2, <1>q DEF TypeOK
  <2>8. TypeOK'  BY <2>2, <2>5, <2>7 DEF TypeOK, Thread
  <2> QED  BY <2>6, <2>8, Quiet
<1> QED  BY <1>1, <1>2

\* A thread starts: accepted, joined, told the book.
LEMMA StartInv ==
  ASSUME IInv, NEW r \in Relays, NEW x \in Ends,
         Accept(r, x) \/ Snap(r, x) \/ (x \in Browsers /\ Join(r, x))
  PROVE  IInv'
<1>1. CASE Accept(r, x)
  <2>1. Goes(r, x, "snap") /\ "snap" \in Pcs  BY <1>1 DEF Accept, Pcs
  <2>2. peers' \in [Relays -> SUBSET Ends]  BY <1>1 DEF Accept, TypeOK
  <2>3. TypeOK'  BY <1>1, <2>1, <2>2, GoesType DEF Accept, TypeOK, Thread
  <2>4. Pc(r, x) # "marked" /\ Pc(r, x)' # "marked"
    <3>1. Pc(r, x)' = "snap"  BY <2>1, GoesType
    <3> QED  BY <1>1, <3>1 DEF Accept
  <2> QED  BY <1>1, <2>1, <2>3, <2>4, GoesType, Quiet DEF Accept
<1>2. CASE x \in Browsers /\ Join(r, x)
  <2>1. Goes(r, x, "snap") /\ "snap" \in Pcs  BY <1>2 DEF Join, Pcs
  <2>2. peers' \in [Relays -> SUBSET Ends]  BY <1>2 DEF Join, TypeOK
  <2>3. TypeOK'  BY <1>2, <2>1, <2>2, GoesType DEF Join, TypeOK, Thread
  <2>4. Pc(r, x) # "marked" /\ Pc(r, x)' # "marked"
    <3>1. Pc(r, x)' = "snap"  BY <2>1, GoesType
    <3> QED  BY <1>2, <3>1 DEF Join, Pc, TypeOK, Ends, Off
  <2> QED  BY <1>2, <2>1, <2>3, <2>4, GoesType, Quiet DEF Join
<1>3. CASE Snap(r, x)
  <2>1. Sets(r, x, Rest(x))  BY <1>3 DEF Snap, Sets
  <2>2. wire' \in [Relays -> [Ends -> [Orders -> Nat]]] /\ shown' \in [Browsers -> SUBSET Orders]
    <3>1. CASE x \in Relays
      <4>1. Sends(r, IF Broken(r, x) THEN {} ELSE {x}, Told(r, x)) /\ shown' = shown
        BY <1>3, <3>1 DEF Snap
      <4> QED  BY <4>1, SendsType DEF TypeOK
    <3>2. CASE x \notin Relays
      <4>1. x \in Browsers /\ wire' = wire /\ shown' = [shown EXCEPT ![x] = @ \cup book[r]]
        BY <1>3, <3>2 DEF Snap, Ends, Told
      <4>2. book[r] \in SUBSET Orders /\ shown[x] \in SUBSET Orders  BY <4>1 DEF TypeOK
      <4> QED  BY <4>1, <4>2 DEF TypeOK
    <3> QED  BY <3>1, <3>2
  <2>3. thread' \in [Relays -> [Ends -> Thread]]  BY <2>1, RestType, SetType
  <2>4. TypeOK'
    <3>1. UNCHANGED <<windows, now, book, seen, peers, dials, events>>  BY <1>3 DEF Snap
    <3> QED  BY <2>2, <2>3, <3>1 DEF TypeOK, Thread
  <2>5. Pc(r, x) # "marked" /\ Pc(r, x)' # "marked"
    BY <1>3, <2>1, RestType, SetType DEF Snap, Pc
  <2> QED  BY <1>3, <2>1, <2>4, <2>5, RestType, SetType, Quiet DEF Snap
<1> QED  BY <1>1, <1>2, <1>3

\* A thread ends.
LEMMA LeaveInv ==
  ASSUME IInv, NEW r \in Relays, NEW x \in Ends,
         Close(r, x) \/ Break(r, x) \/ Drop(r, x)
  PROVE  IInv'
<1>1. Leaves(r, x) /\ Pc(r, x) = "read" /\ events' \in Nat
  BY DEF Close, Break, Drop, TypeOK
<1>2. UNCHANGED <<windows, now, book, seen, dials>>
  BY DEF Close, Break, Drop
<1>3. TypeOK'  BY <1>1, <1>2, LeavesType DEF TypeOK, Thread
<1>4. Pc(r, x)' # "marked"  BY <1>1, LeavesType DEF Pc, Off
<1> QED  BY <1>1, <1>2, <1>3, <1>4, LeavesType, Quiet

\* A thread passes orders on.
LEMMA PassOnInv ==
  ASSUME IInv, NEW r \in Relays, NEW x \in Ends,
         Flood(r, x) \/ (x \in Browsers /\ Drain(r, x))
  PROVE  IInv'
<1>1. CASE Flood(r, x)
  <2>1. Sets(r, x, Rest(x)) /\ Pc(r, x) = "flood"  BY <1>1 DEF Flood, Sets
  <2>2. wire' \in [Relays -> [Ends -> [Orders -> Nat]]]  BY <1>1, SendsType DEF Flood
  <2>3. peers' \in [Relays -> SUBSET Ends]  BY <1>1 DEF Flood, TypeOK
  <2>4. TypeOK'  BY <1>1, <2>1, <2>2, <2>3, RestType, SetType DEF Flood, TypeOK, Thread
  <2>5. Pc(r, x) # "marked" /\ Pc(r, x)' # "marked"
    BY <2>1, RestType, SetType DEF Pc
  <2> QED  BY <1>1, <2>1, <2>4, <2>5, RestType, SetType, Quiet DEF Flood
<1>2. CASE x \in Browsers /\ Drain(r, x)
  <2>1. Goes(r, x, "read") /\ "read" \in Pcs  BY <1>2 DEF Drain, Pcs
  <2>2. wire' \in [Relays -> [Ends -> [Orders -> Nat]]]
    <3>1. Puts(r, x, Nothing) /\ x \in Ends  BY <1>2 DEF Drain, Puts
    <3> QED  BY <3>1, NothingType, WireType
  <2>3. shown' \in [Browsers -> SUBSET Orders]  BY <1>2 DEF Drain, TypeOK
  <2>4. TypeOK'  BY <1>2, <2>1, <2>2, <2>3, GoesType DEF Drain, TypeOK, Thread
  <2>5. Pc(r, x) # "marked" /\ Pc(r, x)' # "marked"
    <3>1. Pc(r, x)' = "read"  BY <2>1, GoesType
    <3> QED  BY <1>2, <3>1 DEF Drain
  <2> QED  BY <1>2, <2>1, <2>4, <2>5, GoesType, Quiet DEF Drain
<1> QED  BY <1>1, <1>2

\* A frame is read: its order is marked, or known.
LEMMA ReceiveInv ==
  ASSUME IInv, NEW r \in Relays, NEW x \in Ends, Receive(r, x)
  PROVE  IInv'
<1> PICK o \in Orders : Receive(r, x)!(o)  BY DEF Receive
<1>1. wire' \in [Relays -> [Ends -> [Orders -> Nat]]]
  <2>1. CASE x \in Relays
    <3> DEFINE f == [wire[x][r] EXCEPT ![o] = @ - 1]
    <3>1. r \in Ends  BY DEF Ends
    <3>2. wire[x][r] \in [Orders -> Nat] /\ wire[x][r][o] > 0
      BY <2>1, <3>1 DEF TypeOK, Arrives
    <3>3. f \in [Orders -> Nat]  BY <3>2
    <3>4. Puts(x, r, f)  BY <2>1 DEF Arrives, Puts
    <3> HIDE DEF f
    <3> QED  BY <2>1, <3>1, <3>3, <3>4, WireType
  <2>2. CASE x \notin Relays
    BY <2>2 DEF Arrives, TypeOK
  <2> QED  BY <2>1, <2>2
<1>2. seen' \in [Relays -> SUBSET Orders]  BY DEF TypeOK
<1>3. CASE o \in seen[r]
  <2>1. Sets(r, x, Rest(x))  BY <1>3 DEF Mark, Sets
  <2>2. thread' \in [Relays -> [Ends -> Thread]]  BY <2>1, RestType, SetType
  <2>3. TypeOK'  BY <1>1, <1>2, <2>2 DEF TypeOK, Thread
  <2>4. Pc(r, x) # "marked" /\ Pc(r, x)' # "marked"  BY <2>1, RestType, SetType DEF Pc
  <2>5. seen' = seen  BY <1>3 DEF TypeOK
  <2> QED  BY <2>1, <2>3, <2>4, <2>5, RestType, SetType, Quiet
<1>4. CASE o \notin seen[r]
  <2> DEFINE t == [pc |-> "marked", o |-> o, at |-> now]
  <2>1. t \in Thread  BY DEF Thread, Pcs, TypeOK
  <2>2. Sets(r, x, t)  BY <1>4 DEF Mark, MarkBlind, Sets
  <2>3. /\ thread' \in [Relays -> [Ends -> Thread]]
        /\ Pc(r, x)' = "marked" /\ thread'[r][x].o = o
        /\ \A q \in Relays : \A y \in Ends :
             (q # r \/ y # x) => thread'[q][y] = thread[q][y]
    <3>1. t.pc = "marked" /\ t.o = o  OBVIOUS
    <3> HIDE DEF t
    <3>2. /\ thread' \in [Relays -> [Ends -> Thread]]
          /\ thread'[r][x] = t
          /\ \A q \in Relays : \A y \in Ends :
               (q # r \/ y # x) => thread'[q][y] = thread[q][y]
      BY <2>1, <2>2, SetType
    <3> QED  BY <3>1, <3>2 DEF Pc
  <2>4. TypeOK'  BY <1>1, <1>2, <2>3 DEF TypeOK, Thread
  <2>5. /\ \A q \in Relays : q # r => Marked(q)' = Marked(q)
        /\ Marked(r)' = Marked(r) \cup {o}
    BY <2>3 DEF Marked, Pc
  <2>6. Dedup'  BY <2>5 DEF Dedup, TypeOK
  <2>7. o \notin book[r] /\ o \notin Marked(r)  BY <1>4 DEF Dedup
  <2>8. \A y \in Ends : Pc(r, y) = "marked" => thread[r][y].o # o  BY <2>7 DEF Marked
  <2>9. Marks'
    <3> SUFFICES ASSUME NEW q \in Relays, NEW z \in Ends, Pc(q, z)' = "marked"
                 PROVE  /\ thread'[q][z].o \in Orders \ book[q]
                        /\ \A y \in Ends \ {z} :
                             Pc(q, y)' = "marked" => thread'[q][y].o # thread'[q][z].o
      BY DEF Marks, Pc
    <3>1. CASE q # r
      <4>1. \A y \in Ends : thread'[q][y] = thread[q][y]  BY <2>3, <3>1
      <4> QED  BY <4>1 DEF Marks, Pc
    <3>2. CASE q = r /\ z = x
      BY <2>3, <2>7, <2>8, <3>2 DEF Pc
    <3>3. CASE q = r /\ z # x
      BY <2>3, <2>8, <3>3 DEF Marks, Pc
    <3> QED  BY <3>1, <3>2, <3>3
  <2> QED  BY <2>4, <2>6, <2>9
<1> QED  BY <1>3, <1>4

\* Under the lock of the book: in, or unmarked.
LEMMA InsertInv ==
  ASSUME IInv, NEW r \in Relays, NEW x \in Ends, Insert(r, x)
  PROVE  IInv'
<1> DEFINE o == thread[r][x].o
<1>1. Pc(r, x) = "marked"  BY DEF Insert, Pc
<1>2. o \in Orders \ book[r] /\ o \in Marked(r)  BY <1>1 DEF Marks, Marked
<1>3. /\ thread' \in [Relays -> [Ends -> Thread]]
      /\ Pc(r, x)' # "marked"
      /\ \A q \in Relays : \A y \in Ends :
           (q # r \/ y # x) => thread'[q][y] = thread[q][y]
  <2>1. CASE Goes(r, x, "flood")
    <3>1. "flood" \in Pcs  BY DEF Pcs
    <3> QED  BY <2>1, <3>1, GoesType
  <2>2. CASE Sets(r, x, Rest(x))
    <3>1. Rest(x) \in Thread /\ Rest(x).pc # "marked"  BY RestType
    <3>2. /\ thread' \in [Relays -> [Ends -> Thread]]
          /\ thread'[r][x] = Rest(x)
          /\ \A q \in Relays : \A y \in Ends :
               (q # r \/ y # x) => thread'[q][y] = thread[q][y]
      BY <2>2, <3>1, SetType
    <3> QED  BY <3>1, <3>2 DEF Pc
  <2> QED  BY <2>1, <2>2 DEF Insert, Sets
<1>4. \/ book' = [book EXCEPT ![r] = @ \cup {o}] /\ seen' = seen
      \/ book' = book /\ seen' = [seen EXCEPT ![r] = @ \ {o}]
  BY DEF Insert
<1>5. UNCHANGED <<windows, now, peers, dials, wire, shown, events>>  BY DEF Insert
<1> HIDE DEF o
<1>6. TypeOK'
  <2>1. book' \in [Relays -> SUBSET Orders] /\ seen' \in [Relays -> SUBSET Orders]
    <3>1. /\ book \in [Relays -> SUBSET Orders] /\ seen \in [Relays -> SUBSET Orders]
          /\ book[r] \cup {o} \in SUBSET Orders /\ seen[r] \ {o} \in SUBSET Orders
      BY <1>2 DEF TypeOK
    <3> QED  BY <1>4, <3>1
  <2> QED  BY <1>3, <1>5, <2>1 DEF TypeOK, Thread
<1>7. \A y \in Ends \ {x} : Pc(r, y) = "marked" => thread[r][y].o # o
  BY <1>1 DEF Marks, o
<1>8. /\ \A q \in Relays : q # r => Marked(q)' = Marked(q)
      /\ Marked(r)' = Marked(r) \ {o}
  BY <1>1, <1>3, <1>7 DEF Marked, Pc, o
<1>9. Dedup'
  <2>1. book \in [Relays -> SUBSET Orders] /\ seen \in [Relays -> SUBSET Orders]
    BY DEF TypeOK
  <2> SUFFICES ASSUME NEW q \in Relays PROVE seen'[q] = book'[q] \cup Marked(q)'
    BY DEF Dedup
  <2>2. seen[q] = book[q] \cup Marked(q)  BY DEF Dedup
  <2>3. CASE q # r  BY <1>4, <1>8, <2>1, <2>2, <2>3
  <2>4. CASE q = r  BY <1>2, <1>4, <1>8, <2>1, <2>2, <2>4
  <2> QED  BY <2>3, <2>4
<1>10. Marks'
  <2> SUFFICES ASSUME NEW q \in Relays, NEW z \in Ends, Pc(q, z)' = "marked"
               PROVE  /\ thread'[q][z].o \in Orders \ book'[q]
                      /\ \A y \in Ends \ {z} :
                           Pc(q, y)' = "marked" => thread'[q][y].o # thread'[q][z].o
    BY DEF Marks, Pc
  <2>1. q # r \/ z # x  BY <1>3
  <2>2. thread'[q][z] = thread[q][z] /\ Pc(q, z) = "marked"  BY <1>3, <2>1 DEF Pc
  <2>3. thread[q][z].o \in Orders \ book[q]  BY <2>2 DEF Marks
  <2>4. thread'[q][z].o \in Orders \ book'[q]
    BY <1>4, <1>7, <2>1, <2>2, <2>3 DEF TypeOK
  <2>5. ASSUME NEW y \in Ends \ {z}, Pc(q, y)' = "marked"
        PROVE  thread'[q][y].o # thread'[q][z].o
    <3>1. thread'[q][y] = thread[q][y] /\ Pc(q, y) = "marked"  BY <1>3, <2>5 DEF Pc
    <3> QED  BY <2>2, <3>1 DEF Marks
  <2> QED  BY <2>4, <2>5
<1> QED  BY <1>6, <1>9, <1>10

\* The sweeper takes from both what the book held.
LEMMA SweepInv ==
  ASSUME IInv, NEW r \in Relays, Sweep(r)
  PROVE  IInv'
<1>1. TypeOK'  BY DEF Sweep, Unmarked, TypeOK
<1>2. \A q \in Relays : Marked(q)' = Marked(q)  BY DEF Sweep, Marked, Pc
<1>3. Marked(r) \cap book[r] = {}  BY DEF Marked, Marks
<1>4. Dead(r) \subseteq book[r]  BY DEF Dead
<1>5. Dedup'  BY <1>2, <1>3, <1>4 DEF Dedup, Sweep, Unmarked, TypeOK
<1>6. \A q \in Relays : book'[q] \subseteq book[q]  BY DEF Sweep, TypeOK
<1>7. thread' = thread  BY DEF Sweep
<1>8. Marks'  BY <1>6, <1>7 DEF Marks, Pc
<1> QED  BY <1>1, <1>5, <1>8

\* Everything of a relay goes at once.
LEMMA RestartInv ==
  ASSUME IInv, NEW r \in Relays, Restart(r)
  PROVE  IInv'
<1>1. /\ thread' \in [Relays -> [Ends -> Thread]]
      /\ \A x \in Ends : thread'[r][x] = Off
      /\ \A q \in Relays : q # r => thread'[q] = thread[q]
  BY RestType DEF Restart, TypeOK, Thread
<1>2. wire' \in [Relays -> [Ends -> [Orders -> Nat]]]
  BY NothingType DEF Restart, TypeOK
<1>3. shown' \in [Browsers -> SUBSET Orders]  BY DEF Restart, TypeOK
<1>4. /\ book' = [book EXCEPT ![r] = {}] /\ seen' = [seen EXCEPT ![r] = {}]
      /\ peers' = [peers EXCEPT ![r] = {}] /\ dials' = [dials EXCEPT ![r] = Config[r]]
      /\ events' = events + 1 /\ UNCHANGED <<windows, now>>
  BY DEF Restart
<1>5. TypeOK'
  <2>1. /\ book' \in [Relays -> SUBSET Orders] /\ seen' \in [Relays -> SUBSET Orders]
        /\ peers' \in [Relays -> SUBSET Ends]
    BY <1>4 DEF TypeOK
  <2>2. dials' \in [Relays -> SUBSET Relays]
    <3>1. Config[r] \in SUBSET Relays  BY RelayAssumption
    <3> QED  BY <1>4, <3>1 DEF TypeOK
  <2>3. windows' \in AllWindows /\ now' \in Nat /\ events' \in Nat  BY <1>4 DEF TypeOK
  <2> QED  BY <1>1, <1>2, <1>3, <2>1, <2>2, <2>3 DEF TypeOK, Thread
<1>6. Marked(r)' = {} /\ \A q \in Relays : q # r => Marked(q)' = Marked(q)
  BY <1>1 DEF Marked, Pc, Off
<1>7. Dedup'  BY <1>4, <1>6 DEF Dedup, TypeOK
<1>8. Marks'
  <2> SUFFICES ASSUME NEW q \in Relays, NEW z \in Ends, Pc(q, z)' = "marked"
               PROVE  /\ thread'[q][z].o \in Orders \ book'[q]
                      /\ \A y \in Ends \ {z} :
                           Pc(q, y)' = "marked" => thread'[q][y].o # thread'[q][z].o
    BY DEF Marks, Pc
  <2>1. q # r  BY <1>1 DEF Pc, Off
  <2>2. thread'[q] = thread[q] /\ book'[q] = book[q]  BY <1>1, <1>4, <2>1 DEF TypeOK
  <2> QED  BY <2>2 DEF Marks, Pc
<1> QED  BY <1>5, <1>7, <1>8

LEMMA NextInv == IInv /\ [Next]_vars => IInv'
<1> SUFFICES ASSUME IInv, [Next]_vars PROVE IInv'  OBVIOUS
<1>1. CASE UNCHANGED vars
  <2>1. TypeOK'  BY <1>1 DEF vars, TypeOK
  <2> QED  BY <1>1, <2>1, Quiet DEF vars
<1>2. CASE Pass
  <2>1. TypeOK'  BY <1>2 DEF Pass, TypeOK
  <2> QED  BY <1>2, <2>1, Quiet DEF Pass
<1>3. CASE \E r \in Relays : Dial(r) \/ Restart(r) \/ Sweep(r)
  BY <1>3, DialInv, RestartInv, SweepInv
<1>4. ASSUME NEW r \in Relays, NEW x \in Ends,
             Step(r, x) \/ Receive(r, x) \/ Break(r, x) \/ Drop(r, x)
      PROVE  IInv'
  BY <1>4, StartInv, LeaveInv, PassOnInv, ReceiveInv, InsertInv DEF Step
<1>5. ASSUME NEW r \in Relays, NEW b \in Browsers, Join(r, b) \/ Drain(r, b)
      PROVE  IInv'
  <2>1. b \in Ends  BY DEF Ends
  <2> QED  BY <1>5, <2>1, StartInv, PassOnInv
<1> QED  BY <1>1, <1>2, <1>3, <1>4, <1>5 DEF Next

\* Every thread, book and wire holds what it is declared to hold.
THEOREM Types == Spec => []TypeOK
<1>1. IInv => TypeOK  OBVIOUS
<1> QED  BY <1>1, InitInv, NextInv, PTL DEF Spec

\* However the two locks of a relay are interleaved by the threads that ingest
\* and the one that sweeps, what is taken for seen is what is in the book or
\* about to be put there or refused.
THEOREM SeenIsBook == Spec => []Dedup
<1>1. IInv => Dedup  OBVIOUS
<1> QED  BY <1>1, InitInv, NextInv, PTL DEF Spec
=============================================================================
