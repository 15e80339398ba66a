----------------------------- MODULE LedgerMail -----------------------------
(***************************************************************************)
(* One message of MailboxWire (web/mailbox.js) posted through the ledger    *)
(* relay (web/ledger_relay.js): cut into chunks, a send for each, reassembled *)
(* by the reader from what it can see of them.                              *)
(*                                                                         *)
(* mail  the poster: where it stands, the next chunk, the head it signs on,  *)
(*       the refreshes and rounds it has used                                *)
(***************************************************************************)
EXTENDS NanoAccount, FiniteSetsExt

CONSTANTS
    Total,      \* chunks of the message
    Refreshes,  \* fresh reads after a refusal, within one post (3 in the code)
    Rounds      \* posts of the message by MailboxWire.send (4 in the code)

ASSUME MailAssumption == Total \in Nat \ {0} /\ Refreshes \in Nat /\ Rounds \in Nat \ {0}

VARIABLE mail

MailPcs == {"idle", "read", "pocket", "work", "sent", "failed"}
NoHead == [head |-> <<>>, sound |-> TRUE]

NoMail == [pc |-> "idle", idx |-> 0, on |-> NoHead, refreshes |-> 0, rounds |-> 0]

MailInit == mail = NoMail

MailBusy == mail.pc \in {"read", "pocket", "work"}

\* MailboxWire.send starts a round: relay.post from the first chunk.
MailStart ==
    /\ mail.pc = "idle"
    /\ mail' = [mail EXCEPT !.pc = "read"]
    /\ UNCHANGED nanoVars

\* The post throws; the same ciphertext is posted again in the next round.
Restart ==
    mail' = IF mail.rounds + 1 < Rounds
            THEN [NoMail EXCEPT !.pc = "read", !.rounds = mail.rounds + 1]
            ELSE [NoMail EXCEPT !.pc = "failed"]

\* pocketAll, at the start of a post and of a refresh.
MailRead ==
    /\ mail.pc = "read"
    /\ \/ \E a \in Read : \/ mail' = [mail EXCEPT !.pc = "work", !.on = a]
                          \/ Receivable # {} /\ mail' = [mail EXCEPT !.pc = "pocket", !.on = a]
       \/ Restart
    /\ UNCHANGED nanoVars

MailPocket ==
    /\ mail.pc = "pocket"
    /\ \E e \in Receivable :
         LET chain == Pocketed(mail.on, e)
         IN \/ \E on \in Ahead(chain) :
                 GoesOn(chain, on) /\ mail' = [mail EXCEPT !.pc = "work", !.on = on]
            \/ Lost(chain) /\ Restart
    /\ UNCHANGED <<windows, conf>>

Chunk(on, idx) == [Entry("chunk", idx) EXCEPT !.sound = on.sound]

\* One chunk: taken, refused and rebuilt on a fresh read, or the post fails.
MailSubmit ==
    LET chain == Append(mail.on.head, Chunk(mail.on, mail.idx))
    IN /\ mail.pc = "work"
       /\ \/ \E on \in Ahead(chain) :
               /\ GoesOn(chain, on)
               /\ mail' = [mail EXCEPT !.idx = @ + 1, !.on = on,
                             !.pc = IF mail.idx + 1 = Total THEN "sent" ELSE "work"]
          \/ /\ Lost(chain) /\ Refused(chain)
             /\ mail.refreshes < Refreshes
             /\ mail' = [mail EXCEPT !.pc = "read", !.on = NoHead, !.refreshes = @ + 1]
          \/ Lost(chain) /\ Restart
       /\ UNCHANGED <<windows, conf>>

MailNext == MailRead \/ MailPocket \/ MailSubmit

-----------------------------------------------------------------------------
(* The reader: LedgerRelay.fetch.                                          *)

\* The header of a chunk is its amount, so one of another amount has none.
ChunksIn(chain) == {i \in 1 .. Len(chain) : chain[i].k = "chunk" /\ chain[i].sound}

\* The receivable list shows the blocks `want`, blocks_info those of them in
\* `known`: nothing yet, or the bytes at the places the known chunks name.
FetchEager(chain, want, known) ==
    IF want = {} \/ Cardinality(want) < Total THEN {} ELSE {chain[i].id : i \in known}
Fetch(chain, want, known) ==
    IF want = {} \/ Cardinality(want) < Total \/ Cardinality(known) < Total THEN {}
    ELSE {chain[i].id : i \in known}

\* A blob comes back whole, unless some chunk was posted twice: then two copies
\* of it may stand in for one that is not there yet ("or null if not all chunks
\* are visible yet").
Whole ==
    \A n \in 0 .. Len(conf) :
        LET want == ChunksIn(SubSeq(conf, 1, n))
        IN \A known \in SUBSET want :
              Fetch(conf, want, known) \in {{}, 0 .. Total - 1}
              \/ \E i, j \in want : i # j /\ conf[i].id = conf[j].id
=============================================================================
