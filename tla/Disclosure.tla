----------------------------- MODULE Disclosure -----------------------------
(***************************************************************************)
(* GET /interlace/peers/:fp: a page of a peer's attestation chain and the  *)
(* peer's queued attestations, read in three calls to the TrustStore while *)
(* its tables change.  A page that is not the last one carries a cursor,   *)
(* signed for the peer, to the seq where the next one starts.              *)
(*                                                                         *)
(* The lease is a verdict (module Lease).  A cursor is what it decodes to; *)
(* one that this deployment did not sign is Forged.  A reader follows the  *)
(* cursors it was given, or shows one it was given for another peer.       *)
(***************************************************************************)
EXTENDS TrustStore, Sequences, SequencesExt

CONSTANTS Readers, PageSize, NoCursor, Forged

ASSUME DisclosureAssumption == PageSize \in Nat \ {0} /\ NoCursor # Forged

VARIABLES reader

dVars == <<tsVars, reader>>

NoPage == [pc |-> "idle", peer |-> NoRef, cursor |-> NoCursor, rejected |-> FALSE,
           page |-> <<>>, got |-> <<>>, status |-> 0]

DInit == TSInit /\ reader = [r \in Readers |-> NoPage]

\* signCursor.
SignCursor(p, seq) == [peer |-> p, from |-> seq]

\* As if the next page began with the last row of this one.
NextFromLast(p, page) == SignCursor(p, Last(page).seq)

NextCursor(p, page) == SignCursor(p, Last(page).seq + 1)

VerifyCursor(p, cursor) == cursor = NoCursor \/ (cursor # Forged /\ cursor.peer = p)

\* The lease gate and the cursor; a failure of either is kept for later.
Ask(r, p, granted, cursor) ==
    /\ reader[r].pc = "idle"
    /\ cursor \in {NoCursor, Forged, reader[r].cursor}
    /\ reader' = [reader EXCEPT ![r] =
         [NoPage EXCEPT !.pc = "probe", !.peer = p, !.cursor = cursor,
                        !.rejected = ~granted \/ ~VerifyCursor(p, cursor),
                        !.got = IF cursor = NoCursor THEN <<>> ELSE reader[r].got]]
    /\ UNCHANGED tsVars

PeerHasChain(p) == RowsOf(p) # {} \/ \E q \in pending : q.key[1] = p

\* constantTimeErrorResponse; what the reader had stays with it.
NotFound(r) == reader' = [reader EXCEPT ![r].pc = "idle", ![r].status = 404, ![r].cursor = NoCursor]

\* The probe is made whether or not the request is to be refused.
Probe(r) ==
    /\ reader[r].pc = "probe"
    /\ IF reader[r].rejected \/ ~PeerHasChain(reader[r].peer) THEN NotFound(r)
       ELSE reader' = [reader EXCEPT ![r].pc = "list"]
    /\ UNCHANGED tsVars

\* ORDER BY seq ASC: the i-th row is the one with i - 1 rows below it.
OrderBySeq(rows) ==
    [i \in 1..Cardinality(rows) |->
        CHOOSE a \in rows : Cardinality({b \in rows : b.seq < a.seq}) = i - 1]

\* From a seq on, LIMIT limit.
ListAttestationsForPeer(p, from, limit) ==
    LET rows == OrderBySeq({a \in RowsOf(p) : a.seq >= from})
    IN  SubSeq(rows, 1, IF Len(rows) < limit THEN Len(rows) ELSE limit)

ListAttestations(r) ==
    LET q == reader[r]
        from == IF q.cursor = NoCursor THEN 0 ELSE q.cursor.from
    IN  /\ q.pc = "list"
        /\ reader' = [reader EXCEPT ![r].pc = "pending",
             ![r].page = ListAttestationsForPeer(q.peer, from, PageSize + 1)]
        /\ UNCHANGED tsVars

ListPendingForPeer(p) == {q \in pending : q.key[1] = p}

\* The page is built; the reader adds its rows to those of the pages before.
Disclose(r) ==
    LET q == reader[r]
        page == SubSeq(q.page, 1, IF Len(q.page) > PageSize THEN PageSize ELSE Len(q.page))
    IN  /\ q.pc = "pending"
        /\ IF q.page = <<>> /\ ListPendingForPeer(q.peer) = {} THEN NotFound(r)
           ELSE reader' = [reader EXCEPT ![r] =
                  [NoPage EXCEPT !.peer = q.peer, !.got = q.got \o page, !.status = 200,
                     !.cursor = IF Len(q.page) > PageSize THEN NextCursor(q.peer, page)
                                ELSE NoCursor]]
        /\ UNCHANGED tsVars

ReaderNext ==
    \E r \in Readers :
       \/ \E p \in Peers, granted \in BOOLEAN, cursor \in {NoCursor, Forged, reader[r].cursor} :
            Ask(r, p, granted, cursor)
       \/ Probe(r) \/ ListAttestations(r) \/ Disclose(r)

DNext == (TSNext /\ UNCHANGED reader) \/ ReaderNext

DSpec == DInit /\ [][DNext]_dVars

------------------------------------------------------------------------------
\* Whatever is attested between one page and the next, the rows a reader has
\* collected along the cursors are one peer's, from its first on, in the order
\* of the chain with each row once and none left out.
PagesAreTheChain ==
    \A r \in Readers : LET got == reader[r].got IN
        got # <<>> =>
          \A i \in DOMAIN got : got[i].seq = i /\ got[i].peer = got[1].peer /\ got[i] \in attestations
=============================================================================
