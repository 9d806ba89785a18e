------------------------------ MODULE MCStores ------------------------------
(***************************************************************************)
(* Small instances of what keeps the records and of those who read them:   *)
(* the receipts of responses and their archive, the audit tables under     *)
(* callers that may send any RPC with any claim about the head, with a     *)
(* reader of their pages, and the tables of BlobStore and RefStore. They   *)
(* share nothing: a behaviour is one of one of them.                       *)
(***************************************************************************)
EXTENDS Archive, WorkerdStore, Disclosure, Receipts

CONSTANTS MaxRows, Queued

VARIABLE part

mcVars == <<aVars, wVars, dVars, vars, part>>

MCInit ==
    /\ AInit /\ WInit /\ DInit /\ Init
    /\ part \in {"archive", "notices", "blobs", "pages", "receipts"}
    /\ part # "receipts" => config = {}

\* Bound: a behaviour of the archive has receipts, or has notices, of which the
\* actor signs at most one.
OneNotice == signed' \subseteq {[of |-> 1, by |-> 2, at |-> 1]} /\ receipts' = {}
NoNotice == \A e \in BundleEpochs : bundle'[e] # Null => bundle'[e].notice = Null

\* Bound: MaxRows attestations, and a queue for the peers in Queued.
FewRows ==
    /\ Cardinality(attestations') <= MaxRows
    /\ \A q \in pending' : q.key[1] \in Queued

\* Requests are alike: a certain one is the first to begin.
Foremost == CHOOSE r \in Reqs : TRUE
InOrder == (\E r \in Reqs : req'[r] # NoReq) => req'[Foremost] # NoReq

MCNext ==
    /\ UNCHANGED part
    /\ \/ part = "archive" /\ ANext /\ signed' = {} /\ NoNotice /\ UNCHANGED <<wVars, dVars, vars>>
       \/ part = "notices" /\ ANext /\ OneNotice /\ UNCHANGED <<wVars, dVars, vars>>
       \/ part = "blobs" /\ WNext /\ UNCHANGED <<aVars, dVars, vars>>
       \/ part = "pages" /\ DNext /\ FewRows /\ UNCHANGED <<aVars, wVars, vars>>
       \/ part = "receipts" /\ Next /\ InOrder /\ UNCHANGED <<aVars, wVars, dVars>>

MCSpec == MCInit /\ [][MCNext]_mcVars

\* The state of every store is of its type (the types of schema and of the
\* records the handlers keep).
RecordsTypeOK == TSTypeOK /\ ATypeOK /\ TypeOK

MCValues == {<<1>>, <<1, 2, 1>>, <<1, 2, 2, 1, 1>>}
MCConfigs == SUBSET {"notme", "key"}
MCContents == {<<"data", "data">>, <<"comment">>}
=============================================================================
