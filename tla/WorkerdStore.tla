---------------------------- MODULE WorkerdStore ----------------------------
(***************************************************************************)
(* The tables of BlobStore and RefStore: a value as long as a chunk is one *)
(* row, a longer one a row per chunk, joined again when it is read; a ref  *)
(* is a row that compare-and-swap writes.                                  *)
(*                                                                         *)
(* A statement may fail, and the statements before it stay: put opens no   *)
(* transaction.  The digest is awaited before the first row is written, so *)
(* any other call may come in between; from then on put runs to its end.   *)
(* The hash is injective: a digest is the value it is taken of.            *)
(***************************************************************************)
EXTENDS Integers, Sequences, SequencesExt, FiniteSets

CONSTANTS
    Values,         \* what is put: sequences of bytes
    ChunkSize,      \* BLOB_CHUNK_SIZE
    Putters,        \* calls of put
    Names,          \* names of refs
    Writers,        \* clients that read a ref and swap it
    NoDigest        \* no row of a ref, no answer yet

ASSUME WorkerdAssumption ==
    /\ ChunkSize \in Nat \ {0}
    /\ Values \subseteq Seq(Nat)
    /\ NoDigest \notin Values \cup (Names \X (Values \cup {NoDigest}))

VARIABLES
    rows,      \* <prefix>_blobs: the digests with a row
    chunks,    \* <prefix>_blob_chunks: for each digest, seq -> bytes
    refs,      \* <prefix>_refs
    put,       \* the calls of put
    writer     \* the clients of the refs

wVars == <<rows, chunks, refs, put, writer>>

WInit ==
    /\ rows = {}
    /\ chunks = [d \in Values |-> <<>>]
    /\ refs = [n \in Names |-> NoDigest]
    /\ put = [p \in Putters |-> [pc |-> "idle", d |-> NoDigest]]
    /\ writer = [w \in Writers |-> [pc |-> "idle", name |-> NoDigest, saw |-> NoDigest]]

------------------------------------------------------------------------------
(* put. *)

\* The key a caller gives must be one of the two digests of the value; else
\* nothing is written.
DigestBytes(p, v) ==
    /\ put[p].pc = "idle"
    /\ put' = [put EXCEPT ![p] = [pc |-> "write", d |-> v]]
    /\ UNCHANGED <<rows, chunks, refs, writer>>

\* As if the last chunk were cut at a whole number of chunks.
FullChunks(v) ==
    [i \in 1..(Len(v) \div ChunkSize) |-> SubSeq(v, (i - 1) * ChunkSize + 1, i * ChunkSize)]

Split(v) ==
    [i \in 1..((Len(v) + ChunkSize - 1) \div ChunkSize) |->
        SubSeq(v, (i - 1) * ChunkSize + 1, IF i * ChunkSize < Len(v) THEN i * ChunkSize ELSE Len(v))]

\* As if a row that is there ended the loop.
StopAtFirst(d, n) == chunks' = [chunks EXCEPT ![d] = IF @ = <<>> THEN SubSeq(Split(d), 1, n) ELSE @]

\* INSERT OR IGNORE of the first n rows: those that are there stay.
InsertChunks(d, n) ==
    chunks' = [chunks EXCEPT ![d] = IF Len(@) >= n THEN @ ELSE @ \o SubSeq(Split(d), Len(@) + 1, n)]

\* All rows, or those before the statement that fails.
Put(p) ==
    LET d == put[p].d IN
    /\ put[p].pc = "write"
    /\ IF Len(d) <= ChunkSize
       THEN rows' = rows \cup {d} /\ UNCHANGED chunks
       ELSE InsertChunks(d, Len(Split(d))) /\ UNCHANGED rows
    /\ put' = [put EXCEPT ![p].pc = "ok"]
    /\ UNCHANGED <<refs, writer>>

PutThrows(p) ==
    LET d == put[p].d IN
    /\ put[p].pc = "write"
    /\ IF Len(d) <= ChunkSize THEN UNCHANGED chunks
       ELSE \E n \in 0..(Len(Split(d)) - 1) : InsertChunks(d, n)
    /\ put' = [put EXCEPT ![p].pc = "failed"]
    /\ UNCHANGED <<rows, refs, writer>>

\* A caller whose put failed calls it again.
PutAgain(p) ==
    /\ put[p].pc = "failed"
    /\ put' = [put EXCEPT ![p].pc = "write"]
    /\ UNCHANGED <<rows, chunks, refs, writer>>

\* get: the one row, or the chunks joined in the order of seq, or null.
GetChunked(d) == IF chunks[d] = <<>> THEN NoDigest ELSE FlattenSeq(chunks[d])

Get(d) == IF d \in rows THEN d ELSE GetChunked(d)

Has(d) == d \in rows \/ chunks[d] # <<>>

------------------------------------------------------------------------------
(* RefStore. *)

\* A client lists a ref, and swaps it on the strength of what it saw.
ListRefs(w, n) ==
    /\ writer[w].pc = "idle"
    /\ writer' = [writer EXCEPT ![w] = [pc |-> "saw", name |-> n, saw |-> refs[n]]]
    /\ UNCHANGED <<rows, chunks, refs, put>>

\* As if an update needed no expected value.
UpsertMatches(n, expected) == expected # NoDigest \/ refs[n] = NoDigest

\* INSERT OR IGNORE when nothing is expected, UPDATE ... WHERE digest = ? else.
CasMatches(n, expected) == refs[n] = expected

Cas(w, next) ==
    LET n == writer[w].name IN
    /\ writer[w].pc = "saw"
    /\ IF CasMatches(n, writer[w].saw)
       THEN refs' = [refs EXCEPT ![n] = next]
       ELSE UNCHANGED refs
    /\ writer' = [writer EXCEPT ![w].pc = "idle"]
    /\ UNCHANGED <<rows, chunks, put>>

WNext ==
    \/ \E p \in Putters : \/ \E v \in Values : DigestBytes(p, v)
                          \/ Put(p) \/ PutThrows(p) \/ PutAgain(p)
    \/ \E w \in Writers : \/ \E n \in Names : ListRefs(w, n)
                          \/ \E d \in Values : Cas(w, d)

WSpec == WInit /\ [][WNext]_wVars

------------------------------------------------------------------------------
\* A put that answered can be read back, however long the value, whatever
\* other puts of it failed half way before or since; and get never returns a
\* byte that is not the value's own.
AnsweredReadsBack ==
    /\ \A p \in Putters : put[p].pc = "ok" => Get(put[p].d) = put[p].d
    /\ \A d \in Values : Has(d) => IsPrefix(Get(d), d)

\* The condition of a digest, as the abstract store sees it.
Held(d) == IF ~Has(d) THEN "absent" ELSE IF Get(d) = d THEN "whole" ELSE "torn"

Promise == INSTANCE BlobPromise WITH
    Digests <- Values,
    held <- [d \in Values |-> Held(d)],
    acked <- [p \in Putters |-> IF put[p].pc = "ok" THEN put[p].d ELSE NoDigest],
    ref <- refs,
    seen <- [w \in Writers |-> IF writer[w].pc = "saw" THEN <<writer[w].name, writer[w].saw>>
                               ELSE NoDigest]

\* The tables implement the promise: an answered put stays readable for good,
\* and of two clients that saw the same value of a ref only one moves it.
PromiseKept == Promise!PSpec
=============================================================================
