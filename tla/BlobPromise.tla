---------------------------- MODULE BlobPromise ----------------------------
(***************************************************************************)
(* What BlobStore and RefStore promise their callers.  A digest is absent, *)
(* torn or whole.  A put that is answered has left it whole, and nothing   *)
(* takes that away; one that fails may leave an absent digest torn.  A     *)
(* client moves a ref only from the value it has seen.                     *)
(***************************************************************************)
CONSTANTS Digests, Putters, Names, Writers, NoDigest

VARIABLES
    held,    \* the condition of each digest
    acked,   \* what each put was answered
    ref,     \* the value of each ref
    seen     \* the name and the value each client has seen

pVars == <<held, acked, ref, seen>>

PInit ==
    /\ held = [d \in Digests |-> "absent"]
    /\ acked = [p \in Putters |-> NoDigest]
    /\ ref = [n \in Names |-> NoDigest]
    /\ seen = [w \in Writers |-> NoDigest]

PutSucceeds(p, d) ==
    /\ held' = [held EXCEPT ![d] = "whole"]
    /\ acked' = [acked EXCEPT ![p] = d]
    /\ UNCHANGED <<ref, seen>>

PutFails(d) ==
    /\ held[d] = "absent"
    /\ held' = [held EXCEPT ![d] = "torn"]
    /\ UNCHANGED <<acked, ref, seen>>

See(w, n) ==
    /\ seen' = [seen EXCEPT ![w] = <<n, ref[n]>>]
    /\ UNCHANGED <<held, acked, ref>>

Swap(w, n, next) ==
    /\ seen[w] = <<n, ref[n]>>
    /\ ref' = [ref EXCEPT ![n] = next]
    /\ seen' = [seen EXCEPT ![w] = NoDigest]
    /\ UNCHANGED <<held, acked>>

Refuse(w, n) ==
    /\ seen[w] # NoDigest /\ seen[w] # <<n, ref[n]>>
    /\ seen' = [seen EXCEPT ![w] = NoDigest]
    /\ UNCHANGED <<held, acked, ref>>

PNext ==
    \/ \E p \in Putters, d \in Digests : PutSucceeds(p, d)
    \/ \E d \in Digests : PutFails(d)
    \/ \E w \in Writers, n \in Names :
         See(w, n) \/ Refuse(w, n) \/ \E next \in Digests : Swap(w, n, next)

PSpec == PInit /\ [][PNext]_pVars
=============================================================================
