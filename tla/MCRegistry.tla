----------------------------- MODULE MCRegistry -----------------------------
(***************************************************************************)
(* Instances of Registry for TLC.  A digest is the content it names,       *)
(* labelled with the hash function.                                        *)
(***************************************************************************)
EXTENDS Registry, TLC

CONSTANTS r1, r2, t1, b1, b2, p1, p2, p3, p4

MCSha(c) == <<"sha256", c>>

MCBlake(c) == <<"blake3", c>>

MCDigests == {MCSha(c) : c \in Contents} \cup {MCBlake(c) : c \in Contents}

Ask(op, repo, body, claim, tag, header) ==
    [op |-> op, repo |-> repo, body |-> body, claim |-> claim, tag |-> tag, header |-> header]

A == <<b1>>
B == <<b2>>
AB == <<b1, b2>>
ABA == <<b1, b2, b1>>

\* A chunked upload that two repositories try to feed, manifests under
\* one tag, monolithic uploads, pulls, and requests the handlers refuse.
Mixed ==
    p1 :> {Ask("begin", r1, A, None, None, None), Ask("begin", r1, ABA, None, None, None),
           Ask("manifest", r1, A, None, t1, None)}
 @@ p2 :> ({Ask("patch", r, B, None, None, None) : r \in {r1, r2}}
           \cup {Ask("manifest", r1, B, None, t1, None), Ask("manifest", r2, A, Sha(A), None, Sha(B)),
                 Ask("monolithic", r2, A, Sha(A), None, None)})
 @@ p3 :> ({Ask("finalize", r1, c, Sha(AB), None, None) : c \in {<<>>, B}}
           \cup {Ask("finalize", r1, <<>>, c, None, None) : c \in {Sha(A), None}}
           \cup {Ask("manifest", r2, A, Blake(A), None, None),
                 Ask("manifest", r1, <<>>, None, t1, None),
                 Ask("manifest", r1, ABA, None, t1, None),
                 Ask("monolithic", r1, A, Malformed, None, None)})
 @@ p4 :> ({Ask("pullManifest", r1, <<>>, None, t1, None)}
           \cup {Ask("pullManifest", r2, <<>>, Blake(A), None, None)}
           \cup {Ask("pullBlob", r, <<>>, Sha(A), None, None) : r \in {r1, r2}}
           \cup {Ask("pullBlob", r1, <<>>, Sha(AB), None, None),
                 Ask("finalize", r1, B, Sha(AB), None, None)})

\* Isolates are interchangeable.
Symmetric == Permutations(Isolates)

\* A client that finalizes twice.
Retries ==
    p1 :> {Ask("begin", r1, <<>>, None, None, None)}
 @@ p2 :> {Ask("finalize", r1, B, Sha(A), None, None)}
 @@ p3 :> {Ask("finalize", r1, A, Sha(A), None, None)}
=============================================================================
