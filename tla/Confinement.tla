----------------------------- MODULE Confinement -----------------------------
(***************************************************************************)
(* Confinement documents and their meet (confinement-lattice), with the    *)
(* enforcement points its comments have in mind: each applies the same     *)
(* restrictions in an order of its own, some of them twice.                *)
(*                                                                         *)
(* A document is [fs, hosts, port, sockets, source]; its arrays are sets,  *)
(* since the meet sorts them. A path is a sequence of segments, the last   *)
(* of which is "" where the path ends in a slash; a host is the sequence   *)
(* of its labels from the last one on, and whether it begins with "*.";    *)
(* port is <<>> or <<bind, address>>; a socket has one entry; source is "" *)
(* where it is left out.                                                   *)
(***************************************************************************)
EXTENDS Naturals, Sequences, SequencesExt, FiniteSets

CONSTANTS
    Points,          \* enforcement points
    Initials,        \* documents they may start from
    Restrictions,    \* documents they are told of
    AnyPath, AnyHost, AnySocket, AnyPort
                     \* what a document is asked about

VARIABLES
    first,           \* the document all points start from
    held,            \* the document each point enforces
    applied          \* the restrictions each point has applied

confVars == <<first, held, applied>>

NoSource == ""

\* Every dimension denied.
Bottom == [fs |-> {}, hosts |-> {}, port |-> <<>>, sockets |-> {}, source |-> NoSource]

----------------------------------------------------------------------------
(* Paths and hosts. *)

EndsInSlash(path) == Last(path) = ""

\* Mutant: by characters, as startsWith has it, "a" covers "ab" too.
CoversSiblings(parent, child) ==
    \/ parent = child
    \/ Len(child) >= Len(parent) /\ IsPrefix(Front(parent), child) /\ Last(parent) \in {"", "a"}

\* Containment by segments. A parent that ends in a slash covers what is below
\* it, one that does not covers itself as well.
Covers(parent, child) ==
    \/ parent = child
    \/ IF EndsInSlash(parent)
       THEN Len(child) >= Len(parent) /\ IsPrefix(Front(parent), child)
       ELSE Len(child) > Len(parent) /\ IsPrefix(parent, child)

\* Mutant: "*.com" is for "com" too.
HostCoversApex(outer, inner) ==
    \/ outer = inner
    \/ outer.wild /\ IsPrefix(outer.labels, inner.labels)

\* A wildcard is for subdomains, never for the domain itself.
HostCovers(outer, inner) ==
    \/ outer = inner
    \/ /\ outer.wild /\ IsPrefix(outer.labels, inner.labels)
       /\ inner.wild \/ Len(inner.labels) > Len(outer.labels)

----------------------------------------------------------------------------
(* The meet, dimension by dimension. *)

\* Mutant: everything is kept.
KeepSubsumed(entries) == entries

\* What another entry grants already is left out, so that the same grants are
\* the same document.
DropSubsumed(entries) ==
    {x \in entries : \A y \in entries : y # x => ~ (Covers(y.path, x.path) /\ x.rights \subseteq y.rights)}

MeetGrants(left, right) ==
    LET pairs == {q \in left \X right : q[1].rights \cap q[2].rights # {}}
        Inner(a, b) == IF Covers(a.path, b.path) THEN b.path ELSE a.path
    IN  DropSubsumed({[path |-> Inner(q[1], q[2]), rights |-> q[1].rights \cap q[2].rights] :
                          q \in {r \in pairs : Covers(r[1].path, r[2].path) \/ Covers(r[2].path, r[1].path)}})

\* Sockets are met by their exact path: with one entry for a path, the first
\* that has it is the only one.
MeetExactGrants(left, right) ==
    {[path |-> q[1].path, rights |-> q[1].rights \cap q[2].rights] :
        q \in {r \in left \X right : r[1].path = r[2].path /\ r[1].rights \cap r[2].rights # {}}}

MeetHosts(left, right) ==
    LET kept == {a \in left : \E b \in right : HostCovers(b, a)}
                \cup {b \in right : \E a \in left : HostCovers(a, b)}
    IN  {x \in kept : \A y \in kept : y # x => ~ HostCovers(y, x)}

\* "any" is every interface; two other addresses have none in common.
MeetPort(left, right) ==
    IF left = <<>> \/ right = <<>> \/ left[1] # right[1] THEN <<>>
    ELSE IF left[2] \in {"any", right[2]} THEN right
    ELSE IF right[2] = "any" THEN left ELSE <<>>

Meet(left, right) ==
    [fs |-> MeetGrants(left.fs, right.fs), hosts |-> MeetHosts(left.hosts, right.hosts),
     port |-> MeetPort(left.port, right.port),
     sockets |-> MeetExactGrants(left.sockets, right.sockets),
     source |-> IF left.source = right.source THEN left.source ELSE NoSource]

Normalize(d) == Meet(d, d)

Leq(a, b) == Meet(a, b) = Normalize(a)

----------------------------------------------------------------------------
(* The ratchet. *)

ConfInit ==
    /\ first \in Initials
    /\ held = [p \in Points |-> first]
    /\ applied = [p \in Points |-> {}]

\* Mutant: the last restriction counts.
RatchetReplaces(p) ==
    \E r \in Restrictions :
        /\ held' = [held EXCEPT ![p] = Meet(first, r)]
        /\ applied' = [applied EXCEPT ![p] = @ \cup {r}]
        /\ UNCHANGED first

\* One more restriction, which may have been applied before.
Ratchet(p) ==
    \E r \in Restrictions :
        /\ held' = [held EXCEPT ![p] = Meet(@, r)]
        /\ applied' = [applied EXCEPT ![p] = @ \cup {r}]
        /\ UNCHANGED first

ConfNext == \E p \in Points : Ratchet(p)

ConfSpec == ConfInit /\ [][ConfNext]_confVars

----------------------------------------------------------------------------
(* Properties. *)

\* What a document lets happen, asked of one file, host, socket and port after
\* the other.
InPath(g, file) ==
    IF EndsInSlash(g) THEN IsStrictPrefix(Front(g), file) ELSE IsPrefix(g, file)
OnPort(p, q) == p # <<>> /\ p[1] = q[1] /\ p[2] \in {"any", q[2]}
InHost(o, host) == IF o.wild THEN IsStrictPrefix(o.labels, host) ELSE o.labels = host
Admits(d) ==
    {x \in {"fs"} \X AnyPath \X {"read", "write"} :
        \E e \in d.fs : InPath(e.path, x[2]) /\ x[3] \in e.rights}
    \cup {x \in {"host"} \X AnyHost : \E o \in d.hosts : InHost(o, x[2])}
    \cup {x \in {"socket"} \X AnySocket \X {"connect", "bind"} :
             \E e \in d.sockets : e.path = x[2] /\ x[3] \in e.rights}
    \cup {x \in {"port"} \X AnyPort : OnPort(d.port, x[2])}
    \cup {x \in {"source"} \X {d.source} : x[2] # NoSource}

\* Documents as the schema has them: read-only or read and write, one entry for
\* a socket.
Path == Seq(STRING) \ {<<>>}
Document ==
    [fs : SUBSET [path : Path, rights : {{"read"}, {"read", "write"}}],
     hosts : SUBSET [wild : BOOLEAN, labels : Seq(STRING)],
     port : {<<>>} \cup (Nat \X STRING),
     sockets : SUBSET [path : STRING, rights : (SUBSET {"connect", "bind"}) \ {{}}],
     source : STRING \cup {NoSource}]
WellFormed(d) ==
    /\ d \in Document /\ IsFiniteSet(d.fs) /\ IsFiniteSet(d.hosts)
    /\ \A a, b \in d.sockets : a.path = b.path => a = b

Docs == Initials \cup Restrictions

\* The questions tell the entries of the documents apart: there is a file that
\* lies in an entry and in none but those that cover it, and so on.
ASSUME ConfinementAssumption ==
    /\ \A d \in Docs : WellFormed(d)
    /\ AnyPath \subseteq Path /\ AnyHost \subseteq Seq(STRING)
    /\ AnySocket \subseteq STRING /\ AnyPort \subseteq Nat \X STRING
    /\ \A d \in Docs : \A e \in d.fs : \E f \in AnyPath :
          InPath(e.path, f) /\ \A c \in Docs : \A g \in c.fs : InPath(g.path, f) => Covers(g.path, e.path)
    /\ \A d \in Docs : \A o \in d.hosts : \E h \in AnyHost :
          InHost(o, h) /\ \A c \in Docs : \A g \in c.hosts : InHost(g, h) => HostCovers(g, o)
    /\ \A d \in Docs : d.port # <<>> => \E q \in AnyPort :
          OnPort(d.port, q) /\ \A c \in Docs : OnPort(c.port, q) => OnPort(c.port, d.port)
    /\ \A d \in Docs : \A e \in d.sockets : e.path \in AnySocket

\* What a point lets happen is what every document it has been told of lets
\* happen, no more and no less.
AdmitsTheIntersection ==
    \A p \in DOMAIN held :
        Admits(held[p]) = {x \in Admits(first) : \A r \in applied[p] : x \in Admits(r)}

\* Points that have applied the same restrictions, in whatever order and
\* however often, hold the same document to the letter, so that its digest is
\* the same.
PointsConverge ==
    \A p, q \in DOMAIN held :
        applied[p] = applied[q] /\ applied[p] # {} => held[p] = held[q]

\* leq is the order of what is admitted.
LeqIsInclusion ==
    \A p \in DOMAIN held : \A r \in Restrictions :
        Leq(held[p], r) <=> Admits(held[p]) \subseteq Admits(r)

\* The meet does what its header says: it admits the intersection, enforcement
\* points converge whatever the order, and leq is the order it induces.
MeetHolds == AdmitsTheIntersection /\ PointsConverge /\ LeqIsInclusion
=============================================================================
