------------------------------ MODULE Workspace ------------------------------
(***************************************************************************)
(* The directory of a cluster and the commands that work on it: cloister   *)
(* add, cluster resolve, cluster generate, the build of the manifest,      *)
(* artifacts pull, cluster up and down.                                    *)
(*                                                                         *)
(* A command is an operating-system process: other commands, the upstreams *)
(* and the registry take steps between its reads, its fetches and its      *)
(* writes, and it may be killed anywhere. A file written by writeFileSync  *)
(* is torn in between, and two commands that have it open write over each  *)
(* other; one written by writeGeneratedFile is replaced.                   *)
(***************************************************************************)
EXTENDS Resolve, Compose

CONSTANTS
    Procs,          \* terminals
    Documents,      \* descriptors the author of an input publishes, input -> sequence
    Bundles,        \* the bundles the cluster declares
    Shells,         \* the backends the manifest declares by hand
    FirstInputs,    \* what the inputs of cluster.toml may be to begin with
    Addable,        \* specs an operator may add
    SpecChanges,    \* changes an operator makes to a spec
    Answers,        \* answers of a registry to a probe, without the digest
    Budgets,        \* bounds on how often each command is used, functions
    MaxChanges      \* bound on what upstreams, registry and operator change

VARIABLES
    toml,           \* cluster.toml: [torn, inputs, open]
    lock,           \* cluster.lock.toml: [torn, of, rows, open] or None, where
                    \* open is who has the file open to write it in place
    files,          \* the other generated files
    built,          \* src/generated/manifest.ts: [rows, backends] or None
    store,          \* images of the container runtime: digests, and what tags mean
    running,        \* what runs of each bundle, or None
    published,      \* what each input's reference leads to
    tags,           \* what each image's tag means in the registry
    jobs,           \* the commands under way
    commands,       \* how often each command may still be used
    changes,
    seen,           \* history: what resolutions knew of images, <<id, digest>>,
                    \* with no digest where the operator gave a reason
    halves          \* history: who has generated since the generated files were
                    \* last those of one generation

workFiles == <<toml, lock, files, built>>
workWorld == <<published, tags, store, running>>
workVars == <<workFiles, workWorld, jobs, commands, changes, seen, halves>>

Toml(inputs) == [torn |-> FALSE, inputs |-> inputs, open |-> {}]
Idle == [cmd |-> "none", pc |-> "idle"]
Images == DOMAIN tags

\* The descriptors that are ever published, and the images that are ever spoken
\* of.
AllDocs == UNION {ToSet(Documents[n]) : n \in DOMAIN Documents}
ImageIds == {Bundles[i].image.id : i \in DOMAIN Bundles} \cup
                UNION {{d.images[i].id : i \in DOMAIN d.images} : d \in AllDocs}

WorkInit ==
    /\ toml \in {Toml(i) : i \in FirstInputs} /\ lock = None /\ built = None /\ running = None
    /\ files = [clusterTs |-> None, capnp |-> None, compose |-> None]
    /\ published = [n \in DOMAIN Documents |-> Head(Documents[n])]
    /\ tags = [id \in ImageIds |-> "d1"]
    /\ store = [digests |-> {}, tags |-> [id \in ImageIds |-> Absent]]
    /\ jobs = [p \in Procs |-> Idle]
    /\ commands \in Budgets /\ changes = 0 /\ seen = {} /\ halves = {}

----------------------------------------------------------------------------
(* Files. *)

\* A reader takes a torn file for some beginning of what was being written,
\* unless it does not parse.
Beginnings(list) == {SubSeq(list, 1, k) : k \in 0..Len(list)}

\* Who writes over a longer file leaves its end behind.
Over(new, old) == {new \o SubSeq(old, k, Len(old)) : k \in 1..(Len(old) + 1)}

Opened(file) == IF file = None THEN {} ELSE file.open

TomlReadings == IF toml.torn THEN Beginnings(toml.inputs) ELSE {toml.inputs}

LockReadings ==
    CASE lock = None -> {<<>>}
      [] lock # None /\ lock.torn -> Beginnings(lock.rows)
      [] OTHER -> {lock.rows}

Begin(p, cmd) ==
    /\ jobs[p] = Idle
    /\ cmd \in DOMAIN commands /\ commands[cmd] > 0
    /\ commands' = [commands EXCEPT ![cmd] = @ - 1]

End(p) == jobs' = [jobs EXCEPT ![p] = Idle]
Goto(p, pc) == jobs' = [jobs EXCEPT ![p].pc = pc]

----------------------------------------------------------------------------
(* Digests of images. *)

\* What is known from the answers of a registry: the status of the first HEAD,
\* whether a token was to be had after a 401, the status of the second HEAD,
\* the digest in the header. Only a 404 means that the image is not there.
ProbeOciDigest(a) ==
    LET status == IF a.first = 401 THEN a.second ELSE a.first
    IN  CASE ~ a.hosted -> "notApplicable"
          [] a.hosted /\ a.first = 401 /\ ~ a.token -> "unauthorized"
          [] a.hosted /\ ~ (a.first = 401 /\ ~ a.token) ->
                 CASE status = 404 -> "absent"
                   [] status \in {401, 403} -> "unauthorized"
                   [] status = 200 /\ a.digest # Absent -> "present"
                   [] OTHER -> "unreachable"

NeedsProbe(image) == image.id # Absent /\ image.tag # Absent /\ image.digest = Absent

----------------------------------------------------------------------------
(* Resolution, by cluster resolve and by add. *)

Resolving(inputs, cmd) ==
    [cmd |-> cmd, pc |-> "fetch", inputs |-> inputs, todo |-> inputs, rows |-> <<>>,
     failed |-> FALSE, doc |-> None, all |-> <<>>, at |-> 1]

\* Nothing is written where no input is declared.
ResolveClusterInputs(p) ==
    /\ Begin(p, "resolve")
    /\ \E inputs \in TomlReadings :
          jobs' = [jobs EXCEPT ![p] = IF inputs = <<>> THEN Idle ELSE Resolving(inputs, "resolve")]
    /\ UNCHANGED <<workFiles, workWorld, changes, seen, halves>>

\* add writes cluster.toml before it resolves.
AddInput(p) ==
    /\ Begin(p, "add")
    /\ \E inputs \in TomlReadings, spec \in Addable :
          /\ \A i \in DOMAIN inputs : inputs[i].name # spec.name
          /\ jobs' = [jobs EXCEPT ![p] = [Resolving(Append(inputs, spec), "add") EXCEPT !.pc = "truncate"]]
    /\ UNCHANGED <<workFiles, workWorld, changes, seen, halves>>

AddTruncate(p) ==
    /\ jobs[p].pc = "truncate"
    /\ toml' = [torn |-> TRUE, inputs |-> jobs[p].inputs, open |-> toml.open \cup {p}]
    /\ Goto(p, "fill")
    /\ UNCHANGED <<lock, files, built, workWorld, commands, changes, seen, halves>>

\* What becomes of a file that was opened: nothing when it has been replaced in
\* the meantime, and a mixture when somebody else has written it.
TomlFilled(p, inputs) ==
    CASE p \notin toml.open -> {toml}
      [] p \in toml.open /\ toml.torn -> {[torn |-> FALSE, inputs |-> inputs, open |-> toml.open \ {p}]}
      [] OTHER -> {[torn |-> i # inputs, inputs |-> i, open |-> toml.open \ {p}] : i \in Over(inputs, toml.inputs)}

AddFill(p) ==
    /\ jobs[p].pc = "fill"
    /\ toml' \in TomlFilled(p, jobs[p].inputs)
    /\ Goto(p, "fetch")
    /\ UNCHANGED <<lock, files, built, workWorld, commands, changes, seen, halves>>

\* add has a list of fields of its own, in which the connection and the reason
\* for a mutable tag are not.
SpecOf(job) ==
    IF job.cmd = "add" THEN [Head(job.todo) EXCEPT !.uds = Absent, !.reason = FALSE] ELSE Head(job.todo)

\* Mutant: an input that fails is left out of the lockfile.
FailedIgnoring(job) ==
    [job EXCEPT !.pc = "fetch", !.todo = Tail(@), !.doc = None, !.all = <<>>, !.at = 1]

\* An input fails: resolve goes on to name every one that does, add stops.
FailedInput(job) ==
    IF job.cmd = "add" THEN Idle
    ELSE [job EXCEPT !.pc = "fetch", !.todo = Tail(@), !.failed = TRUE,
                     !.doc = None, !.all = <<>>, !.at = 1]

Fetch(p) ==
    /\ jobs[p].pc = "fetch" /\ jobs[p].todo # <<>>
    /\ LET spec == SpecOf(jobs[p])
           doc == published[spec.name]
       IN  \/ jobs' = [jobs EXCEPT ![p] = FailedInput(@)]
           \/ /\ ~ IsRefused(spec, doc)
              /\ jobs' = [jobs EXCEPT ![p] = [@ EXCEPT !.pc = "probe", !.doc = doc, !.at = 1,
                                                       !.all = ParsePackagesOci(doc)]]
    /\ UNCHANGED <<workFiles, workWorld, commands, changes, seen, halves>>

\* What a registry answers when it is asked for a tag.
HeadAnswer(a, image) == [a EXCEPT !.digest = IF @ = Absent THEN Absent ELSE tags[image.id]]

\* With several images each is seen for, and stays as it is when that fails.
Unprobed(job) ==
    {k \in job.at..Len(job.all) : Len(job.all) > 1 /\ NeedsProbe(job.all[k])}

NextUnprobed(job) == CHOOSE i \in Unprobed(job) : \A j \in Unprobed(job) : i <= j

ProbeEach(p) ==
    /\ jobs[p].pc = "probe" /\ Unprobed(jobs[p]) # {}
    /\ LET k == NextUnprobed(jobs[p])
           image == jobs[p].all[k]
       IN  \E a \in Answers :
              LET here == HeadAnswer(a, image)
                  present == ProbeOciDigest(here) = "present"
              IN  /\ jobs' = [jobs EXCEPT ![p].at = k + 1,
                                          ![p].all[k].digest = IF present THEN here.digest ELSE Absent]
                  /\ seen' = IF present THEN seen \cup {<<image.id, here.digest>>} ELSE seen
    /\ UNCHANGED <<workFiles, workWorld, commands, changes, halves>>

\* The row of an input: its image, why that has no digest, and its bundles.
RowOf(job, oci, unresolved) ==
    LET runs == ParseBundleDeclarations(job.doc)
        Hit(id) == job.all[CHOOSE k \in DOMAIN job.all :
                              job.all[k].id = id /\ \A j \in 1..(k - 1) : job.all[j].id # id]
    IN  [name |-> Head(job.todo).name, doc |-> job.doc, oci |-> oci, unresolved |-> unresolved,
         spec |-> Head(job.todo),
         ociBundles |-> [b \in DOMAIN runs |-> Hit(runs[b])],
         backends |-> DeriveGeneratedBackends(SpecOf(job), job.doc)]

Resolved(job, oci, unresolved) ==
    [job EXCEPT !.pc = "fetch", !.todo = Tail(@), !.doc = None, !.all = <<>>, !.at = 1,
                !.rows = Append(@, RowOf(job, oci, unresolved))]

PrimaryOf(job) == IF job.all = <<>> THEN NoImage ELSE job.all[1]

\* Mutant: an image without digest is accepted, as before ADR-0041.
UnpinnedIsFine(job) == TRUE

UnpinnedIsAcknowledged(job) == SpecOf(job).reason

\* The image of the input itself is seen for once more, and without a digest
\* the input fails unless the operator has given a reason.
ProbePrimary(p) ==
    /\ jobs[p].pc = "probe" /\ Unprobed(jobs[p]) = {} /\ NeedsProbe(PrimaryOf(jobs[p]))
    /\ \E a \in Answers :
          LET image == PrimaryOf(jobs[p])
              here == HeadAnswer(a, image)
              state == ProbeOciDigest(here)
          IN  /\ seen' = CASE state = "present" -> seen \cup {<<image.id, here.digest>>}
                            [] state # "present" /\ SpecOf(jobs[p]).reason -> seen \cup {<<image.id, Absent>>}
                            [] OTHER -> seen
              /\ jobs' = [jobs EXCEPT ![p] =
                     CASE state = "present" -> Resolved(@, [image EXCEPT !.digest = here.digest], Absent)
                       [] state # "present" /\ UnpinnedIsAcknowledged(@) -> Resolved(@, image, state)
                       [] OTHER -> FailedInput(@)]
    /\ UNCHANGED <<workFiles, workWorld, commands, changes, halves>>

NoProbe(p) ==
    /\ jobs[p].pc = "probe" /\ Unprobed(jobs[p]) = {} /\ ~ NeedsProbe(PrimaryOf(jobs[p]))
    /\ jobs' = [jobs EXCEPT ![p] = Resolved(@, PrimaryOf(@), Absent)]
    /\ seen' = seen \cup {<<i.id, i.digest>> : i \in {j \in ToSet(jobs[p].doc.images) : j.digest # Absent}}
    /\ UNCHANGED <<workFiles, workWorld, commands, changes, halves>>

BuildLockfile(job) == [torn |-> FALSE, of |-> job.inputs, rows |-> job.rows, open |-> {}]

\* resolve writes the lockfile, in one piece, when no input has failed.
WriteLock(p) ==
    /\ jobs[p].pc = "fetch" /\ jobs[p].todo = <<>> /\ jobs[p].cmd = "resolve"
    /\ lock' = IF jobs[p].failed THEN lock ELSE BuildLockfile(jobs[p])
    /\ End(p)
    /\ UNCHANGED <<toml, files, built, workWorld, commands, changes, seen, halves>>

\* add writes it in place.
AddTruncateLock(p) ==
    /\ jobs[p].pc = "fetch" /\ jobs[p].todo = <<>> /\ jobs[p].cmd = "add"
    /\ lock' = [BuildLockfile(jobs[p]) EXCEPT !.torn = TRUE, !.open = Opened(lock) \cup {p}]
    /\ Goto(p, "fill lock")
    /\ UNCHANGED <<toml, files, built, workWorld, commands, changes, seen, halves>>

LockFilled(p, job) ==
    CASE p \notin Opened(lock) -> {lock}
      [] p \in Opened(lock) /\ lock.torn -> {[BuildLockfile(job) EXCEPT !.open = lock.open \ {p}]}
      [] OTHER -> {[torn |-> rows # job.rows, of |-> job.inputs, rows |-> rows, open |-> lock.open \ {p}] :
                      rows \in Over(job.rows, lock.rows)}

AddFillLock(p) ==
    /\ jobs[p].pc = "fill lock"
    /\ lock' \in LockFilled(p, jobs[p])
    /\ End(p)
    /\ UNCHANGED <<toml, files, built, workWorld, commands, changes, seen, halves>>

----------------------------------------------------------------------------
(* Generation. *)

GenerateReadToml(p) ==
    /\ Begin(p, "generate")
    /\ \E inputs \in TomlReadings :
          jobs' = [jobs EXCEPT ![p] = [cmd |-> "generate", pc |-> "compute", inputs |-> inputs,
                                       rows |-> <<>>, todo |-> <<>>]]
    /\ UNCHANGED <<workFiles, workWorld, changes, seen, halves>>

\* The pins of the lockfile, for the inputs and for the bundles that producers
\* name: the last row that names a bundle counts.
ParseOciPins(inputs, rows) ==
    LET of(n) == {k \in DOMAIN rows : rows[k].name = n}
        naming(b) == {k \in DOMAIN rows : b \in DOMAIN rows[k].ociBundles}
        Most(S) == CHOOSE k \in S : \A j \in S : j <= k
    IN  [bundles |-> Bundles, inputs |-> inputs,
         oci |-> [n \in {inputs[i].name : i \in DOMAIN inputs} |->
                     IF of(n) = {} THEN NoImage ELSE rows[Most(of(n))].oci],
         ociBundles |-> [b \in {Bundles[i].name : i \in DOMAIN Bundles} |->
                     IF naming(b) = {} THEN NoImage ELSE rows[Most(naming(b))].ociBundles[b]]]

\* cluster.ts and cloister.capnp stand for the inputs they are made from.
Of(inputs) == [inputs |-> inputs]

ComposeOf(inputs, rows) ==
    LET c == ParseOciPins(inputs, rows)
    IN  [inputs |-> inputs,
         images |-> [b \in BundleNames(c) |-> ResolveBundleImage(c, BundleOf(c, b))]]

\* Mutant: each file is written as soon as it is computed.
ComputeInTurn(p) ==
    /\ jobs[p].cmd = "generate" /\ jobs[p].pc = "compute"
    /\ \E rows \in LockReadings :
          LET inputs == jobs[p].inputs
          IN  /\ files' = [files EXCEPT !.clusterTs = Of(inputs), !.capnp = Of(inputs),
                                        !.compose = IF TenancyResolves(ParseOciPins(inputs, rows))
                                                    THEN ComposeOf(inputs, rows) ELSE @]
              /\ End(p)
    /\ UNCHANGED <<toml, lock, built, workWorld, commands, changes, seen, halves>>

\* Everything is computed, and compared with what is there, before anything is
\* written; what cannot be computed ends the command.
Compute(p) ==
    /\ jobs[p].cmd = "generate" /\ jobs[p].pc = "compute"
    /\ \E rows \in LockReadings :
          LET inputs == jobs[p].inputs
              body == [clusterTs |-> Of(inputs), capnp |-> Of(inputs), compose |-> ComposeOf(inputs, rows)]
              IfChanged(f) == IF files[f] # body[f] THEN <<f>> ELSE <<>>
          IN  IF ~ TenancyResolves(ParseOciPins(inputs, rows)) THEN End(p) /\ UNCHANGED halves
              ELSE /\ jobs' = [jobs EXCEPT ![p] =
                          [@ EXCEPT !.pc = "write", !.rows = rows,
                                    !.todo = (IF toml.torn \/ toml.inputs # inputs THEN <<"toml">> ELSE <<>>)
                                              \o IfChanged("clusterTs") \o IfChanged("capnp") \o IfChanged("compose")]]
                   /\ halves' = {p} \cup {q \in Procs : jobs[q].pc = "write"}
    /\ UNCHANGED <<workFiles, workWorld, commands, changes, seen>>

\* One changed file after the other, each in one piece.
GenerateWrite(p) ==
    /\ jobs[p].pc = "write" /\ jobs[p].todo # <<>>
    /\ LET inputs == jobs[p].inputs
       IN  CASE Head(jobs[p].todo) = "toml" -> toml' = Toml(inputs) /\ UNCHANGED files
             [] Head(jobs[p].todo) = "compose" ->
                    files' = [files EXCEPT !.compose = ComposeOf(inputs, jobs[p].rows)] /\ UNCHANGED toml
             [] OTHER -> files' = [files EXCEPT ![Head(jobs[p].todo)] = Of(inputs)] /\ UNCHANGED toml
    /\ jobs' = [jobs EXCEPT ![p].todo = Tail(@)]
    /\ UNCHANGED <<lock, built, workWorld, commands, changes, seen, halves>>

GenerateEnd(p) ==
    /\ jobs[p].pc = "write" /\ jobs[p].todo = <<>>
    /\ halves' = IF halves = {p} THEN {} ELSE halves
    /\ End(p)
    /\ UNCHANGED <<workFiles, workWorld, commands, changes, seen>>

\* The manifest of the router. A row it does not know ends the build.
BuildManifest(p) ==
    /\ Begin(p, "manifest")
    /\ \E rows \in LockReadings :
          LET generated == FlattenSeq([k \in DOMAIN rows |-> rows[k].backends])
              backends == OverlayLockfileBackends(Shells, generated)
          IN  built' = IF (\E k \in DOMAIN generated : RowIsRefused(generated[k])) \/ ~ BuildValidate(backends)
                       THEN built ELSE [rows |-> rows, backends |-> backends]
    /\ UNCHANGED <<toml, lock, files, workWorld, jobs, changes, seen, halves>>

----------------------------------------------------------------------------
(* Images and containers. *)

\* The images of the rows that are chosen, unless there is one without digest,
\* which the operator may allow.
ArtifactsPull(p) ==
    /\ Begin(p, "pull")
    /\ lock # None
    /\ \E rows \in LockReadings, allowUnpinned \in BOOLEAN : \E chosen \in SUBSET DOMAIN rows :
          LET images == [k \in DOMAIN rows |-> IF k \in chosen THEN rows[k].oci ELSE NoImage]
              unpinned == {k \in DOMAIN images : images[k].id # Absent /\ images[k].digest = Absent}
          IN  /\ unpinned # {} => allowUnpinned
              /\ jobs' = [jobs EXCEPT ![p] = [cmd |-> "pull", pc |-> "pull", todo |-> images]]
    /\ UNCHANGED <<workFiles, workWorld, changes, seen, halves>>

\* The runtime finds any digest that a registry ever had, and what a tag means
\* now; a pull may fail, and the others are tried all the same. A row that was not
\* chosen or has no image is passed over.
Pull(p) ==
    /\ jobs[p].pc = "pull" /\ jobs[p].todo # <<>>
    /\ LET ref == OciImageRef(Head(jobs[p].todo))
       IN  \/ UNCHANGED store
           \/ /\ ref.id # Absent
              /\ store' = IF ref.tag = Absent THEN [store EXCEPT !.digests = @ \cup {<<ref.id, ref.digest>>}]
                          ELSE [store EXCEPT !.tags[ref.id] = tags[ref.id]]
    /\ jobs' = [jobs EXCEPT ![p].todo = Tail(@)]
    /\ UNCHANGED <<workFiles, published, tags, running, commands, changes, seen, halves>>

PullEnd(p) ==
    /\ jobs[p].pc = "pull" /\ jobs[p].todo = <<>>
    /\ End(p)
    /\ UNCHANGED <<workFiles, workWorld, commands, changes, seen, halves>>

\* The digest that a reference means to the runtime, absent when it is not there:
\* pull_policy is never.
Materialized(image) ==
    LET ref == OciImageRef(image)
    IN  CASE ref.id = Absent -> Absent
          [] ref.id # Absent /\ ref.tag = Absent ->
                 IF <<ref.id, ref.digest>> \in store.digests THEN ref.digest ELSE Absent
          [] OTHER -> store.tags[ref.id]

\* A container is started where its image is there (compose may also give up).
ClusterUp(p) ==
    /\ Begin(p, "up")
    /\ files.compose # None
    /\ running' = [b \in DOMAIN files.compose.images |->
                      [image |-> files.compose.images[b],
                       digest |-> Materialized(files.compose.images[b])]]
    /\ UNCHANGED <<workFiles, published, tags, store, jobs, changes, seen, halves>>

ClusterDown(p) ==
    /\ Begin(p, "up") /\ running # None
    /\ running' = None
    /\ UNCHANGED <<workFiles, published, tags, store, jobs, changes, seen, halves>>

----------------------------------------------------------------------------
(* The rest of the world. *)

Change == changes < MaxChanges /\ changes' = changes + 1

Republish ==
    /\ Change
    /\ \E n \in DOMAIN published : \E d \in ToSet(Documents[n]) \ {published[n]} :
          published' = [published EXCEPT ![n] = d]
    /\ UNCHANGED <<workFiles, tags, store, running, jobs, commands, seen, halves>>

Repush ==
    /\ Change
    /\ \E id \in Images : tags' = [tags EXCEPT ![id] = IF @ = "d1" THEN "d2" ELSE "d3"]
    /\ UNCHANGED <<workFiles, published, store, running, jobs, commands, seen, halves>>

Edited(spec, e) == [f \in DOMAIN spec |-> IF f \in DOMAIN e THEN e[f] ELSE spec[f]]

\* The operator saves cluster.toml from an editor.
EditToml ==
    /\ Change /\ ~ toml.torn
    /\ \/ \E i \in DOMAIN toml.inputs, e \in SpecChanges :
             toml' = Toml([toml.inputs EXCEPT ![i] = Edited(@, e)])
       \/ \E i \in DOMAIN toml.inputs : toml' = Toml(RemoveAt(toml.inputs, i))
    /\ UNCHANGED <<lock, files, built, workWorld, jobs, commands, seen, halves>>

\* A command is killed, and the files it had open are closed.
Kill(p) ==
    /\ jobs[p] # Idle
    /\ End(p)
    /\ toml' = [toml EXCEPT !.open = @ \ {p}]
    /\ lock' = IF lock = None THEN None ELSE [lock EXCEPT !.open = @ \ {p}]
    /\ UNCHANGED <<files, built, workWorld, commands, changes, seen, halves>>

WorkNext ==
    \/ \E p \in Procs :
          \/ ResolveClusterInputs(p) \/ AddInput(p) \/ AddTruncate(p) \/ AddFill(p) \/ Fetch(p) \/ ProbeEach(p)
          \/ ProbePrimary(p) \/ NoProbe(p) \/ WriteLock(p) \/ AddTruncateLock(p) \/ AddFillLock(p)
          \/ GenerateReadToml(p) \/ Compute(p) \/ GenerateWrite(p) \/ GenerateEnd(p)
          \/ BuildManifest(p) \/ ArtifactsPull(p) \/ Pull(p) \/ PullEnd(p)
          \/ ClusterUp(p) \/ ClusterDown(p) \/ Kill(p)
    \/ Republish \/ Repush \/ EditToml

WorkSpec == WorkInit /\ [][WorkNext]_workVars

----------------------------------------------------------------------------
(* What the files may say. *)

Text == STRING \cup {Absent}
Image == [id : Text, tag : Text, digest : Text]
Groups == [name : Text, prefix : Seq(STRING), names : SUBSET Seq(STRING)]
SpecField(f) ==
    CASE f = "name" -> DOMAIN Documents
      [] f \in {"workerdId", "uds"} -> Text
      [] f \in {"trusted", "reason"} -> BOOLEAN
      [] f = "shares" -> SUBSET STRING
      [] f = "pin" -> Seq(AllDocs)
      [] OTHER -> {}
SpecFields == {"name", "workerdId", "uds", "trusted", "reason", "shares", "pin"}
IsSpec(s) == /\ s = [f \in SpecFields |-> s[f]] /\ \A f \in SpecFields : s[f] \in SpecField(f)

ASSUME WorkspaceAssumption ==
    /\ \A n \in DOMAIN Documents : Documents[n] \in Seq(AllDocs) /\ Documents[n] # <<>>
    /\ \A d \in AllDocs : d.images \in Seq(Image) /\ d.groups \in Seq(Groups)
    /\ \A i \in DOMAIN Bundles : Bundles[i].image \in Image
    /\ Shells \in Seq(ToSet(Shells))
    /\ \A inputs \in FirstInputs : inputs \in Seq(ToSet(inputs)) /\ \A i \in DOMAIN inputs : IsSpec(inputs[i])
    /\ \A spec \in Addable : IsSpec(spec)
    /\ \A e \in SpecChanges : \A f \in DOMAIN e : e[f] \in SpecField(f)
    /\ Answers \subseteq [hosted : BOOLEAN, first : Nat, token : BOOLEAN, second : Nat, digest : Text]

----------------------------------------------------------------------------
(* Properties. *)

Rowed == IF lock = None THEN <<>> ELSE IF lock.torn THEN <<>> ELSE lock.rows

\* A lockfile that is not torn or mixed has a row, in order, for each input of
\* the cluster.toml that was resolved: no input that failed is passed over.
LockIsWhole ==
    lock # None =>
        lock.torn \/ [k \in DOMAIN lock.rows |-> lock.rows[k].name] = [k \in DOMAIN lock.of |-> lock.of[k].name]

\* The image of an input is pinned to a digest that the registry or the
\* producer has named, or the operator has said why not and the row says what
\* the registry answered.
OwnImagePinned ==
    \A k \in DOMAIN Rowed :
        LET row == Rowed[k]
        IN  row.oci.id # Absent /\ row.oci.tag # Absent =>
                /\ <<row.oci.id, row.oci.digest>> \in seen
                /\ row.oci.digest # Absent \/ (row.spec.reason /\ row.unresolved # Absent)

\* What runs is what a resolution knew of, however often the tag is moved
\* between the resolution, the pull and the start: the digest that was pinned,
\* or a tag of which the operator has said why it may move.
RunsWhatWasPinned ==
    running # None =>
        \A b \in DOMAIN running :
            running[b].digest # Absent =>
                /\ <<running[b].image.id, running[b].image.digest>> \in seen
                /\ running[b].image.digest \in {Absent, running[b].digest}

\* The lockfile is never half of a resolution, each input's own image is pinned
\* in it, and what runs is what was pinned.
PinsHold == LockIsWhole /\ OwnImagePinned /\ RunsWhatWasPinned

\* The generated files are those of one cluster.toml, unless a generation was
\* killed while it wrote, or two wrote at once, and none has run alone since: one
\* that cannot be finished leaves what is there alone.
GeneratedAgree ==
    files # None /\ halves = {} =>
        /\ files.clusterTs = files.capnp
        /\ files.compose = None <=> files.capnp = None
        /\ files.compose # None => files.compose.inputs = files.capnp.inputs

\* What the build lets through, the router boots with.
BuildMirrorsBoot == built # None => Validate(built.backends)

\* Inputs have names of their own, and the name of a group says which input and
\* which group it is of when it is qualified: no group is called like that.
NamesAreApart(rows) ==
    /\ \A k, l \in DOMAIN rows : rows[k].name = rows[l].name => k = l
    /\ \A k, l \in DOMAIN rows : \A r \in ToSet(rows[k].backends), t \in ToSet(rows[l].backends) :
          /\ QualifiedName(r) # t.name
          /\ QualifiedName(r) = QualifiedName(t) => r.input = t.input /\ r.name = t.name

\* No group of tools is lost in the manifest: every group of every input has a
\* backend with its claims, though the groups of other inputs have its name.
EveryGroupSurvives ==
    built # None /\ NamesAreApart(built.rows) =>
        \A k \in DOMAIN built.rows : \A r \in ToSet(built.rows[k].backends) :
            \E b \in ToSet(built.backends) : b.claims = r.claims /\ b.prefix = r.prefix

\* A tool that a group names is found under the name it is advertised by, and
\* called upstream by the name the upstream gave it.
ClaimsAreRoutable ==
    built # None /\ NamesAreApart(built.rows) =>
        \A k \in DOMAIN built.rows : \A g \in ToSet(ParseServerJsonMeta(built.rows[k].doc)) :
            \E b \in ToSet(built.backends) :
                /\ b.claims = g.names
                /\ \A u \in g.names : /\ HandlesProxy(b, {}, AdvertisedName(b, u))
                                      /\ WireName(b, AdvertisedName(b, u)) = u

\* What generate and build-manifest write agrees with what the router does when
\* it boots from it: no group of tools is lost and each claim can be routed.
GeneratedHold == GeneratedAgree /\ BuildMirrorsBoot /\ EveryGroupSurvives /\ ClaimsAreRoutable
=============================================================================
