------------------------------- MODULE Harness -------------------------------
(***************************************************************************)
(* Launching a confined harness (launch, behind `cloister run` and         *)
(* harness:dev): the plan, the checks, the files and the minted identity,  *)
(* the processes, and how a run ends. Runs share one checkout and so its   *)
(* .dev.vars, .harness-confinement.json and .harness-policy.json, and the  *)
(* ports of one machine.                                                   *)
(*                                                                         *)
(* What is written or handed to a process is one kind of record, a         *)
(* document: whose it is, the mode, the number of writable roots, the      *)
(* number of roots the identity's certificate commits to (0: no identity   *)
(* yet) and the variables stripped from the environment.                   *)
(***************************************************************************)
EXTENDS Naturals, Sequences, SequencesExt, FiniteSets, FiniteSetsExt

CONSTANTS
    Runs,            \* one launch each
    Requests,        \* what may be asked of each
    Targets,         \* name |-> [service, modes, strip, token]
    Services,        \* name |-> how its key is injected
    Skills,          \* declared: {[name, pin]}, pin "" where unpinned
    Bindings,        \* wrangler.toml's services: <<[binding, service], ...>>
    WorkerDirs,      \* the services a checkout is known of
    HostEnv          \* the variables of the operator's environment

\* A service and a kind of process the launcher starts itself go by different
\* names.
ASSUME HarnessAssumption ==
    /\ \A r \in Runs : \A q \in Requests[r] :
          {q.sandbox, q.setupOnly} \subseteq BOOLEAN /\ Len(q.workdirs) \in Nat
    /\ Bindings \in Seq([binding : STRING, service : STRING])
    /\ \A i \in 1..Len(Bindings) : Bindings[i].service \notin {"router", "shim", "confined"}

VARIABLES
    pc,              \* where each launch is
    plan,            \* its resolved plan
    cert,            \* the number of roots its certificate commits to, 0 before
    at,              \* the companions it has dealt with
    files,           \* the shared files: {[name, doc]}
    procs,           \* live processes: {[run, kind, port, doc]}, port 0 unbound
    due,             \* sessions whose shutdown has been called
    alone            \* history: nothing of another run could come in between

hVars == <<pc, plan, cert, at, files, procs, due, alone>>

RouterPort == 8787
ShimPort == 8799
NoDoc == [by |-> "nobody", mode |-> "none", roots |-> 0, cert |-> 0, strip |-> {}]
NoPlan == [target |-> "none", mode |-> "none", roots |-> 0, sandbox |-> FALSE, setupOnly |-> FALSE,
           strip |-> {}, door |-> "none", skills |-> <<>>, injection |-> "none", safe |-> FALSE]
Idle == {"idle", "refused", "busy", "failed", "setup", "killed", "ended"}

----------------------------------------------------------------------------
(* The plan. *)

\* Writable roots: at least one, none twice and none inside another.
ValidWorkdirSet(dirs) ==
    /\ dirs # <<>>
    /\ \A i, j \in DOMAIN dirs : i # j => ~ IsPrefix(dirs[i], dirs[j])

\* `cloister run` also wants its directories to exist, confined or not.
ValidRepos(q) == q.door = "run" => q.exist /\ ValidWorkdirSet(q.workdirs)

\* A target is named in cluster.toml, and so is the service it names.
TargetResolves(q) == q.target \in DOMAIN Targets /\ Targets[q.target].service \in DOMAIN Services

\* For confinement the roots must do, then the installed helper.
SandboxResolves(q) == q.sandbox => ValidWorkdirSet(q.workdirs) /\ q.helper

\* The document that is attested has symbolic paths: it tells how many roots
\* there are and nothing else of a run.
ConfinementManifest(roots) == roots

\* "refused" where the target has no such mode or custody has no key.
ResolveAuth(target, q) ==
    CASE q.audit /\ "audit" \notin target.modes -> "refused"
      [] "audit" \in target.modes /\ (q.audit \/ ~ q.key) -> "audit"
      [] "audit" \notin target.modes /\ ~ q.audit /\ ~ q.key -> "refused"
      [] ~ q.audit /\ q.key -> "custody"

\* Mutant: by the target alone.
EnvStripOfTarget(target, mode) == target.strip

\* The subscription's token stays only where it is the run's credential.
EnvStripFor(target, mode) ==
    target.strip \cup (IF mode # "audit" THEN target.token ELSE {})

\* Which preconditions a request meets before anything is written.
Admissible(q) ==
    /\ ValidRepos(q)
    /\ q.setupOnly \/ q.bootstrapped
    /\ TargetResolves(q)
    /\ ResolveAuth(Targets[q.target], q) # "refused"
    /\ SandboxResolves(q)

ResolvePlan(q) ==
    LET target == Targets[q.target]
        mode == ResolveAuth(target, q)
    IN  [target |-> q.target, mode |-> mode,
         roots |-> ConfinementManifest(IF q.sandbox THEN Len(q.workdirs) ELSE 1), sandbox |-> q.sandbox, setupOnly |-> q.setupOnly, strip |-> EnvStripFor(target, mode),
         door |-> q.door, skills |-> q.skills, injection |-> Services[target.service], safe |-> q.safe]

\* Every declared skill is there, and is what its pin says.
SkillsPass(present) ==
    \A s \in Skills : /\ s.name \in DOMAIN present
                      /\ s.pin = "" \/ present[s.name] = s.pin

\* One companion for each service, by the first binding that names it, with
\* ports in that order.
FirstOfService == {i \in DOMAIN Bindings : \A j \in 1..(i - 1) : Bindings[j].service # Bindings[i].service}
CompanionWorkers ==
    {[service |-> Bindings[i].service, port |-> 8809 + Cardinality({j \in FirstOfService : j <= i})] :
        i \in FirstOfService}

\* Those this machine has a checkout of.
Startable == {c \in CompanionWorkers : c.service \in WorkerDirs}

Doc(r) == [by |-> r, mode |-> plan[r].mode, roots |-> plan[r].roots, cert |-> cert[r],
           strip |-> plan[r].strip]

Written(name, doc) == {f \in files : f.name # name} \cup {[name |-> name, doc |-> doc]}
Of(name) == {f.doc : f \in {g \in files : g.name = name}}
Without(names) == {f \in files : f.name \notin names}
Ports == {p.port : p \in procs} \ {0}
Process(r, kind, doc) == [run |-> r, kind |-> kind, port |-> 0, doc |-> doc]
Moved(p, port, doc) == (procs \ {p}) \cup {[run |-> p.run, kind |-> p.kind, port |-> port, doc |-> doc]}
Goes(r, where) == pc' = [pc EXCEPT ![r] = where]

----------------------------------------------------------------------------
(* Launching. *)

HInit ==
    /\ pc = [r \in Runs |-> "idle"] /\ plan = [r \in Runs |-> NoPlan]
    /\ cert = [r \in Runs |-> 0] /\ at = [r \in Runs |-> {}]
    /\ files = {} /\ procs = {} /\ due = {} /\ alone = {}

\* A run that begins while another is under way is not alone, nor is one that
\* finds a process left starting; and it disturbs those that are not up yet.
Begin(r) ==
    /\ pc[r] = "idle"
    /\ \E q \in Requests[r] :
          IF Admissible(q)
          THEN /\ plan' = [plan EXCEPT ![r] = ResolvePlan(q)]
               /\ Goes(r, IF q.sandbox THEN "skills" ELSE "write")
               /\ alone' = {s \in alone : pc[s] = "running"}
                           \cup (IF (\A s \in Runs : pc[s] \in Idle) /\ (\A p \in procs : p.port # 0)
                                 THEN {r} ELSE {})
          ELSE Goes(r, "refused") /\ UNCHANGED <<plan, alone>>
    /\ UNCHANGED <<cert, at, files, procs, due>>

VerifySkills(r) ==
    /\ pc[r] = "skills"
    /\ Goes(r, IF SkillsPass(plan[r].skills) THEN "write" ELSE "refused")
    /\ UNCHANGED <<plan, cert, at, files, procs, due, alone>>

\* performSetup: the document to be attested is written ...
WriteConfinement(r) ==
    /\ pc[r] = "write"
    /\ files' = Written("confinement", Doc(r))
    /\ Goes(r, "mint")
    /\ UNCHANGED <<plan, cert, at, procs, due, alone>>

\* ... the minter, a process of its own, reads whatever is there by then ...
Mint(r) ==
    /\ pc[r] = "mint"
    /\ \/ \E d \in Of("confinement") : cert' = [cert EXCEPT ![r] = d.roots] /\ Goes(r, "vars")
       \/ Of("confinement") = {} /\ Goes(r, "failed") /\ UNCHANGED cert
    /\ UNCHANGED <<plan, at, files, procs, due, alone>>

\* credentialHeaders: the injections the harness path knows.
Injectable == {"authorizationBearer", "headerNamed"}

\* ... and .dev.vars is written. Another injection is only found here.
WriteDevVars(r) ==
    /\ pc[r] = "vars"
    /\ IF plan[r].mode = "custody" /\ plan[r].injection \notin Injectable
       THEN Goes(r, "failed") /\ UNCHANGED files
       ELSE IF plan[r].setupOnly
            THEN files' = Written("vars", Doc(r)) \ {f \in files : f.name = "confinement"} /\ Goes(r, "setup")
            ELSE files' = Written("vars", Doc(r)) /\ Goes(r, "ports")
    /\ UNCHANGED <<plan, cert, at, procs, due, alone>>

\* Mutant: no check.
AnyPorts(r) ==
    /\ pc[r] = "ports" /\ Goes(r, "companions")
    /\ UNCHANGED <<plan, cert, at, files, procs, due, alone>>

AssertPortsFree(r) ==
    /\ pc[r] = "ports"
    /\ Goes(r, IF Ports \cap ({RouterPort, ShimPort} \cup {c.port : c \in Startable}) = {}
               THEN "companions" ELSE "busy")
    /\ UNCHANGED <<plan, cert, at, files, procs, due, alone>>

\* The next step comes when something answers on its port, or when a minute has
\* passed without.
StartCompanion(r) ==
    /\ pc[r] = "companions"
    /\ \E c \in Startable \ at[r] :
          /\ \A d \in Startable \ at[r] : c.port <= d.port
          /\ procs' = procs \cup {Process(r, c.service, NoDoc)}
          /\ at' = [at EXCEPT ![r] = @ \cup {c}]
    /\ UNCHANGED <<pc, plan, cert, files, due, alone>>

StartLocalRouter(r) ==
    /\ pc[r] = "companions" /\ at[r] = Startable
    /\ IF plan[r].safe
       THEN procs' = procs \cup {Process(r, "router", NoDoc)} /\ Goes(r, "health")
       ELSE Goes(r, "failed") /\ UNCHANGED procs
    /\ UNCHANGED <<plan, cert, at, files, due, alone>>

Healthy == \E p \in procs : p.kind = "router" /\ p.port = RouterPort

\* No answer within a minute is thrown, past everything that was started.
HealthTimeout(r) ==
    /\ pc[r] = "health" /\ ~ Healthy
    /\ Goes(r, "failed")
    /\ UNCHANGED <<plan, cert, at, files, procs, due, alone>>

\* An answer, whosever router gives it: the rest is started and listened to.
LaunchSession(r) ==
    /\ pc[r] = "health" /\ Healthy
    /\ IF plan[r].sandbox
       THEN /\ procs' = procs \cup {Process(r, "shim", Doc(r)), Process(r, "confined", NoDoc)}
            /\ files' = Written("policy", Doc(r))
       ELSE procs' = procs \cup {Process(r, "shim", Doc(r))} /\ UNCHANGED files
    /\ Goes(r, "running")
    /\ UNCHANGED <<plan, cert, at, due, alone>>

----------------------------------------------------------------------------
(* The processes. *)

Home(kind) ==
    CASE kind = "router" -> RouterPort
      [] kind = "shim" -> ShimPort
      [] OTHER -> (CHOOSE c \in CompanionWorkers : c.service = kind).port

\* Mutant: only the harness is listened to.
NoticedHarness(p) ==
    IF pc[p.run] = "running" /\ p.kind = "confined" THEN due \cup {p.run} ELSE due

\* The exit of a child that is listened to calls the session's shutdown.
Noticed(p) ==
    IF pc[p.run] = "running" /\ p.kind \in {"router", "shim", "confined"}
    THEN due \cup {p.run} ELSE due

Exit(p) ==
    /\ procs' = procs \ {p}
    /\ due' = Noticed(p)
    /\ UNCHANGED <<pc, plan, cert, at, files, alone>>

\* wrangler takes the next port where its own is taken, and reads .dev.vars.
Bind(p) ==
    /\ p.kind \notin {"shim", "confined"} /\ p.port = 0
    /\ LET free == {n \in Home(p.kind)..(Home(p.kind) + 5) : n \notin Ports}
           own == IF p.kind = "router" /\ Of("vars") # {} THEN CHOOSE d \in Of("vars") : TRUE ELSE NoDoc
       IN  free # {} /\ procs' = Moved(p, Min(free), own)
    /\ UNCHANGED <<pc, plan, cert, at, files, due, alone>>

\* The shim passes the harness's own Authorization on in audit mode.
PreserveAuth(p) == p.doc.mode = "audit"

\* The shim does not move on.
Listen(p) ==
    /\ p.kind = "shim" /\ p.port = 0
    /\ IF ShimPort \in Ports THEN Exit(p)
       ELSE /\ procs' = Moved(p, ShimPort, p.doc)
            /\ UNCHANGED <<pc, plan, cert, at, files, due, alone>>

\* Mutant: whatever the certificate says.
CommitmentUnread(doc) == TRUE

\* The document to be enforced is the one the certificate commits to.
VerifyConfinementCommitment(doc) == doc.roots = doc.cert

\* cloister-harness reads the policy that is there, and confines itself to it
\* or exits. The kernel may not be able to.
Confine(p) ==
    /\ p.kind = "confined" /\ p.doc = NoDoc
    /\ \E d \in Of("policy") :
          /\ VerifyConfinementCommitment(d)
          /\ procs' = Moved(p, p.port, d)
    /\ UNCHANGED <<pc, plan, cert, at, files, due, alone>>

----------------------------------------------------------------------------
(* The end of a run. *)

\* Mutant: the list performSetup hands over.
EphemeralOfSetup(r) == {"vars", "confinement"}

EphemeralPaths(r) == {"vars", "confinement"} \cup (IF plan[r].sandbox THEN {"policy"} ELSE {})

\* killProcessGroup: processes with all they have started.
Others(r) == {p \in procs : p.run # r}

\* Everything of the run, and the files at its paths, whoever wrote them.
Shutdown(r) ==
    /\ r \in due /\ pc[r] = "running"
    /\ procs' = Others(r)
    /\ files' = Without(EphemeralPaths(r))
    /\ Goes(r, "ended")
    /\ UNCHANGED <<plan, cert, at, due, alone>>

\* harness:dev shuts its session down, once it has one. Else the launcher is
\* gone, with the harness or not: the others are in groups of their own.
Interrupt(r) ==
    /\ pc[r] \notin Idle
    /\ IF pc[r] = "running" /\ plan[r].door = "dev"
       THEN due' = due \cup {r} /\ UNCHANGED <<pc, procs>>
       ELSE /\ Goes(r, "killed") /\ UNCHANGED due
            /\ procs' \in {procs, {p \in procs : p.run # r \/ p.kind # "confined"}}
    /\ UNCHANGED <<plan, cert, at, files, alone>>

HNext ==
    \/ \E r \in Runs :
          \/ Begin(r) \/ VerifySkills(r) \/ WriteConfinement(r) \/ Mint(r) \/ WriteDevVars(r)
          \/ AssertPortsFree(r) \/ StartCompanion(r) \/ StartLocalRouter(r)
          \/ HealthTimeout(r) \/ LaunchSession(r) \/ Shutdown(r) \/ Interrupt(r)
    \/ \E p \in procs : Bind(p) \/ Listen(p) \/ Confine(p) \/ Exit(p)

HSpec == HInit /\ [][HNext]_hVars

\* Node runs the exit handlers; nothing else is promised.
Fairness == \A r \in Runs : WF_hVars(Shutdown(r))

----------------------------------------------------------------------------
(* Properties. *)

Up(r, kind) == {p \in procs : p.run = r /\ p.kind = kind}

\* Type invariant.
HarnessTypeOK ==
    /\ pc \in [Runs -> Idle \cup {"skills", "write", "mint", "vars", "ports", "companions",
                                  "health", "running"}]
    /\ cert \in [Runs -> Nat] /\ at \in [Runs -> SUBSET Startable]
    /\ \A f \in files : f.name \in {"vars", "confinement", "policy"} /\ f.doc.by \in Runs
    /\ \A p, q \in procs : p.run = q.run /\ p.kind = q.kind => p = q
    /\ \A p, q \in procs : p.port = q.port /\ p.port # 0 => p = q
    /\ due \subseteq Runs /\ alone \subseteq Runs

\* A harness that runs is confined to as many writable roots as the certificate
\* in its policy commits to, however the files of several runs were mixed up
\* between the document, the minter and the runner (verify_confinement_commitment).
ConfinedAsAttested ==
    \A p \in procs : p.kind = "confined" /\ p.doc # NoDoc => p.doc.roots = p.doc.cert

\* After shutdown no process and no file of the run is left, the policy with
\* the identity in it included.
TornDown ==
    \A r \in Runs : pc[r] = "ended" =>
        /\ \A p \in procs : p.run # r
        /\ \A f \in files : f.doc.by # r

\* A session nobody interfered with while it started has its own router behind
\* the port its shim talks to, or is about to end; it never settles on a router
\* an interrupted run left behind.
OwnRouter ==
    \A r \in alone : pc[r] = "running" => r \in due \/ \E p \in Up(r, "router") : p.port = RouterPort

\* In such a session the three processes agree about who has the credential: of
\* those its target names, the harness is left the subscription's token where the
\* shim forwards it and the router lets it through, and nothing at all where the
\* router injects the vaulted key.
ModesAgree ==
    \A r \in alone : pc[r] = "running" =>
        \A h \in Up(r, "confined"), s \in Up(r, "shim"), w \in Up(r, "router") :
            h.doc # NoDoc =>
                LET target == Targets[plan[r].target]
                    given == (HostEnv \cap (target.strip \cup target.token)) \ h.doc.strip
                IN  /\ PreserveAuth(s) <=> w.doc.mode = "audit"
                    /\ given = IF w.doc.mode = "audit" THEN (HostEnv \cap target.token) \ target.strip ELSE {}

\* Such a session does not outlive one of its processes.
SessionEnds ==
    \A r \in Runs :
        (/\ r \in alone /\ pc[r] = "running"
         /\ \/ \E k \in {"router", "shim"} : Up(r, k) = {}
            \/ plan[r].sandbox /\ Up(r, "confined") = {})
        ~> pc[r] # "running"

\* What holds of launches, however two of them are interleaved.
LaunchesHold == HarnessTypeOK /\ ConfinedAsAttested /\ TornDown /\ OwnRouter /\ ModesAgree
=============================================================================
