------------------------------ MODULE MCHarness ------------------------------
(***************************************************************************)
(* Two launches in one checkout, and two points that enforce confinement   *)
(* documents.                                                              *)
(***************************************************************************)
EXTENDS Confinement, Harness

VARIABLE part    \* which of the two this behaviour is about

Dir(name) == <<name>>
Ask == [door |-> "run", bootstrapped |-> TRUE, target |-> "claude", audit |-> FALSE, key |-> TRUE,
        setupOnly |-> FALSE, workdirs |-> <<Dir("a")>>, sandbox |-> TRUE, helper |-> TRUE, exist |-> TRUE,
        skills |-> [s |-> "d1"], safe |-> TRUE]
\* Custody with one root from one door; audit with two from the other, or setup
\* only; and requests that each check refuses.
MCRequests ==
    [r1 |-> {Ask, [Ask EXCEPT !.workdirs = <<Dir("a"), <<"a", "b">>>>], [Ask EXCEPT !.skills = [s |-> "d2"]]},
     r2 |-> {[Ask EXCEPT !.door = "dev", !.audit = TRUE, !.workdirs = <<Dir("a"), Dir("b")>>],
             [Ask EXCEPT !.door = "dev", !.setupOnly = TRUE, !.sandbox = FALSE, !.bootstrapped = FALSE],
             [Ask EXCEPT !.target = "odd"], [Ask EXCEPT !.sandbox = FALSE, !.safe = FALSE]}]
MCTargets == [claude |-> [service |-> "anthropic", modes |-> {"audit", "custody"},
                          strip |-> {"KEY"}, token |-> {"TOKEN"}],
              odd |-> [service |-> "query", modes |-> {"custody"}, strip |-> {"KEY"}, token |-> {}]]
MCServices == [anthropic |-> "headerNamed", query |-> "queryParam"]
MCSkills == {[name |-> "s", pin |-> "d1"]}
MCBindings == <<[binding |-> "NOTME", service |-> "notme"], [binding |-> "JWT", service |-> "notme"],
                [binding |-> "X", service |-> "x"]>>
Grant(path, rights) == [path |-> path, rights |-> rights]
R == {"read"}
RW == {"read", "write"}
Host(wild, labels) == [wild |-> wild, labels |-> labels]
MCDocs ==
    {Bottom,
     [fs |-> {Grant(<<"a", "">>, RW), Grant(<<"ab">>, R), Grant(<<"a", "x">>, R)},
      hosts |-> {Host(TRUE, <<"com">>), Host(FALSE, <<"com", "b">>)}, port |-> <<80, "any">>,
      sockets |-> {Grant("s2", {"connect"}), Grant("s1", {"connect", "bind"})}, source |-> "v"],
     [fs |-> {Grant(<<"a">>, R), Grant(<<"a", "x", "">>, RW)},
      hosts |-> {Host(TRUE, <<"com", "b">>), Host(FALSE, <<"com">>)}, port |-> <<80, "lo">>,
      sockets |-> {Grant("s1", {"bind"}), Grant("s2", {"connect", "bind"})}, source |-> "v"],
     [fs |-> {Grant(<<"a">>, RW)},
      hosts |-> {Host(FALSE, <<"com", "b">>), Host(TRUE, <<"com", "b", "c">>)}, port |-> <<80, "eth">>,
      sockets |-> {Grant("s1", {"connect"})}, source |-> ""],
     [fs |-> {Grant(<<"ab", "">>, RW), Grant(<<"a", "x">>, RW)},
      hosts |-> {Host(TRUE, <<"com">>)}, port |-> <<81, "any">>,
      sockets |-> {Grant("s2", {"bind"})}, source |-> "w"]}
MCPath == {<<"a">>, <<"ab">>, <<"a", "x">>, <<"a", "y">>, <<"a", "x", "z">>, <<"ab", "x">>}
MCHost == {<<"com">>, <<"com", "b">>, <<"com", "d">>, <<"com", "b", "c">>, <<"com", "b", "c", "e">>}
MCPort == {<<80, "lo">>, <<80, "eth">>, <<80, "tun">>, <<81, "lo">>}

MCInit ==
    \/ part = "launches" /\ HInit /\ first = Bottom /\ held = <<>> /\ applied = <<>>
    \/ part = "documents" /\ ConfInit /\ HInit

\* Bound: a companion, which nobody listens to, goes with its session only.
CompanionsStay == \A r \in Runs : Up(r, "notme") # {} /\ Up(r, "notme")' = {} => pc'[r] = "ended"

MCNext ==
    /\ UNCHANGED part
    /\ \/ part = "launches" /\ HNext /\ CompanionsStay /\ UNCHANGED confVars
       \/ part = "documents" /\ ConfNext /\ UNCHANGED hVars

MCSpec == MCInit /\ [][MCNext]_<<part, hVars, confVars>> /\ Fairness

=============================================================================
