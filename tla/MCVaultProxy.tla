---------------------------- MODULE MCVaultProxy ----------------------------
(***************************************************************************)
(* A small instance of the vault proxy: one service that is rationed, one  *)
(* that may be passed through, one that nobody declared.                   *)
(***************************************************************************)
EXTENDS VaultProxy, TLC

CONSTANTS i1, i2, i3, p1, p2

MCManifest ==
    [llm |-> [allowed |-> {p1}, injection |-> "header", limit |-> 1],
     git |-> [allowed |-> {p1, p2}, injection |-> "passthrough", limit |-> 0]]

MCDeployments ==
    {[dev |-> FALSE, store |-> "vault"], [dev |-> FALSE, store |-> "explicit"],
     [dev |-> TRUE, store |-> "vault"], [dev |-> FALSE, store |-> "none"]}

MCSymmetry == Permutations(Calls) \cup Permutations({i1, i2, i3})
=============================================================================
