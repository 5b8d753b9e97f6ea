--------------------------- MODULE MCWalletVault ---------------------------
(***************************************************************************)
(* A small instance of WalletVault: two wallet names that native commands  *)
(* keep in one file and of which one is no name for the Ethereum store, a  *)
(* passphrase the user exports and one the user types.                     *)
(***************************************************************************)
EXTENDS WalletVault, TLC

CONSTANTS plain, spaced, exported, typed

MCNames == {plain, spaced}
MCSanitize == [n \in MCNames |-> plain]
MCOwn == [n \in MCNames |-> ""]

\* With and without VARA_PASSPHRASE.
Envs == {"", exported}
Creates == {[kind |-> "create", chain |-> c, key |-> c, name |-> n, flag |-> "",
             env |-> e, encrypted |-> TRUE] : c \in Chains, n \in MCNames, e \in Envs}
Others ==
  {[kind |-> "create", chain |-> "vara", key |-> "vara", name |-> plain, flag |-> typed,
    env |-> "", encrypted |-> TRUE],
   [kind |-> "createEth", chain |-> "vara-eth", key |-> "vara-eth", name |-> plain, flag |-> "",
    env |-> exported, encrypted |-> TRUE],
   [kind |-> "createEth", chain |-> "vara-eth", key |-> "vara-eth", name |-> plain, flag |-> "",
    env |-> "", encrypted |-> TRUE],
   [kind |-> "createEth", chain |-> "vara-eth", key |-> "vara-eth", name |-> plain, flag |-> typed,
    env |-> "", encrypted |-> TRUE],
   [kind |-> "init", chain |-> "vara", key |-> "vara", name |-> spaced, flag |-> "",
    env |-> "", encrypted |-> FALSE],
   [kind |-> "set", chain |-> "vara", key |-> "network", name |-> plain, flag |-> "",
    env |-> "", encrypted |-> FALSE]}
Defaults == {[kind |-> "default", chain |-> c, key |-> c, name |-> plain, flag |-> "",
              env |-> "", encrypted |-> FALSE] : c \in Chains}
Opens == {[kind |-> "open", chain |-> c, key |-> c, name |-> n, flag |-> "",
           env |-> e, encrypted |-> FALSE] : c \in Chains, n \in {plain, ""}, e \in Envs}

MCJobs == Creates \cup Others \cup Defaults \cup Opens
Symmetry == Permutations(Commands)
=============================================================================
