------------------------------ MODULE MCServices ------------------------------
(* What several replicas of the API share: the registry, the pool of warm    *)
(* functions, the accounts with their tokens and the secrets.  They share no *)
(* state; each is explored on its own.                                       *)
EXTENDS Registry, FunctionPool, Accounts, Secrets, TLC

VARIABLE focus   \* the component whose steps are taken

Alike == Permutations(Invs)

FpFns == {1}
FpSlots == 1..2
FpPorts == 1..2

AllInit ==
  /\ focus \in {"registry", "functions", "accounts", "secrets"}
  /\ RgInit /\ FpInit /\ AcInit /\ ScInit
  /\ focus # "registry" => backend = "etcd"

\* A step of the component in focus
AllNext ==
  /\ UNCHANGED focus
  /\ \/ focus = "registry" /\ UNCHANGED <<fpVars, acvars, scvars>> /\ RgNext
     \/ focus = "functions" /\ UNCHANGED <<rgvars, acvars, scvars>> /\ FpNext
     \/ focus = "accounts" /\ UNCHANGED <<rgvars, fpVars, scvars>> /\ AcNext
     \/ focus = "secrets" /\ UNCHANGED <<rgvars, fpVars, acvars>> /\ ScNext

AllSpec == AllInit /\ [][AllNext]_<<focus, rgvars, fpVars, acvars, scvars>>
=============================================================================
