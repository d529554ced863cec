----------------------------- MODULE NodeKernels -----------------------------
(***************************************************************************)
(* The nodes whose decoders keep no state between chunks                   *)
(* (execute_standard_node in execute/node.rs): each call runs one kernel   *)
(* from its own initial state, and no kernel touches another's.            *)
(***************************************************************************)
EXTENDS Rolz, BitStreams, CodecCalls

VARIABLE kernel

kernelVars == <<rolzVars, bitVars, call, kernel>>

Kernels == {"rolz", "bits", "codec"}

(* A kernel that is not called stays as one call of it begins.             *)
KernelInit ==
  /\ kernel \in Kernels
  /\ RolzInit /\ (kernel # "rolz" => job = CHOOSE j \in Jobs : TRUE)
  /\ BitInit /\ (kernel # "bits" => source = CHOOSE s \in Sources : TRUE)
  /\ CallInit

RunRolz  == kernel = "rolz" /\ RolzNext /\ UNCHANGED <<kernel, bitVars, call>>
RunBits  == kernel = "bits" /\ BitNext /\ UNCHANGED <<kernel, rolzVars, call>>
RunCodec == kernel = "codec" /\ CallNext /\ UNCHANGED <<kernel, rolzVars, bitVars>>

KernelNext == RunRolz \/ RunBits \/ RunCodec

KernelSpec == KernelInit /\ [][KernelNext]_kernelVars
=============================================================================
