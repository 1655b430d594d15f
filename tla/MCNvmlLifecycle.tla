-------------------------- MODULE MCNvmlLifecycle --------------------------
(* The NVML lifecycle with a few collection goroutines.                    *)
EXTENDS NvmlLifecycle, TLC

Symmetry == Permutations(Collectors)
=============================================================================
