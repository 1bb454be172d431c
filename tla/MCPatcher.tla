--------------------------- MODULE MCPatcher -----------------------------
(* A playbook directory in the surface, a file outside it, and the ways a  *)
(* path can lead from one to the other.                                    *)
EXTENDS Patcher, TLC

CONSTANTS
  vars_file, requirements, secret,  \* real paths
  alias, escape, wanders, below,    \* symlinks
  twin                              \* the inode of a hardlinked pair

MCTarget == vars_file :> vars_file @@ requirements :> requirements @@
            secret :> secret @@ alias :> vars_file @@ escape :> secret @@
            wanders :> Outside @@ below :> vars_file

PlainTarget == [n \in Names \ {below} |-> MCTarget[n]]
==========================================================================
