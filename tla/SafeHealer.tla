---------------------------- MODULE SafeHealer ----------------------------
(***************************************************************************)
(* What the agent promises the operator of a repository: a fix is one      *)
(* step, on a file that holds no uncommitted work of anybody's, and it     *)
(* ends either in a commit of that one change or, if git or a crash is in  *)
(* the way, in the change left alone in the working tree.                  *)
(***************************************************************************)
EXTENDS Sequences

CONSTANTS
  Files,    \* the files of the repository
  Agents,   \* the heal() runs that work on it
  Operator  \* the one who owns it

VARIABLES
  work,     \* work[f]: whose uncommitted changes file f holds
  history   \* the commits made by agents: file, agent and whose changes

vars == <<work, history>>

Init ==
  /\ work \in [Files -> SUBSET {Operator}]
  /\ history = <<>>

AgentCommits(a, f) ==
  /\ work[f] = {}
  /\ history' = Append(history, [agent |-> a, target |-> f, by |-> {a}])
  /\ UNCHANGED work

AgentStrands(a, f) ==
  /\ work[f] = {}
  /\ work' = [work EXCEPT ![f] = {a}]
  /\ UNCHANGED history

OperatorEdits(f) ==
  /\ work' = [work EXCEPT ![f] = @ \cup {Operator}]
  /\ UNCHANGED history

OperatorCommits(f) ==
  /\ work' = [work EXCEPT ![f] = {}]
  /\ UNCHANGED history

Next == \E f \in Files :
  \/ \E a \in Agents : AgentCommits(a, f) \/ AgentStrands(a, f)
  \/ OperatorEdits(f)
  \/ OperatorCommits(f)

Spec == Init /\ [][Next]_vars
===========================================================================
