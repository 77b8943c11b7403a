---------------------------- MODULE ParallelPass ----------------------------
(***************************************************************************)
(* What Ir::apply_local_pass_parallel promises of a pass, whatever the     *)
(* rayon workers do: every arena node's output is the transform of its own *)
(* input payload, computed in any order, and the pass returns once every   *)
(* node has one.  A transform that panics makes the pass panic instead.    *)
(***************************************************************************)
CONSTANTS
  Node,          \* the arena's nodes
  Detached,      \* arena nodes without a payload entry, skipped by the pass
  Transform(_,_),\* the payload the transform of a node returns for its input
  Fails(_,_),    \* that transform panics instead
  None           \* "no payload"

VARIABLES
  input,   \* input[n]: what the transform of node n reads; the pass only reads
  out,     \* out[n]: the payload of each node transformed so far
  status   \* "running", "done" or "panic"
passVars == <<input, out, status>>

\* The inputs are what earlier passes and the configuration left.
Start == out = [n \in {} |-> None] /\ status = "running"

Panics == { n \in Node \ Detached : Fails(n, input[n]) }
Output(n) == IF n \in Detached THEN None ELSE Transform(n, input[n])

\* One worker's call of pass.transform for node n, to its end.
NodeDone(n) ==
  /\ n \notin DOMAIN out /\ n \notin Panics
  /\ out' = [m \in DOMAIN out \cup {n} |-> IF m = n THEN Output(n) ELSE out[m]]
  /\ UNCHANGED <<input, status>>

\* rayon raises a worker's panic in the caller; workers already running finish.
NodePanic ==
  /\ \E n \in Panics : n \notin DOMAIN out
  /\ status = "running"
  /\ status' = "panic"
  /\ UNCHANGED <<input, out>>

Return ==
  /\ status = "running" /\ DOMAIN out = Node
  /\ status' = "done"
  /\ UNCHANGED <<input, out>>

Next == (\E n \in Node : NodeDone(n)) \/ NodePanic \/ Return
Spec == Start /\ [][Next]_passVars
=============================================================================
