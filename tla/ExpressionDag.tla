---------------------------- MODULE ExpressionDag ----------------------------
(***************************************************************************)
(* The exact-expression DAG of a result (contracts.py, models.py): shape   *)
(* checks, the depth-first visit that refuses cycles, long paths and       *)
(* unreachable nodes, the memoised decoding that follows it, and the check *)
(* that the decoded expressions encode to the same DAG again.              *)
(***************************************************************************)
EXTENDS Integers, Sequences, FiniteSets, SequencesExt

CONSTANTS
  Dags,       \* DAGs as received: [nodes |-> sequence of [op, args], roots |-> sequence]
  MaxDepth    \* MAX_JSON_DEPTH

\* What the fields hold; that references are to known nodes is ShapeOK's.
ASSUME DagAssumption ==
  /\ MaxDepth \in Nat
  /\ \A d \in Dags : /\ d.nodes \in Seq([op : STRING, args : Seq(Nat)])
                    /\ d.roots \in Seq(Nat)

Atom == {"z", "one", "pi"}   \* the symbol, a number, a constant function

VARIABLES
  dag,        \* the DAG being validated
  dpc,        \* "shape", "visit", "decode", "accepted", "refused"
  stack,      \* the calls of visit or decode: [node, next argument]
  root,       \* how many roots were entered
  finished,   \* visited; decoded when decoding
  decoded     \* the expression of every decoded node

dagVars == <<dag, dpc, stack, root, finished, decoded>>

Nodes(d) == DOMAIN d.nodes
Visiting == {stack[i].node : i \in DOMAIN stack}

DagInit ==
  /\ dag \in Dags
  /\ dpc = "shape" /\ stack = <<>> /\ root = 0 /\ finished = {} /\ decoded = <<>>

-----------------------------------------------------------------------------
(* _validate_expression_dag *)

\* Arguments by operation; references to known nodes.
ShapeOK(d) ==
  /\ d.nodes # <<>>
  /\ \A n \in Nodes(d) :
       LET node == d.nodes[n]
       IN /\ CASE node.op \in Atom -> node.args = <<>>
               [] node.op \in {"add", "mul", "function"} -> node.args # <<>>
               [] node.op = "pow" -> Len(node.args) = 2
               [] OTHER -> FALSE
          /\ Range(node.args) \subseteq Nodes(d)
  /\ Range(d.roots) \subseteq Nodes(d)

CheckShape ==
  /\ dpc = "shape"
  /\ dpc' = IF ShapeOK(dag) THEN "visit" ELSE "refused"
  /\ UNCHANGED <<dag, stack, root, finished, decoded>>

Refuse == dpc' = "refused" /\ UNCHANGED <<dag, stack, root, finished, decoded>>

\* The next node visit or decode is called on.
Pending ==
  IF stack # <<>>
  THEN IF Last(stack).next <= Len(dag.nodes[Last(stack).node].args)
       THEN {dag.nodes[Last(stack).node].args[Last(stack).next]} ELSE {}
  ELSE IF root < Len(dag.roots) THEN {dag.roots[root + 1]} ELSE {}

\* The caller goes on to its next argument or root.
Advanced ==
  IF stack = <<>> THEN <<>>
  ELSE [stack EXCEPT ![Len(stack)].next = @ + 1]

Proceed(calls) ==
  /\ stack' = calls
  /\ root' = IF stack = <<>> THEN root + 1 ELSE root
  /\ UNCHANGED <<dag, dpc, finished, decoded>>

\* A mistake: a node that is being visited counts as visited.
NoCycleTest ==
  /\ dpc \in {"visit", "decode"}
  /\ \E node \in Pending :
       IF dpc = "visit" /\ Len(stack) > MaxDepth THEN Refuse
       ELSE IF node \in finished \cup Visiting THEN Proceed(Advanced)
       ELSE Proceed(Append(Advanced, [node |-> node, next |-> 1]))

\* One call of visit, which looks at the depth first, or of decode, which has
\* no depth limit of its own.
Enter ==
  /\ dpc \in {"visit", "decode"}
  /\ \E node \in Pending :
       IF (dpc = "visit" /\ Len(stack) > MaxDepth) \/ node \in Visiting THEN Refuse
       ELSE IF node \in finished THEN Proceed(Advanced)
       ELSE Proceed(Append(Advanced, [node |-> node, next |-> 1]))

\* The SymPy expression of a node: sums and products do not depend on order.
Expression(node) ==
  LET args == [i \in DOMAIN dag.nodes[node].args |-> decoded[dag.nodes[node].args[i]]]
      op == dag.nodes[node].op
  IN <<op, IF op \in {"add", "mul"}
           THEN {<<e, Cardinality({i \in DOMAIN args : args[i] = e})>> : e \in Range(args)}
           ELSE {<<args[i], i>> : i \in DOMAIN args}>>

Leave ==
  /\ dpc \in {"visit", "decode"} /\ stack # <<>> /\ Pending = {}
  /\ stack' = Front(stack)
  /\ finished' = finished \cup {Last(stack).node}
  /\ decoded' = IF dpc = "decode"
                THEN [n \in finished' |->
                        IF n = Last(stack).node THEN Expression(n) ELSE decoded[n]]
                ELSE decoded
  /\ UNCHANGED <<dag, dpc, root>>

\* Every node must have been visited; then _decode_expression_dag starts over.
EndVisit ==
  /\ dpc = "visit" /\ stack = <<>> /\ Pending = {}
  /\ IF finished # Nodes(dag) THEN Refuse
     ELSE /\ dpc' = "decode" /\ root' = 0 /\ finished' = {}
          /\ UNCHANGED <<dag, stack, decoded>>

\* canonical_expression_dag gives equal expressions one node; the order of the
\* nodes is taken to be the canonical one.  That SymPy may evaluate an expression
\* while it is decoded, and the bounds validate_exact_expression puts on what was
\* decoded, are left out: refusals they cause are none of the graph's.
EndDecode ==
  /\ dpc = "decode" /\ stack = <<>> /\ Pending = {}
  /\ IF Cardinality({decoded[n] : n \in Nodes(dag)}) # Len(dag.nodes) THEN Refuse
     ELSE dpc' = "accepted" /\ UNCHANGED <<dag, stack, root, finished, decoded>>

DagStep == CheckShape \/ Enter \/ Leave \/ EndVisit \/ EndDecode

-----------------------------------------------------------------------------
(* Property *)

\* The nodes at the ends of paths of k edges from the roots.
Children(S) == UNION {Range(dag.nodes[n].args) : n \in S}
AtDistance[k \in Nat] == IF k = 0 THEN Range(dag.roots) ELSE Children(AtDistance[k - 1])

Acyclic == AtDistance[Len(dag.nodes)] = {}
Reachable == UNION {AtDistance[k] : k \in 0..Len(dag.nodes)}

\* An accepted DAG is acyclic, hangs together below its roots and names no
\* expression twice; a DAG that is refused has one of these faults or a path
\* longer than the limit (1183-1223).  decode has no limit of its own, but it
\* visits in the order visit did, so it never goes deeper than visit allowed
\* and never meets a cycle (1253-1290).
DagVerdictExact ==
  /\ dpc = "accepted" => Acyclic /\ Reachable = Nodes(dag)
  /\ dpc = "refused" /\ ShapeOK(dag) =>
       \/ ~Acyclic \/ Reachable # Nodes(dag) \/ AtDistance[MaxDepth + 1] # {}
       \/ stack = <<>> /\ \E m, n \in Nodes(dag) : m # n /\ decoded[m] = decoded[n]
  /\ dpc = "decode" => Len(stack) <= MaxDepth + 1 /\ Pending \cap Visiting = {}
=============================================================================
