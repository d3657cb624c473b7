------------------------------ MODULE GatePolicy ------------------------------
(***************************************************************************)
(* The construction of GatePolicies and their delegation.  A policy is     *)
(* immutable and knows its parent, so what matters of it is the chain from *)
(* the root policy down to it; chain[1] is the root, and the policy that   *)
(* the next one is built under is the last.  A constructor that raises     *)
(* leaves nothing behind.                                                  *)
(*                                                                         *)
(* A tool_allowlist of None is listed = FALSE.  The policy version is left *)
(* out: it is only written into decisions.                                 *)
(***************************************************************************)
EXTENDS Authority, Sequences, Naturals

CONSTANTS Granted,      \* the side effect classes considered
          Tags,         \* policy tags
          Tools,        \* tool names
          Simulated,    \* dimension names offered as simulation dimensions
          MaxDepth      \* bound on the length of a chain

ASSUME PolicyAssumption == Granted \subseteq Classes /\ MaxDepth \in Nat

VARIABLE chain

Candidates ==
  {p \in [classes : SUBSET Granted, tags : SUBSET Tags, simulation : SUBSET Simulated,
          approval : SUBSET Granted, listed : BOOLEAN, tools : SUBSET Tools] :
     p.listed \/ p.tools = {}}

Leaf == chain[Len(chain)]

(* Mutated: a child may drop the approvals of its parent.                    *)
NarrowsLaxly(p, parent) ==
  /\ p.listed /\ parent.listed
  /\ p.classes \subseteq parent.classes
  /\ p.tags \subseteq parent.tags
  /\ p.tools \subseteq parent.tools
  /\ p.simulation = parent.simulation

(* Mutated: the allowlists are not compared.                                 *)
NarrowsUnlisted(p, parent) ==
  /\ p.listed /\ parent.listed
  /\ p.classes \subseteq parent.classes
  /\ p.tags \subseteq parent.tags
  /\ parent.approval \subseteq p.approval
  /\ p.simulation = parent.simulation

(* __post_init__ with a parent: both allowlists are explicit, classes, tags  *)
(* and tools are the parent's or fewer, approvals the parent's or more, and  *)
(* what counts as simulation stays the same.                                 *)
Narrows(p, parent) ==
  /\ p.listed /\ parent.listed
  /\ p.classes \subseteq parent.classes
  /\ p.tags \subseteq parent.tags
  /\ p.tools \subseteq parent.tools
  /\ parent.approval \subseteq p.approval
  /\ p.simulation = parent.simulation

Init == chain = <<>>

Construct(p) == ValidPolicy(p) /\ chain' = Append(chain, p)

(* GatePolicy(...) without a parent.                                         *)
Root == chain = <<>> /\ \E p \in Candidates : Construct(p)

(* GatePolicy(..., parent): the application may also build a child itself.   *)
Child ==
  /\ Len(chain) \in 1..(MaxDepth - 1)
  /\ \E p \in Candidates : Narrows(p, Leaf) /\ Construct(p)

(* delegate: classes default to the parent's and tags to none; approvals and *)
(* simulation dimensions are handed on as they are.                          *)
Delegated(tools, classes, tags) ==
  [classes |-> classes, tags |-> tags, simulation |-> Leaf.simulation,
   approval |-> Leaf.approval, listed |-> TRUE, tools |-> tools]

Delegate ==
  /\ Len(chain) \in 1..(MaxDepth - 1)
  /\ \E tools \in SUBSET Tools, tags \in SUBSET Tags,
        classes \in {Leaf.classes} \cup SUBSET Granted :
       LET p == Delegated(tools, classes, tags)
       IN Narrows(p, Leaf) /\ Construct(p)

(* A constructor that raises; nobody has to delegate at all.                 *)
Refused == UNCHANGED chain

Next == Root \/ Child \/ Delegate \/ Refused

Spec == Init /\ [][Next]_chain

-----------------------------------------------------------------------------
(* allows_tool: every allowlist from the policy up to the root has the tool. *)
AllowsTool(i, tool) == \A j \in 1..i : chain[j].listed => tool \in chain[j].tools

(* What G1 asks of the i-th policy for a call of a tool of some class that   *)
(* requires some tags.                                                       *)
Admits(i, tool, cls, tags) ==
  /\ AllowsTool(i, tool)
  /\ cls \in chain[i].classes
  /\ tags \subseteq chain[i].tags

(* The policy as the gates see it: its own grants, and the tools that the    *)
(* whole chain lets through.                                                 *)
Effective(i) ==
  [classes |-> chain[i].classes, tags |-> chain[i].tags,
   simulation |-> chain[i].simulation, approval |-> chain[i].approval,
   tools |-> {tool \in Tools : AllowsTool(i, tool)}]

-----------------------------------------------------------------------------
(* Authority only narrows: a call that any descendant admits, each of its    *)
(* ancestors admits; the descendant asks for approval wherever an ancestor   *)
(* would, and reads the same dimensions as simulation (GatePolicy).          *)
NeverWidens ==
  \A j \in 1..Len(chain) : \A i \in 1..j :
    /\ chain[i].approval \subseteq chain[j].approval
    /\ chain[i].simulation = chain[j].simulation
    /\ \A tool \in Tools, cls \in Granted, tags \in SUBSET Tags :
         Admits(j, tool, cls, tags) => Admits(i, tool, cls, tags)

(* A delegated policy says what it means: its own allowlist decides, though  *)
(* allows_tool asks every ancestor; no ancestor's list, and no ancestor      *)
(* without one, changes the answer.                                          *)
OwnListDecides ==
  \A i \in 2..Len(chain) : \A tool \in Tools :
    AllowsTool(i, tool) <=> chain[i].listed /\ tool \in chain[i].tools
=============================================================================
