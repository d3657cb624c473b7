--------------------------- MODULE GatePolicyProofs ---------------------------
(***************************************************************************)
(* For chains of any length over any names: authority only narrows, a      *)
(* delegated policy's own allowlist decides, and what the gates see of any *)
(* policy is what they assume of one.                                      *)
(***************************************************************************)
EXTENDS GatePolicy, TLAPS

(* Every policy was admitted, and stands to each ancestor as to its parent.  *)
ChainInv ==
  /\ chain \in Seq(Candidates)
  /\ \A i \in 1..Len(chain) : ValidPolicy(chain[i])
  /\ \A i, j \in 1..Len(chain) : i < j => Narrows(chain[j], chain[i])

LEMMA NarrowsTransitive ==
  ASSUME NEW p, NEW q, NEW r, Narrows(p, q), Narrows(q, r)
  PROVE  Narrows(p, r)
  BY DEF Narrows

(* What the two ways to build a child have in common.                        *)
LEMMA ExtendChain ==
  ASSUME ChainInv, NEW p \in Candidates, ValidPolicy(p), chain' = Append(chain, p),
         chain # <<>> => Narrows(p, Leaf)
  PROVE  ChainInv'
<1>1. /\ chain' \in Seq(Candidates) /\ Len(chain') = Len(chain) + 1
      /\ Len(chain) \in Nat
      /\ \A i \in 1..Len(chain) : chain'[i] = chain[i]
      /\ chain'[Len(chain) + 1] = p
  BY DEF ChainInv
<1>2. \A i \in 1..Len(chain') : ValidPolicy(chain'[i])
  BY <1>1 DEF ChainInv
<1>3. ASSUME NEW i \in 1..Len(chain)
      PROVE  Narrows(p, chain[i])
  <2>1. chain # <<>> /\ Leaf = chain[Len(chain)]
    BY DEF Leaf
  <2>2. CASE i = Len(chain)
    BY <2>1, <2>2
  <2>3. CASE i # Len(chain)
    <3>1. Narrows(Leaf, chain[i])
      BY <1>1, <2>1, <2>3 DEF ChainInv
    <3> QED BY <2>1, <3>1, NarrowsTransitive
  <2> QED BY <2>2, <2>3
<1>4. \A i, j \in 1..Len(chain') : i < j => Narrows(chain'[j], chain'[i])
  <2>1. SUFFICES ASSUME NEW i \in 1..Len(chain'), NEW j \in 1..Len(chain'), i < j
                 PROVE  Narrows(chain'[j], chain'[i])
    OBVIOUS
  <2>2. CASE j = Len(chain')
    BY <1>1, <1>3, <2>1, <2>2
  <2>3. CASE j # Len(chain')
    BY <1>1, <2>1, <2>3 DEF ChainInv
  <2> QED BY <2>2, <2>3
<1> QED BY <1>1, <1>2, <1>4 DEF ChainInv

LEMMA ChainInit == Init => ChainInv
  BY DEF Init, ChainInv

LEMMA ChainStep ==
  ASSUME ChainInv, [Next]_chain
  PROVE  ChainInv'
<1>1. CASE Root
  BY <1>1, ExtendChain DEF Root, Construct
<1>2. CASE Child
  BY <1>2, ExtendChain DEF Child, Construct
<1>3. CASE Delegate
  <2>1. PICK tools \in SUBSET Tools, tags \in SUBSET Tags,
             classes \in {Leaf.classes} \cup SUBSET Granted :
               /\ Narrows(Delegated(tools, classes, tags), Leaf)
               /\ Construct(Delegated(tools, classes, tags))
    BY <1>3 DEF Delegate
  <2>2. Leaf \in Candidates
    <3>1. Len(chain) \in 1..Len(chain)
      BY <1>3, PolicyAssumption DEF Delegate, ChainInv
    <3> QED BY <3>1 DEF Leaf, ChainInv
  <2>3. Delegated(tools, classes, tags) \in Candidates
    BY <2>2 DEF Delegated, Candidates
  <2> QED BY <2>1, <2>3, ExtendChain DEF Construct
<1>4. CASE UNCHANGED chain
  BY <1>4 DEF ChainInv
<1> QED BY <1>1, <1>2, <1>3, <1>4 DEF Next, Refused

(* A descendant's list is every ancestor's list intersected with its own.    *)
LEMMA ListsNarrow ==
  ASSUME ChainInv, NEW j \in 1..Len(chain), NEW i \in 1..j, NEW tool, AllowsTool(j, tool)
  PROVE  AllowsTool(i, tool)
  BY DEF AllowsTool, ChainInv

(* Authority only narrows along a chain of any length: by constructor or by  *)
(* delegate, no descendant admits a call that an ancestor does not.          *)
THEOREM NeverWidensThm == Spec => []NeverWidens
<1>1. ChainInv => NeverWidens
  <2>1. SUFFICES ASSUME ChainInv, NEW j \in 1..Len(chain), NEW i \in 1..j
                 PROVE  /\ chain[i].approval \subseteq chain[j].approval
                        /\ chain[i].simulation = chain[j].simulation
                        /\ \A tool \in Tools, cls \in Granted, tags \in SUBSET Tags :
                             Admits(j, tool, cls, tags) => Admits(i, tool, cls, tags)
    BY DEF NeverWidens
  <2>2. i = j \/ Narrows(chain[j], chain[i])
    BY <2>1 DEF ChainInv
  <2>3. ASSUME NEW tool \in Tools, NEW cls \in Granted, NEW tags \in SUBSET Tags,
               Admits(j, tool, cls, tags)
        PROVE  Admits(i, tool, cls, tags)
    <3>1. AllowsTool(i, tool)
      BY <2>1, <2>3, ListsNarrow DEF Admits
    <3> QED BY <2>2, <2>3, <3>1 DEF Admits, Narrows
  <2> QED BY <2>2, <2>3 DEF Narrows
<1> QED BY <1>1, ChainInit, ChainStep, PTL DEF Spec

(* allows_tool need not have asked the ancestors: whatever they list, the    *)
(* allowlist of a delegated policy is the answer.                            *)
THEOREM OwnListDecidesThm == Spec => []OwnListDecides
<1>1. ChainInv => OwnListDecides
  <2>1. SUFFICES ASSUME ChainInv, NEW i \in 2..Len(chain), NEW tool \in Tools
                 PROVE  AllowsTool(i, tool) <=> chain[i].listed /\ tool \in chain[i].tools
    BY DEF OwnListDecides
  <2>2. i \in 1..Len(chain) /\ 1 \in 1..Len(chain) /\ 1 < i
    BY <2>1 DEF ChainInv
  <2>3. chain[i].listed
    BY <2>1, <2>2 DEF ChainInv, Narrows
  <2>4. \A j \in 1..i : j = i \/ chain[i].tools \subseteq chain[j].tools
    BY <2>1, <2>2 DEF ChainInv, Narrows
  <2> QED BY <2>2, <2>3, <2>4 DEF AllowsTool
<1> QED BY <1>1, ChainInit, ChainStep, PTL DEF Spec

(* What GatesAssumption says of its Policy holds of every policy that can be *)
(* built: the gates may be checked and proved about with a constant one.     *)
THEOREM EffectiveValidThm ==
  Spec => [](\A i \in 1..Len(chain) : ValidPolicy(Effective(i)))
<1>1. ChainInv => \A i \in 1..Len(chain) : ValidPolicy(Effective(i))
  BY DEF ChainInv, ValidPolicy, Effective
<1> QED BY <1>1, ChainInit, ChainStep, PTL DEF Spec
=============================================================================
