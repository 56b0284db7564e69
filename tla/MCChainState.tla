---------------------------- MODULE MCChainState ----------------------------
(* Small block trees for ChainState. *)
EXTENDS ChainState, TLC

CONSTANTS g, a1, a2, b1, b2, t1, t2

\* Two branches from g.  a1 and b1 have the same work; branch b ends with
\* more work than branch a.
Fork == {g, a1, a2, b1, b2}
ForkParent == a1 :> g @@ a2 :> a1 @@ b1 :> g @@ b2 :> b1
ForkAnc == g :> {g} @@ a1 :> {g, a1} @@ a2 :> {g, a1, a2} @@ b1 :> {g, b1}
           @@ b2 :> {g, b1, b2}
ForkHeight == g :> 0 @@ a1 :> 1 @@ a2 :> 2 @@ b1 :> 1 @@ b2 :> 2
ForkWork == g :> 1 @@ a1 :> 2 @@ a2 :> 3 @@ b1 :> 2 @@ b2 :> 4
ForkPtr == g :> 0 @@ a1 :> 1 @@ a2 :> 2 @@ b1 :> 3 @@ b2 :> 4

\* The same without a2.
Short == Fork \ {a2}
Cut(f) == [b \in DOMAIN f \ {a2} |-> f[b]]
ShortParent == Cut(ForkParent)
ShortAnc == Cut(ForkAnc)
ShortHeight == Cut(ForkHeight)
ShortWork == Cut(ForkWork)
ShortPtr == Cut(ForkPtr)

\* One block with two children.
Siblings == {g, a1, a2, b2}
SiblingsParent == a1 :> g @@ a2 :> a1 @@ b2 :> a1
SiblingsAnc == g :> {g} @@ a1 :> {g, a1} @@ a2 :> {g, a1, a2} @@ b2 :> {g, a1, b2}
SiblingsHeight == g :> 0 @@ a1 :> 1 @@ a2 :> 2 @@ b2 :> 2
SiblingsPtr == g :> 0 @@ a1 :> 1 @@ a2 :> 2 @@ b2 :> 3

\* How often an operator steps in, a lock completes and the node crashes.
Plain == [w \in Interventions |-> 0]
Only(w, n) == [Plain EXCEPT ![w] = n]
Both(v, w) == [Plain EXCEPT ![v] = 1, ![w] = 1]
Undisturbed == {Plain}
OneOfThem == {Only("invalidate", 1), Only("reprocess", 1), Only("crash", 2)}
Faults == {Both("reconsider", "crash")}

Symmetry == Permutations({t1, t2})
=============================================================================
