------------------------- MODULE GroupClosureProofs -------------------------
(***************************************************************************)
(* Theorems about GroupClosure, for any number of groups: requests that do *)
(* not overlap keep the table of the closure exactly what the parents say, *)
(* and what is read off it right.                                          *)
(*                                                                         *)
(* A tree is followed upwards only. AncestorsOrSelf is a least set, and    *)
(* whatever holds of a group and is handed from a group to its parent      *)
(* holds of all above it (AncestorsLeast); Subtree is the same relation    *)
(* seen from above (SubtreeIsBelow). The lemmas about a moved subtree then *)
(* say what each trigger has to do.                                        *)
(***************************************************************************)
EXTENDS GroupClosure, Inductions, TLAPS

-----------------------------------------------------------------------------
(***************************************************************************)
(* Trees                                                                   *)
(***************************************************************************)
\* Every parent is a group or None, which is no group: the foreign key.
Rooted(par) ==
    /\ None \notin DOMAIN par
    /\ \A g \in DOMAIN par : par[g] \in DOMAIN par \cup {None}

\* A set of groups that contains the parent of each of them.
Upward(par, T) == T \subseteq DOMAIN par /\ \A t \in T : par[t] \in T \cup {None}

\* No group is above itself.
Acyclic(par) == \A g \in DOMAIN par : par[g] \notin Subtree(par, g)

\* Without the operators LeastClosed takes.
LEMMA AncestorsAre ==
    ASSUME NEW par, NEW g
    PROVE  AncestorsOrSelf(par, g) = {a \in DOMAIN par : \A T \in SUBSET DOMAIN par :
               g \in T /\ (\A t \in T : par[t] \in T \cup {None}) => a \in T}
BY DEF AncestorsOrSelf, LeastClosed, Existing

\* Likewise for what is beneath: closed under the children of its groups.
LEMMA SubtreeIs ==
    ASSUME NEW par, NEW g
    PROVE  Subtree(par, g) = {d \in DOMAIN par : \A T \in SUBSET DOMAIN par :
               g \in T /\ (\A c \in DOMAIN par : par[c] \in T => c \in T) => d \in T}
BY DEF Subtree, LeastClosed, Existing, Children

\* What contains a group and is closed upwards contains all above it.
LEMMA AncestorsLeast ==
    ASSUME NEW par, NEW g, NEW T, Upward(par, T), g \in T
    PROVE  AncestorsOrSelf(par, g) \subseteq T
BY AncestorsAre DEF Upward

\* Those above a group are closed upwards, and the group is one of them.
LEMMA AncestorsUpward ==
    ASSUME NEW par, Rooted(par), NEW g \in DOMAIN par
    PROVE  Upward(par, AncestorsOrSelf(par, g)) /\ g \in AncestorsOrSelf(par, g)
<1> DEFINE A == AncestorsOrSelf(par, g)
<1>1. A \subseteq DOMAIN par /\ g \in A BY AncestorsAre
<1>2. ASSUME NEW a \in A, par[a] # None PROVE par[a] \in A
  <2>1. a \in DOMAIN par /\ par[a] \in DOMAIN par BY <1>1, <1>2 DEF Rooted
  <2>2. ASSUME NEW T \in SUBSET DOMAIN par, g \in T,
               \A t \in T : par[t] \in T \cup {None}
        PROVE  par[a] \in T
    <3>1. a \in T BY <2>2, AncestorsAre
    <3> QED BY <1>2, <2>2, <3>1
  <2> QED BY <2>1, <2>2, AncestorsAre
<1> QED BY <1>1, <1>2 DEF Upward

\* Above a group are the group itself and those above its parent.
LEMMA AncestorsUnfold ==
    ASSUME NEW par, Rooted(par), NEW g \in DOMAIN par
    PROVE  /\ par[g] = None => AncestorsOrSelf(par, g) = {g}
           /\ par[g] # None =>
                AncestorsOrSelf(par, g) = {g} \cup AncestorsOrSelf(par, par[g])
<1>1. ASSUME par[g] = None PROVE AncestorsOrSelf(par, g) = {g}
  <2>1. Upward(par, {g}) BY <1>1 DEF Upward
  <2> QED BY <2>1, AncestorsLeast, AncestorsUpward
<1>2. ASSUME par[g] # None
      PROVE  AncestorsOrSelf(par, g) = {g} \cup AncestorsOrSelf(par, par[g])
  <2>0. par[g] \in DOMAIN par BY <1>2 DEF Rooted
  <2>1. Upward(par, {g} \cup AncestorsOrSelf(par, par[g]))
    BY <2>0, AncestorsUpward DEF Upward
  <2>2. par[g] \in AncestorsOrSelf(par, g) BY <1>2, AncestorsUpward DEF Upward
  <2>3. AncestorsOrSelf(par, par[g]) \subseteq AncestorsOrSelf(par, g)
    BY <2>2, AncestorsUpward, AncestorsLeast
  <2> QED BY <2>1, <2>3, AncestorsLeast, AncestorsUpward
<1> QED BY <1>1, <1>2

\* What is above a group that is above another is above that one.
LEMMA AncestorsTransitive ==
    ASSUME NEW par, Rooted(par), NEW g \in DOMAIN par, NEW a \in AncestorsOrSelf(par, g)
    PROVE  AncestorsOrSelf(par, a) \subseteq AncestorsOrSelf(par, g)
BY AncestorsUpward, AncestorsLeast

\* Of two groups above a third, one is above the other.
LEMMA AncestorsLinear ==
    ASSUME NEW par, Rooted(par), NEW d \in DOMAIN par,
           NEW a \in AncestorsOrSelf(par, d), NEW b \in AncestorsOrSelf(par, d)
    PROVE  a \in AncestorsOrSelf(par, b) \/ b \in AncestorsOrSelf(par, a)
<1> DEFINE T == {c \in DOMAIN par : a \in AncestorsOrSelf(par, c) \/ c \in AncestorsOrSelf(par, a)}
<1>0. a \in DOMAIN par BY AncestorsUpward DEF Upward
<1>1. d \in T OBVIOUS
<1>2. ASSUME NEW c \in T, par[c] # None PROVE par[c] \in T
  <2>1. par[c] \in DOMAIN par BY <1>2 DEF Rooted
  <2>2. CASE a \in AncestorsOrSelf(par, c)
    <3>1. a = c \/ a \in AncestorsOrSelf(par, par[c]) BY <1>2, <2>2, AncestorsUnfold
    <3>2. a = c => par[c] \in AncestorsOrSelf(par, a)
      BY <1>0, <1>2, AncestorsUpward DEF Upward
    <3> QED BY <2>1, <3>1, <3>2
  <2>3. CASE c \in AncestorsOrSelf(par, a)
    BY <1>0, <1>2, <2>1, <2>3, AncestorsUpward DEF Upward
  <2> QED BY <2>2, <2>3
<1>3. Upward(par, T) BY <1>2 DEF Upward
<1> QED BY <1>1, <1>3, AncestorsLeast

\* A group is in the subtree of those above it.
LEMMA SubtreeIsBelow ==
    ASSUME NEW par, Rooted(par), NEW g \in DOMAIN par, NEW d
    PROVE  d \in Subtree(par, g) <=> d \in DOMAIN par /\ g \in AncestorsOrSelf(par, d)
<1> DEFINE S == {c \in DOMAIN par : g \in AncestorsOrSelf(par, c)}
<1>1. ASSUME d \in Subtree(par, g) PROVE d \in S
  <2>1. g \in S BY AncestorsUpward
  <2>2. ASSUME NEW c \in DOMAIN par, par[c] \in S PROVE c \in S
    BY <2>2, AncestorsUnfold DEF Rooted
  <2> QED BY <1>1, <2>1, <2>2, SubtreeIs
<1>2. ASSUME d \in S, NEW T \in SUBSET DOMAIN par, g \in T,
             \A c \in DOMAIN par : par[c] \in T => c \in T, d \notin T
      PROVE  FALSE
  <2>1. Upward(par, DOMAIN par \ T) BY <1>2 DEF Upward, Rooted
  <2>2. AncestorsOrSelf(par, d) \subseteq DOMAIN par \ T BY <1>2, <2>1, AncestorsLeast
  <2> QED BY <1>2, <2>2
<1>3. ASSUME d \in S PROVE d \in Subtree(par, g) BY <1>2, <1>3, SubtreeIs
<1> QED BY <1>1, <1>3

\* In a tree without cycles the parent of a group is not beneath it.
LEMMA AcyclicMeans ==
    ASSUME NEW par, Rooted(par)
    PROVE  Acyclic(par) <=> \A g \in DOMAIN par :
               par[g] # None => g \notin AncestorsOrSelf(par, par[g])
<1>1. ASSUME NEW g \in DOMAIN par
      PROVE  par[g] \in Subtree(par, g) <=>
               par[g] # None /\ g \in AncestorsOrSelf(par, par[g])
  BY SubtreeIsBelow DEF Rooted
<1> QED BY <1>1 DEF Acyclic

\* Where two trees agree on a set that is closed upwards, so do those above it.
LEMMA SameAbove ==
    ASSUME NEW par, Rooted(par), NEW new, Rooted(new), NEW T, Upward(par, T),
           T \subseteq DOMAIN new, \A t \in T : new[t] = par[t], NEW h \in T
    PROVE  AncestorsOrSelf(new, h) = AncestorsOrSelf(par, h)
<1>1. Upward(new, T) BY DEF Upward
<1>2. h \in DOMAIN par /\ h \in DOMAIN new BY DEF Upward
<1>3. AncestorsOrSelf(par, h) \subseteq T /\ AncestorsOrSelf(new, h) \subseteq T
  BY <1>1, AncestorsLeast
<1>4. /\ Upward(par, AncestorsOrSelf(par, h)) /\ h \in AncestorsOrSelf(par, h)
      /\ Upward(new, AncestorsOrSelf(new, h)) /\ h \in AncestorsOrSelf(new, h)
  BY <1>2, AncestorsUpward
<1>5. Upward(new, AncestorsOrSelf(par, h)) /\ Upward(par, AncestorsOrSelf(new, h))
  BY <1>2, <1>3, <1>4 DEF Upward
<1> QED BY <1>4, <1>5, AncestorsLeast

\* What the table is to hold: the pairs of a group at or above another, and it.
TreePairs(par) == UNION {AncestorsOrSelf(par, g) \X {g} : g \in DOMAIN par}

\* A set of pairs.
Relates(cl) == \A c \in cl : c = <<c[1], c[2]>>

\* When a pair is among them.
LEMMA PairIn ==
    ASSUME NEW par
    PROVE  /\ Relates(TreePairs(par))
           /\ \A a, d : <<a, d>> \in TreePairs(par) <=>
                d \in DOMAIN par /\ a \in AncestorsOrSelf(par, d)
<1>1. Relates(TreePairs(par)) BY DEF Relates, TreePairs
<1>2. \A a, d : <<a, d>> \in TreePairs(par) <=> d \in DOMAIN par /\ a \in AncestorsOrSelf(par, d)
  BY DEF TreePairs
<1> QED BY <1>1, <1>2

\* The two ways in which triggers and queries read a set of pairs.
LEMMA PairsRead ==
    ASSUME NEW cl, Relates(cl), NEW g, NEW h
    PROVE  /\ h \in {c[2] : c \in {x \in cl : x[1] = g}} <=> <<g, h>> \in cl
           /\ h \in {c[1] : c \in {x \in cl : x[2] = g}} <=> <<h, g>> \in cl
<1>1. ASSUME <<g, h>> \in cl PROVE h \in {c[2] : c \in {x \in cl : x[1] = g}} BY <1>1
<1>2. ASSUME <<h, g>> \in cl PROVE h \in {c[1] : c \in {x \in cl : x[2] = g}} BY <1>2
<1> QED BY <1>1, <1>2 DEF Relates

\* Sets of pairs with the same pairs are the same.
LEMMA SamePairs ==
    ASSUME NEW S, NEW T, Relates(S), Relates(T), \A a, d : <<a, d>> \in S <=> <<a, d>> \in T
    PROVE  S = T
BY DEF Relates

\* A new group at the bottom: it is paired with itself and all above its parent.
LEMMA GroupAdded ==
    ASSUME NEW par, Rooted(par), Acyclic(par), NEW g, g \notin DOMAIN par, g # None,
           NEW p, p = None \/ p \in DOMAIN par,
           NEW new, new = [h \in DOMAIN par \cup {g} |-> IF h = g THEN p ELSE par[h]]
    PROVE  /\ Rooted(new) /\ Acyclic(new)
           /\ \A a, d : <<a, d>> \in TreePairs(new) <=>
                \/ <<a, d>> \in TreePairs(par)
                \/ d = g /\ (a = g \/ <<a, p>> \in TreePairs(par))
<1>1. /\ DOMAIN new = DOMAIN par \cup {g} /\ new[g] = p
      /\ \A h \in DOMAIN par : new[h] = par[h]
  OBVIOUS
<1>2. Rooted(new) BY <1>1 DEF Rooted
<1>3. Upward(par, DOMAIN par) BY DEF Upward, Rooted
<1>4. \A h \in DOMAIN par : AncestorsOrSelf(new, h) = AncestorsOrSelf(par, h)
  BY <1>1, <1>2, <1>3, SameAbove
<1>5. \A h \in DOMAIN par : AncestorsOrSelf(par, h) \subseteq DOMAIN par
  BY AncestorsUpward DEF Upward
<1>6. \A a : a \in AncestorsOrSelf(new, g) <=> a = g \/ <<a, p>> \in TreePairs(par)
  <2>1. CASE p = None
    <3>1. AncestorsOrSelf(new, g) = {g} BY <1>1, <1>2, <2>1, AncestorsUnfold
    <3>2. p \notin DOMAIN par BY <2>1 DEF Rooted
    <3> QED BY <3>1, <3>2, PairIn
  <2>2. CASE p \in DOMAIN par
    <3>1. p # None BY <2>2 DEF Rooted
    <3>2. g \in DOMAIN new /\ new[g] = p BY <1>1
    <3>3. AncestorsOrSelf(new, g) = {g} \cup AncestorsOrSelf(new, p)
      BY <1>2, <3>1, <3>2, AncestorsUnfold
    <3>4. AncestorsOrSelf(new, p) = AncestorsOrSelf(par, p) BY <1>4, <2>2
    <3> QED BY <2>2, <3>3, <3>4, PairIn
  <2> QED BY <2>1, <2>2
<1>7. Acyclic(new)
  <2>1. ASSUME NEW h \in DOMAIN par, par[h] # None
        PROVE  h \notin AncestorsOrSelf(new, new[h])
    <3>1. par[h] \in DOMAIN par BY <2>1 DEF Rooted
    <3>2. h \notin AncestorsOrSelf(par, par[h]) BY <2>1, AcyclicMeans
    <3> QED BY <1>1, <1>4, <3>1, <3>2
  <2>2. ASSUME p # None PROVE g \notin AncestorsOrSelf(new, p)
    BY <1>4, <1>5, <2>2
  <2> QED BY <1>1, <1>2, <2>1, <2>2, AcyclicMeans
<1>8. ASSUME NEW a, NEW d
      PROVE  <<a, d>> \in TreePairs(new) <=>
               \/ <<a, d>> \in TreePairs(par)
               \/ d = g /\ (a = g \/ <<a, p>> \in TreePairs(par))
  <2>1. CASE d \in DOMAIN par BY <1>1, <1>4, <2>1, PairIn
  <2>2. CASE d = g BY <1>1, <1>6, <2>2, PairIn
  <2>3. CASE d \notin DOMAIN par \cup {g} BY <1>1, <2>3, PairIn
  <2> QED BY <2>1, <2>2, <2>3
<1> QED BY <1>2, <1>7, <1>8

\* A group without children removed, and its pairs with it.
LEMMA GroupRemoved ==
    ASSUME NEW par, Rooted(par), Acyclic(par), NEW g \in DOMAIN par,
           \A c \in DOMAIN par : par[c] # g,
           NEW new, new = [h \in DOMAIN par \ {g} |-> par[h]]
    PROVE  /\ Rooted(new) /\ Acyclic(new)
           /\ \A a, d : <<a, d>> \in TreePairs(new) <=>
                <<a, d>> \in TreePairs(par) /\ a # g /\ d # g
<1>1. /\ DOMAIN new = DOMAIN par \ {g} /\ \A h \in DOMAIN new : new[h] = par[h]
  OBVIOUS
<1>2. Rooted(new) BY <1>1 DEF Rooted
<1>3. Upward(par, DOMAIN new) BY <1>1 DEF Upward, Rooted
<1>4. \A h \in DOMAIN new : AncestorsOrSelf(new, h) = AncestorsOrSelf(par, h)
  BY <1>1, <1>2, <1>3, SameAbove
<1>5. \A h \in DOMAIN new : AncestorsOrSelf(new, h) \subseteq DOMAIN new
  BY <1>2, AncestorsUpward DEF Upward
<1>6. Acyclic(new)
  <2>1. ASSUME NEW h \in DOMAIN new, new[h] # None
        PROVE  h \notin AncestorsOrSelf(new, new[h])
    <3>1. new[h] \in DOMAIN new BY <1>2, <2>1 DEF Rooted
    <3>2. h \notin AncestorsOrSelf(par, par[h]) BY <1>1, <2>1, AcyclicMeans
    <3> QED BY <1>1, <1>4, <3>1, <3>2
  <2> QED BY <1>2, <2>1, AcyclicMeans
<1>7. \A a, d : <<a, d>> \in TreePairs(new) <=> <<a, d>> \in TreePairs(par) /\ a # g /\ d # g
  BY <1>1, <1>4, <1>5, PairIn, ZenonT(60)
<1> QED BY <1>2, <1>6, <1>7

-----------------------------------------------------------------------------
(***************************************************************************)
(* A moved subtree                                                         *)
(***************************************************************************)
\* What lies beneath a group has all of the group's ancestors; what does not
\* has none of the groups beneath it. On the way up from a group beneath g, one
\* is beneath g until one has passed g.
LEMMA AroundSubtree ==
    ASSUME NEW par, Rooted(par), Acyclic(par), NEW g \in DOMAIN par,
           NEW M, M = Subtree(par, g)
    PROVE  /\ g \in M /\ M \subseteq DOMAIN par /\ Upward(par, DOMAIN par \ M)
           /\ \A t \in M : t # g => par[t] \in M
           /\ par[g] \notin M
<1>1. \A d : d \in M <=> d \in DOMAIN par /\ g \in AncestorsOrSelf(par, d)
  BY SubtreeIsBelow
<1>2. g \in M BY <1>1, AncestorsUpward
<1>3. ASSUME NEW c \in DOMAIN par, par[c] \in M PROVE c \in M
  <2>1. par[c] \in DOMAIN par /\ par[c] # None BY <1>1, <1>3 DEF Rooted
  <2>2. AncestorsOrSelf(par, c) = {c} \cup AncestorsOrSelf(par, par[c])
    BY <2>1, AncestorsUnfold
  <2> QED BY <1>1, <1>3, <2>2
<1>4. Upward(par, DOMAIN par \ M) BY <1>3 DEF Upward, Rooted
<1>5. ASSUME NEW t \in M, t # g PROVE par[t] \in M
  <2>1. t \in DOMAIN par /\ g \in AncestorsOrSelf(par, t) BY <1>1
  <2>2. par[t] # None /\ g \in AncestorsOrSelf(par, par[t])
    BY <1>5, <2>1, AncestorsUnfold
  <2> QED BY <1>1, <2>1, <2>2 DEF Rooted
<1>6. par[g] \notin M BY DEF Acyclic
<1> QED BY <1>1, <1>2, <1>4, <1>5, <1>6

\* The groups of M have lost what was above them outside M, and gained p and
\* what is above p. Nothing else has changed.
Rehung(par, M, p, new) ==
    /\ \A h \in DOMAIN par \ M : AncestorsOrSelf(new, h) = AncestorsOrSelf(par, h)
    /\ \A h \in M : \A a : a \in AncestorsOrSelf(new, h) <=>
         \/ a \in M /\ a \in AncestorsOrSelf(par, h)
         \/ p # None /\ a \in AncestorsOrSelf(par, p)

\* That is so once g, with all beneath it, hangs beneath p.
LEMMA AncestorsMoved ==
    ASSUME NEW par, Rooted(par), Acyclic(par), NEW g \in DOMAIN par,
           NEW M, M = Subtree(par, g),
           NEW p, p \in DOMAIN par \ M \/ p = None,
           NEW new, new = [par EXCEPT ![g] = p]
    PROVE  Rooted(new) /\ Rehung(par, M, p, new)
<1>1. /\ DOMAIN new = DOMAIN par /\ new[g] = p
      /\ \A h \in DOMAIN par : h # g => new[h] = par[h]
  OBVIOUS
<1>2. Rooted(new) BY <1>1 DEF Rooted
<1>3. /\ g \in M /\ M \subseteq DOMAIN par /\ Upward(par, DOMAIN par \ M)
      /\ \A t \in M : t # g => par[t] \in M
      /\ par[g] \notin M
  BY AroundSubtree
<1>4. \A h \in DOMAIN par \ M : AncestorsOrSelf(new, h) = AncestorsOrSelf(par, h)
  <2> DEFINE T == DOMAIN par \ M
  <2>1. /\ Upward(par, T) /\ T \subseteq DOMAIN new /\ \A t \in T : new[t] = par[t]
    BY <1>1, <1>3
  <2> HIDE DEF T
  <2>2. ASSUME NEW h \in T PROVE AncestorsOrSelf(new, h) = AncestorsOrSelf(par, h)
    <3>1. /\ Rooted(par) /\ Rooted(new) /\ Upward(par, T)
          /\ T \subseteq DOMAIN new /\ \A t \in T : new[t] = par[t]
      BY <1>2, <2>1
    <3> QED BY ONLY <3>1, SameAbove, h \in T
  <2> QED BY <2>2 DEF T
<1>5. ASSUME NEW h \in M
      PROVE  AncestorsOrSelf(new, h) \subseteq
               {a \in DOMAIN par : \/ a \in M /\ a \in AncestorsOrSelf(par, h)
                                   \/ p # None /\ a \in AncestorsOrSelf(par, p)}
  <2> DEFINE X == {a \in DOMAIN par : \/ a \in M /\ a \in AncestorsOrSelf(par, h)
                                      \/ p # None /\ a \in AncestorsOrSelf(par, p)}
  <2>1. h \in X BY <1>3, AncestorsUpward
  <2>2. ASSUME NEW t \in X PROVE new[t] \in X \cup {None}
    <3>1. CASE t = g
      <4>1. new[t] = p BY <1>1, <3>1
      <4>2. p # None => p \in DOMAIN par /\ p \in AncestorsOrSelf(par, p)
        BY AncestorsUpward
      <4> QED BY <4>1, <4>2
    <3>2. CASE t # g /\ t \in M /\ t \in AncestorsOrSelf(par, h)
      <4>1. new[t] = par[t] /\ par[t] \in M BY <1>1, <1>3, <3>2
      <4>2. par[t] # None => par[t] \in AncestorsOrSelf(par, h)
        BY <1>3, <3>2, AncestorsUpward DEF Upward
      <4> QED BY <1>3, <4>1, <4>2
    <3>3. CASE t # g /\ p # None /\ t \in AncestorsOrSelf(par, p)
      <4>1. new[t] = par[t] BY <1>1, <3>3
      <4>2. p \in DOMAIN par BY <3>3
      <4>3. par[t] # None => par[t] \in AncestorsOrSelf(par, p) /\ par[t] \in DOMAIN par
        BY <3>3, <4>2, AncestorsUpward DEF Upward
      <4> QED BY <3>3, <4>1, <4>3
    <3> QED BY <3>1, <3>2, <3>3
  <2>3. Upward(new, X) BY <1>1, <2>2 DEF Upward
  <2> QED BY <2>1, <2>3, AncestorsLeast
<1>6. ASSUME NEW h \in M
      PROVE  \A a \in M : a \in AncestorsOrSelf(par, h) => a \in AncestorsOrSelf(new, h)
  <2> DEFINE T == AncestorsOrSelf(new, h) \cup (DOMAIN par \ M)
  <2>1. Upward(new, AncestorsOrSelf(new, h)) /\ h \in AncestorsOrSelf(new, h)
    BY <1>1, <1>2, <1>3, AncestorsUpward
  <2>2. ASSUME NEW t \in T PROVE par[t] \in T \cup {None}
    <3>1. CASE t = g BY <1>3, <3>1 DEF Rooted
    <3>2. CASE t # g /\ t \in AncestorsOrSelf(new, h) BY <1>1, <2>1, <3>2 DEF Upward
    <3>3. CASE t \in DOMAIN par \ M BY <1>3, <3>3 DEF Upward
    <3> QED BY <3>1, <3>2, <3>3
  <2>3. Upward(par, T) BY <1>1, <2>1, <2>2 DEF Upward
  <2>4. h \in T BY <2>1
  <2> HIDE DEF T
  <2>5. AncestorsOrSelf(par, h) \subseteq T BY <2>3, <2>4, AncestorsLeast
  <2> QED BY <2>5 DEF T
<1>7. ASSUME NEW h \in M, p # None
      PROVE  AncestorsOrSelf(par, p) \subseteq AncestorsOrSelf(new, h)
  <2>1. g \in AncestorsOrSelf(par, h)
    <3>1. h \in Subtree(par, g) OBVIOUS
    <3> QED BY <3>1, SubtreeIsBelow
  <2>2. g \in AncestorsOrSelf(new, h) BY <1>3, <1>6, <2>1
  <2>3. p \in AncestorsOrSelf(new, h)
    BY <1>1, <1>2, <1>3, <1>7, <2>2, AncestorsUpward DEF Upward
  <2>4. AncestorsOrSelf(new, p) \subseteq AncestorsOrSelf(new, h)
    BY <1>1, <1>2, <1>3, <2>3, AncestorsTransitive
  <2>5. AncestorsOrSelf(new, p) = AncestorsOrSelf(par, p) BY <1>4, <1>7
  <2> QED BY <2>4, <2>5
<1> QED BY <1>2, <1>4, <1>5, <1>6, <1>7 DEF Rehung

\* The pairs after a move of M beneath p: those of M lead to groups of M as
\* before, and to what is above the new parent.
MovedPairs(par, M, p, new) == \A a, d : <<a, d>> \in TreePairs(new) <=>
    \/ <<a, d>> \in TreePairs(par) /\ (d \in M => a \in M)
    \/ d \in M /\ <<a, p>> \in TreePairs(par)

\* That is so for g and what is beneath it; and there is still no cycle.
LEMMA GroupMoved ==
    ASSUME NEW par, Rooted(par), Acyclic(par), NEW g \in DOMAIN par,
           NEW M, M = Subtree(par, g),
           NEW p, p \in DOMAIN par \ M \/ p = None,
           NEW new, new = [par EXCEPT ![g] = p]
    PROVE  Rooted(new) /\ Acyclic(new) /\ MovedPairs(par, M, p, new)
<1>1. /\ DOMAIN new = DOMAIN par /\ new[g] = p
      /\ \A h \in DOMAIN par : h # g => new[h] = par[h]
      /\ None \notin DOMAIN par
  BY DEF Rooted
<1>2. /\ Rooted(new)
      /\ \A h \in DOMAIN par \ M : AncestorsOrSelf(new, h) = AncestorsOrSelf(par, h)
      /\ \A h \in M : \A a : a \in AncestorsOrSelf(new, h) <=>
                \/ a \in M /\ a \in AncestorsOrSelf(par, h)
                \/ p # None /\ a \in AncestorsOrSelf(par, p)
  <2>1. Rooted(new) /\ Rehung(par, M, p, new) BY AncestorsMoved
  <2> QED BY <2>1 DEF Rehung
<1>3. /\ g \in M /\ M \subseteq DOMAIN par /\ Upward(par, DOMAIN par \ M)
      /\ \A t \in M : t # g => par[t] \in M
  BY AroundSubtree
<1>4. ASSUME NEW h \in DOMAIN par \ M
      PROVE  h \in DOMAIN par \ M /\ AncestorsOrSelf(par, h) \subseteq DOMAIN par \ M
  BY <1>3, AncestorsLeast
<1>5. ASSUME NEW h \in DOMAIN new, new[h] # None
      PROVE  h \notin AncestorsOrSelf(new, new[h])
  <2>1. CASE h = g
    <3>1. new[h] = p /\ p \in DOMAIN par \ M BY <1>1, <1>5, <2>1
    <3>2. AncestorsOrSelf(new, new[h]) \subseteq DOMAIN par \ M BY <1>2, <1>4, <3>1
    <3> QED BY <1>3, <2>1, <3>2
  <2>2. CASE h # g /\ h \in M
    <3>1. new[h] = par[h] /\ par[h] \in M BY <1>1, <1>3, <2>2
    <3>2. h \notin AncestorsOrSelf(par, par[h])
      BY <1>1, <1>5, <3>1, AcyclicMeans
    <3>3. p # None => h \notin AncestorsOrSelf(par, p) BY <1>4, <2>2
    <3> QED BY <1>2, <3>1, <3>2, <3>3
  <2>3. CASE h \notin M
    <3>1. new[h] = par[h] /\ h \in DOMAIN par \ M BY <1>1, <1>3, <2>3
    <3>2. par[h] \in DOMAIN par \ M BY <1>3, <1>5, <3>1 DEF Upward
    <3>3. h \notin AncestorsOrSelf(par, par[h])
      BY <1>1, <1>5, <3>1, AcyclicMeans
    <3> QED BY <1>2, <3>1, <3>2, <3>3
  <2> QED BY <2>1, <2>2, <2>3
<1>6. Acyclic(new) BY <1>2, <1>5, AcyclicMeans
<1>7. ASSUME NEW a, NEW d
      PROVE  <<a, d>> \in TreePairs(new) <=>
                \/ <<a, d>> \in TreePairs(par) /\ (d \in M => a \in M)
                \/ d \in M /\ <<a, p>> \in TreePairs(par)
  <2>1. CASE d \in M
    <3>1. <<a, d>> \in TreePairs(new) <=> a \in AncestorsOrSelf(new, d)
      BY <1>1, <1>3, <2>1, PairIn
    <3>2. <<a, d>> \in TreePairs(par) <=> a \in AncestorsOrSelf(par, d)
      BY <1>3, <2>1, PairIn
    <3>3. <<a, p>> \in TreePairs(par) <=> p # None /\ a \in AncestorsOrSelf(par, p)
      BY <1>1, PairIn
    <3> QED BY <1>2, <2>1, <3>1, <3>2, <3>3
  <2>2. CASE d \in DOMAIN par \ M
    <3>1. <<a, d>> \in TreePairs(new) <=> a \in AncestorsOrSelf(new, d) BY <1>1, <2>2, PairIn
    <3>2. <<a, d>> \in TreePairs(par) <=> a \in AncestorsOrSelf(par, d) BY <2>2, PairIn
    <3> QED BY <1>2, <2>2, <3>1, <3>2
  <2>3. CASE d \notin DOMAIN par BY <1>1, <1>3, <2>3, PairIn
  <2> QED BY <2>1, <2>2, <2>3
<1> QED BY <1>2, <1>6, <1>7 DEF MovedPairs

-----------------------------------------------------------------------------
(***************************************************************************)
(* Rows refer to rows there are                                            *)
(***************************************************************************)
\* A transaction works on groups nobody can remove before it commits.
NamesGroups(t) ==
    /\ t.kind \in {"reparent", "regenerate"} => t.group \in DOMAIN parent
    /\ t.kind = "reparent" => /\ t.parent \in DOMAIN parent \cup {None}
                              /\ t.lost \cup t.gained \subseteq Pairs
    /\ t.kind = "regenerate" => t.expected \subseteq Members

RowsHold ==
    /\ DOMAIN parent \subseteq Groups /\ parent \in [DOMAIN parent -> Groups \cup {None}]
    /\ Rooted(parent)
    /\ closure \subseteq Pairs
    /\ member \in [Groups -> SUBSET Members]
    /\ source \in [Groups -> SUBSET DOMAIN parent]
    /\ \A g \in Groups \ DOMAIN parent : member[g] = {} /\ source[g] = {}
    /\ DOMAIN tx = Requests
    /\ \A q \in Requests :
        /\ tx[q] = NoTx \/ tx[q].kind \in {"reparent", "regenerate"}
        /\ NamesGroups(tx[q])

\* The transactions of requests, by their fields.
LEMMA TxKinds ==
    ASSUME NEW g, NEW p, NEW lost, NEW gained, NEW expected
    PROVE  /\ NoTx.kind = "none"
           /\ Reparenting(g, p, lost, gained).kind = "reparent"
           /\ Reparenting(g, p, lost, gained).group = g
           /\ Reparenting(g, p, lost, gained).parent = p
           /\ Reparenting(g, p, lost, gained).lost = lost
           /\ Reparenting(g, p, lost, gained).gained = gained
           /\ Regenerating(g, expected).kind = "regenerate"
           /\ Regenerating(g, expected).group = g
           /\ Regenerating(g, expected).expected = expected
BY DEF NoTx, Reparenting, Regenerating

\* RowsHold says of the tables what GroupsTypeOK says.
LEMMA RowsAreTyped == RowsHold => GroupsTypeOK
<1> SUFFICES ASSUME RowsHold PROVE GroupsTypeOK OBVIOUS
<1>1. parent \in UNION {[E -> Groups \cup {None}] : E \in SUBSET Groups}
  BY DEF RowsHold
<1> QED BY <1>1 DEF RowsHold, NamesGroups, GroupsTypeOK, Existing

\* A group that is created has its parent, no member and no source.
LEMMA CreateRows ==
    ASSUME RowsHold, NEW g \in Groups, NEW p \in Groups \cup {None}, Create(g, p)
    PROVE  RowsHold'
<1>1. /\ g \notin DOMAIN parent /\ (p = None \/ p \in DOMAIN parent)
      /\ parent' = [h \in DOMAIN parent \cup {g} |-> IF h = g THEN p ELSE parent[h]]
      /\ closure' = closure \cup PairsOfNew(g, p)
      /\ UNCHANGED <<member, source, tx>>
  BY DEF Create, HasGroup, Existing
<1>2. /\ DOMAIN parent' = DOMAIN parent \cup {g} /\ parent'[g] = p
      /\ \A h \in DOMAIN parent : parent'[h] = parent[h]
      /\ parent' \in [DOMAIN parent' -> Groups \cup {None}]
  BY <1>1 DEF RowsHold
<1>3. Rooted(parent') BY <1>1, <1>2, GroupsAssumption DEF RowsHold, Rooted
<1>4. PairsOfNew(g, p) \subseteq Pairs BY DEF PairsOfNew, Pairs, RowsHold
<1> QED BY <1>1, <1>2, <1>3, <1>4 DEF RowsHold, NamesGroups, Pairs

\* A group that is removed leaves no row behind that names it.
LEMMA DeleteRows ==
    ASSUME RowsHold, NEW g \in Groups, Delete(g)
    PROVE  RowsHold'
<1>1. /\ g \in DOMAIN parent /\ \A h \in DOMAIN parent : parent[h] # g
      /\ \A q \in Requests : tx[q] # NoTx => tx[q].group # g
      /\ \A q \in Requests : tx[q].kind = "reparent" => tx[q].parent # g
      /\ parent' = [h \in DOMAIN parent \ {g} |-> parent[h]]
      /\ closure' = {c \in closure : g \notin {c[1], c[2]}}
      /\ member' = [member EXCEPT ![g] = {}]
      /\ source' = [h \in Groups |-> IF h = g THEN {} ELSE source[h] \ {g}]
      /\ tx' = tx
  BY DEF Delete, HasGroup, Existing, Children, Open, Reparents
<1>2. /\ DOMAIN parent' = DOMAIN parent \ {g}
      /\ \A h \in DOMAIN parent' : parent'[h] = parent[h]
      /\ parent' \in [DOMAIN parent' -> Groups \cup {None}]
  BY <1>1 DEF RowsHold
<1>3. Rooted(parent') BY <1>1, <1>2 DEF RowsHold, Rooted
<1>4. source' \in [Groups -> SUBSET DOMAIN parent'] BY <1>1, <1>2 DEF RowsHold
<1>5. \A q \in Requests : NamesGroups(tx[q])'
  BY <1>1, <1>2, TxKinds DEF RowsHold, NamesGroups, Pairs
<1>6. /\ member' \in [Groups -> SUBSET Members]
      /\ \A h \in Groups \ DOMAIN parent' : member'[h] = {} /\ source'[h] = {}
  BY <1>1, <1>2 DEF RowsHold
<1> QED BY <1>1, <1>2, <1>3, <1>4, <1>5, <1>6 DEF RowsHold, Pairs

\* A request begins with a transaction that names groups there are.
LEMMA BeginRows ==
    ASSUME RowsHold, NEW q \in Requests, NEW t, NamesGroups(t),
           t.kind \in {"reparent", "regenerate"},
           tx' = [tx EXCEPT ![q] = t], UNCHANGED <<parent, closure, member, source>>
    PROVE  RowsHold'
<1>1. \A r \in Requests : tx'[r] = IF r = q THEN t ELSE tx[r] BY DEF RowsHold
<1>2. NamesGroups(t)' BY DEF NamesGroups, Pairs
<1>3. \A r \in Requests : NamesGroups(tx[r])' 
  BY <1>1, <1>2 DEF RowsHold, NamesGroups, Pairs
<1> QED BY <1>1, <1>3 DEF RowsHold, Pairs

\* What the triggers of a move are about to write are pairs of groups.
LEMMA MovePairs ==
    ASSUME RowsHold, NEW g \in DOMAIN parent, NEW p \in DOMAIN parent \cup {None}
    PROVE  Detached(g) \subseteq Pairs /\ Attached(g, p) \subseteq Pairs
<1>1. \A c \in closure : c[1] \in Groups /\ c[2] \in Groups BY DEF RowsHold, Pairs
<1>2. Moved(g) \subseteq Groups BY <1>1 DEF Moved
<1>3. {c[1] : c \in {x \in closure : x[2] = p}} \subseteq Groups BY <1>1
<1> QED BY <1>2, <1>3 DEF Detached, Attached, Pairs, RowsHold

\* The end of a transaction, whichever way.
LEMMA EndRows ==
    ASSUME RowsHold, NEW q \in Requests, tx' = [tx EXCEPT ![q] = NoTx],
           DOMAIN parent' = DOMAIN parent, parent' \in [DOMAIN parent -> Groups \cup {None}],
           Rooted(parent'), closure' \subseteq Pairs,
           member' \in [Groups -> SUBSET Members], source' = source,
           \A g \in Groups \ DOMAIN parent : member'[g] = {}
    PROVE  RowsHold'
<1>1. \A r \in Requests : tx'[r] = IF r = q THEN NoTx ELSE tx[r] BY DEF RowsHold
<1>2. \A r \in Requests : NamesGroups(tx[r])'
  BY <1>1, TxKinds DEF RowsHold, NamesGroups, Pairs
<1> QED BY <1>1, <1>2 DEF RowsHold, Pairs

\* Every step leaves rows that refer to rows there are, requests overlapping or
\* not.
LEMMA StepRows ==
    ASSUME RowsHold, [GroupsNext]_groupVars
    PROVE  RowsHold'
<1>1. ASSUME NEW q \in Requests, NEW g \in Groups, NEW p \in Groups \cup {None}, Reparent(q, g, p)
      PROVE  RowsHold'
  <2> DEFINE t == Reparenting(g, p, Detached(g), Attached(g, p))
  <2>1. /\ g \in DOMAIN parent /\ p \in DOMAIN parent \cup {None}
        /\ tx' = [tx EXCEPT ![q] = t] /\ UNCHANGED <<parent, closure, member, source>>
    BY <1>1 DEF Reparent, HasGroup, Existing
  <2>2. NamesGroups(t) BY <2>1, MovePairs, TxKinds DEF NamesGroups
  <2>3. t.kind \in {"reparent", "regenerate"} BY TxKinds
  <2> HIDE DEF t
  <2> QED BY <2>1, <2>2, <2>3, BeginRows
<1>2. ASSUME NEW q \in Requests, NEW g \in Combined, RegenerateReads(q, g)
      PROVE  RowsHold'
  <2> DEFINE t == Regenerating(g, UNION {member[s] : s \in source[g]})
  <2>1. /\ g \in DOMAIN parent
        /\ tx' = [tx EXCEPT ![q] = t] /\ UNCHANGED <<parent, closure, member, source>>
    BY <1>2 DEF RegenerateReads, HasGroup, Existing
  <2>2. \A s \in source[g] : member[s] \subseteq Members BY <2>1 DEF RowsHold
  <2>3. NamesGroups(t) BY <2>1, <2>2, TxKinds DEF NamesGroups
  <2>4. t.kind \in {"reparent", "regenerate"} BY TxKinds
  <2> HIDE DEF t
  <2> QED BY <2>1, <2>3, <2>4, BeginRows
<1>3. ASSUME NEW q \in Requests, ReparentCommits(q) PROVE RowsHold'
  <2>1. /\ tx[q].kind = "reparent"
        /\ parent' = [parent EXCEPT ![tx[q].group] = tx[q].parent]
        /\ closure' = (closure \ tx[q].lost) \cup tx[q].gained
        /\ tx' = [tx EXCEPT ![q] = NoTx] /\ UNCHANGED <<member, source>>
    BY <1>3 DEF ReparentCommits
  <2>2. /\ tx[q].group \in DOMAIN parent /\ tx[q].parent \in DOMAIN parent \cup {None}
        /\ tx[q].gained \subseteq Pairs
    BY <2>1 DEF RowsHold, NamesGroups
  <2>3. /\ DOMAIN parent' = DOMAIN parent /\ parent' \in [DOMAIN parent -> Groups \cup {None}]
        /\ Rooted(parent')
    BY <2>1, <2>2 DEF RowsHold, Rooted
  <2>4. /\ closure' \subseteq Pairs /\ member' \in [Groups -> SUBSET Members]
        /\ \A g \in Groups \ DOMAIN parent : member'[g] = {}
    BY <2>1, <2>2 DEF RowsHold
  <2> QED BY <2>1, <2>3, <2>4, EndRows
<1>4. ASSUME NEW q \in Requests, RegenerateWrites(q) PROVE RowsHold'
  <2>1. /\ tx[q].kind = "regenerate"
        /\ member' = [member EXCEPT ![tx[q].group] = tx[q].expected]
        /\ tx' = [tx EXCEPT ![q] = NoTx] /\ UNCHANGED <<parent, closure, source>>
    BY <1>4 DEF RegenerateWrites
  <2>2. tx[q].group \in DOMAIN parent /\ tx[q].expected \subseteq Members
    BY <2>1 DEF RowsHold, NamesGroups
  <2>3. /\ member' \in [Groups -> SUBSET Members]
        /\ \A g \in Groups \ DOMAIN parent : member'[g] = {}
    BY <2>1, <2>2 DEF RowsHold
  <2>4. /\ DOMAIN parent' = DOMAIN parent /\ parent' \in [DOMAIN parent -> Groups \cup {None}]
        /\ Rooted(parent') /\ closure' \subseteq Pairs
    BY <2>1 DEF RowsHold
  <2> QED BY <2>1, <2>3, <2>4, EndRows
<1>5. ASSUME NEW q \in Requests, Abort(q) PROVE RowsHold'
  <2>1. tx' = [tx EXCEPT ![q] = NoTx] /\ UNCHANGED <<parent, closure, member, source>>
    BY <1>5 DEF Abort
  <2> QED BY <2>1, EndRows DEF RowsHold
<1>6. ASSUME NEW g \in Groups, NEW x \in Members, Join(x, g) \/ Leave(x, g) PROVE RowsHold'
  <2>1. /\ g \in DOMAIN parent
        /\ \E S \in SUBSET Members : member' = [member EXCEPT ![g] = S]
        /\ UNCHANGED <<parent, closure, source, tx>>
    BY <1>6 DEF Join, Leave, HasGroup, Existing, RowsHold
  <2> QED BY <2>1 DEF RowsHold, NamesGroups, Pairs
<1>7. ASSUME NEW g \in Combined, NEW sources \in SUBSET Groups, SetSources(g, sources)
      PROVE  RowsHold'
  <2>1. /\ g \in DOMAIN parent /\ sources \subseteq DOMAIN parent
        /\ source' = [source EXCEPT ![g] = sources]
        /\ UNCHANGED <<parent, closure, member, tx>>
    BY <1>7 DEF SetSources, HasGroup, Existing
  <2> QED BY <2>1 DEF RowsHold, NamesGroups, Pairs
<1>8. CASE UNCHANGED groupVars BY <1>8 DEF groupVars, RowsHold, NamesGroups, Pairs
<1>9. CASE GroupsNext
  BY <1>1, <1>2, <1>3, <1>4, <1>5, <1>6, <1>7, <1>9, CreateRows, DeleteRows DEF GroupsNext
<1> QED BY <1>8, <1>9

\* To begin with there is no group, and no row that names one.
LEMMA InitRows == GroupsInit => RowsHold
BY GroupsAssumption, TxKinds DEF GroupsInit, RowsHold, NamesGroups, Rooted, Pairs

\* Foreign keys and locks hold, however requests overlap: a row names groups
\* there are, and what hangs on a removed group went with it.
THEOREM GroupsTyped == GroupsSpec => []GroupsTypeOK
<1>1. GroupsSpec => []RowsHold BY InitRows, StepRows, PTL DEF GroupsSpec
<1> QED BY <1>1, RowsAreTyped, PTL

-----------------------------------------------------------------------------
(***************************************************************************)
(* The table is exact while requests do not overlap                        *)
(***************************************************************************)
\* One transaction at a time.
Alone == \A q, r \in Requests : tx[q] # NoTx /\ tx[r] # NoTx => q = r

\* What a transaction has read is so when it commits.
Current(q) ==
    /\ tx[q].kind = "reparent" =>
         /\ tx[q].lost = Detached(tx[q].group)
         /\ tx[q].gained = Attached(tx[q].group, tx[q].parent)
         /\ ~MakesCycle(tx[q].group, tx[q].parent)
    /\ tx[q].kind = "regenerate" =>
         /\ source[tx[q].group] # {}
         /\ tx[q].expected = UNION {member[s] : s \in source[tx[q].group]}

TreeInv == /\ RowsHold /\ Acyclic(parent) /\ closure = TreePairs(parent)
           /\ Alone /\ \A q \in Requests : Current(q)

\* The triggers of an insert write what a new group adds.
LEMMA CreateTree ==
    ASSUME TreeInv, NEW g \in Groups, NEW p \in Groups \cup {None}, Create(g, p)
    PROVE  Acyclic(parent)' /\ closure' = TreePairs(parent')
<1>1. /\ g \notin DOMAIN parent /\ (p = None \/ p \in DOMAIN parent) /\ g # None
      /\ parent' = [h \in DOMAIN parent \cup {g} |-> IF h = g THEN p ELSE parent[h]]
      /\ closure' = closure \cup PairsOfNew(g, p)
  BY GroupsAssumption DEF Create, HasGroup, Existing
<1>2. /\ Acyclic(parent')
      /\ \A a, d : <<a, d>> \in TreePairs(parent') <=>
           \/ <<a, d>> \in closure
           \/ d = g /\ (a = g \/ <<a, p>> \in closure)
  <2>1. /\ Rooted(parent) /\ Acyclic(parent) /\ closure = TreePairs(parent)
    BY DEF TreeInv, RowsHold
  <2>2. PICK new : new = [h \in DOMAIN parent \cup {g} |-> IF h = g THEN p ELSE parent[h]]
    OBVIOUS
  <2>3. /\ Acyclic(new)
        /\ \A a, d : <<a, d>> \in TreePairs(new) <=>
             \/ <<a, d>> \in TreePairs(parent)
             \/ d = g /\ (a = g \/ <<a, p>> \in TreePairs(parent))
    BY <1>1, <2>1, <2>2, GroupAdded
  <2>4. parent' = new BY <1>1, <2>2
  <2> QED BY <2>1, <2>3, <2>4
<1>3. Relates(closure) BY PairIn DEF TreeInv
<1>4. Relates(closure') BY <1>1, <1>3 DEF Relates, PairsOfNew
<1>5. \A a, d : <<a, d>> \in PairsOfNew(g, p) <=> d = g /\ (a = g \/ <<a, p>> \in closure)
  <2>1. ASSUME NEW a, NEW d, <<a, d>> \in PairsOfNew(g, p)
        PROVE  d = g /\ (a = g \/ <<a, p>> \in closure)
    <3>1. CASE <<a, d>> = <<g, g>> BY <3>1
    <3>2. CASE \E c \in {x \in closure : x[2] = p} : <<a, d>> = <<c[1], g>>
      <4>1. d = g /\ a \in {c[1] : c \in {x \in closure : x[2] = p}} BY <3>2
      <4> QED BY <1>3, <4>1, PairsRead
    <3> QED BY <2>1, <3>1, <3>2 DEF PairsOfNew
  <2>2. ASSUME NEW a, <<a, p>> \in closure PROVE <<a, g>> \in PairsOfNew(g, p)
    BY <2>2 DEF PairsOfNew
  <2>3. <<g, g>> \in PairsOfNew(g, p) BY DEF PairsOfNew
  <2> QED BY <2>1, <2>2, <2>3
<1>6. ASSUME NEW a, NEW d
      PROVE  <<a, d>> \in closure' <=> <<a, d>> \in TreePairs(parent')
  <2>1. <<a, d>> \in closure' <=> <<a, d>> \in closure \/ <<a, d>> \in PairsOfNew(g, p)
    BY <1>1
  <2>2. <<a, d>> \in TreePairs(parent') <=> \/ <<a, d>> \in closure
                                            \/ d = g /\ (a = g \/ <<a, p>> \in closure)
    BY <1>2
  <2> QED BY <1>5, <2>1, <2>2
<1> QED BY <1>2, <1>4, <1>6, PairIn, SamePairs

\* The cascade of a deletion removes what was the group's.
LEMMA DeleteTree ==
    ASSUME TreeInv, NEW g \in Groups, Delete(g)
    PROVE  Acyclic(parent)' /\ closure' = TreePairs(parent')
<1>1. /\ g \in DOMAIN parent /\ \A h \in DOMAIN parent : parent[h] # g
      /\ parent' = [h \in DOMAIN parent \ {g} |-> parent[h]]
      /\ closure' = {c \in closure : g \notin {c[1], c[2]}}
  BY DEF Delete, HasGroup, Existing, Children
<1>2. /\ Acyclic(parent')
      /\ \A a, d : <<a, d>> \in TreePairs(parent') <=> <<a, d>> \in closure /\ a # g /\ d # g
  BY <1>1, GroupRemoved DEF TreeInv, RowsHold
<1>3. Relates(closure) /\ Relates(closure') BY <1>1, PairIn DEF TreeInv, Relates
<1>4. \A a, d : <<a, d>> \in closure' <=> <<a, d>> \in TreePairs(parent') BY <1>1, <1>2
<1> QED BY <1>2, <1>3, <1>4, PairIn, SamePairs

\* The triggers of a move write what a move of the subtree changes.
LEMMA MoveTree ==
    ASSUME TreeInv, NEW q \in Requests, ReparentCommits(q)
    PROVE  Acyclic(parent)' /\ closure' = TreePairs(parent')
<1>1. PICK g, p : g = tx[q].group /\ p = tx[q].parent OBVIOUS
<1>2. /\ g \in DOMAIN parent /\ p \in DOMAIN parent \cup {None}
      /\ parent' = [parent EXCEPT ![g] = p]
      /\ closure' = (closure \ Detached(g)) \cup Attached(g, p)
      /\ <<g, p>> \notin closure
  BY <1>1 DEF ReparentCommits, TreeInv, RowsHold, NamesGroups, Current, MakesCycle
<1>3. /\ Rooted(parent) /\ Acyclic(parent) /\ None \notin DOMAIN parent
      /\ closure = TreePairs(parent)
  BY DEF TreeInv, RowsHold, Rooted
<1>a. Relates(closure) BY <1>3, PairIn
<1>4. PICK M : M = Subtree(parent, g) OBVIOUS
<1>5. \A d : d \in M <=> <<g, d>> \in closure
  BY <1>2, <1>3, <1>4, SubtreeIsBelow, PairIn
<1>6. p \in DOMAIN parent \ M \/ p = None BY <1>2, <1>5
<1>7. /\ Acyclic(parent')
      /\ \A a, d : <<a, d>> \in TreePairs(parent') <=>
           \/ <<a, d>> \in closure /\ (d \in M => a \in M)
           \/ d \in M /\ <<a, p>> \in closure
  <2>1. Acyclic(parent') /\ MovedPairs(parent, M, p, parent')
    BY <1>2, <1>3, <1>4, <1>6, GroupMoved
  <2> QED BY <1>3, <2>1 DEF MovedPairs
<1>8. ASSUME NEW d PROVE d \in Moved(g) <=> d \in M
  <2>1. d \in {c[2] : c \in {x \in closure : x[1] = g}} <=> <<g, d>> \in closure
    BY <1>a, PairsRead
  <2> QED BY <1>5, <2>1 DEF Moved
<1>9. \A a, d : <<a, d>> \in Detached(g) <=> <<a, d>> \in closure /\ d \in M /\ a \notin M
  BY <1>8 DEF Detached
<1>10. \A a, d : <<a, d>> \in Attached(g, p) <=> d \in M /\ <<a, p>> \in closure
  <2>1. ASSUME NEW a
        PROVE  a \in {c[1] : c \in {x \in closure : x[2] = p}} <=> <<a, p>> \in closure
    BY <1>a, PairsRead
  <2> QED BY <1>8, <2>1 DEF Attached
<1>11. \A a, d : <<a, d>> \in closure' <=> <<a, d>> \in TreePairs(parent')
  BY <1>2, <1>7, <1>9, <1>10
<1>12. Relates(closure') BY <1>2, <1>a DEF Relates, Attached
<1> QED BY <1>7, <1>11, <1>12, PairIn, SamePairs

\* With no transaction open there is none afterwards, and nothing to disturb.
LEMMA NoneOpen ==
    ASSUME RowsHold, Open = {}, tx' = tx
    PROVE  Alone' /\ \A q \in Requests : Current(q)'
<1>1. \A q \in Requests : tx'[q] = NoTx BY DEF Open
<1> QED BY <1>1, TxKinds DEF Alone, Current

\* A transaction that begins is the only one, and has read what is there.
LEMMA OneOpens ==
    ASSUME RowsHold, Open = {}, NEW q \in Requests, NEW t, tx' = [tx EXCEPT ![q] = t],
           UNCHANGED <<closure, member, source>>,
           t.kind = "reparent" => /\ t.lost = Detached(t.group)
                                  /\ t.gained = Attached(t.group, t.parent)
                                  /\ ~MakesCycle(t.group, t.parent),
           t.kind = "regenerate" => /\ source[t.group] # {}
                                    /\ t.expected = UNION {member[s] : s \in source[t.group]}
    PROVE  Alone' /\ \A r \in Requests : Current(r)'
<1>1. \A r \in Requests : tx'[r] = IF r = q THEN t ELSE NoTx BY DEF RowsHold, Open
<1>2. Current(q)'
  BY <1>1 DEF Current, Detached, Attached, Moved, MakesCycle
<1> QED BY <1>1, <1>2, TxKinds DEF Alone, Current

\* Once the only transaction ends there is none.
LEMMA LastCloses ==
    ASSUME RowsHold, Alone, NEW q \in Requests, tx[q] # NoTx, tx' = [tx EXCEPT ![q] = NoTx]
    PROVE  Alone' /\ \A r \in Requests : Current(r)'
<1>1. \A r \in Requests : tx'[r] = NoTx BY DEF RowsHold, Alone
<1> QED BY <1>1, TxKinds DEF Alone, Current

\* Every step of requests that do not overlap keeps the table exact.
LEMMA StepTree ==
    ASSUME ~Overlap, TreeInv, [GroupsNext]_groupVars
    PROVE  TreeInv'
<1>0. RowsHold' /\ RowsHold BY StepRows DEF TreeInv
<1> SUFFICES /\ Acyclic(parent)' /\ closure' = TreePairs(parent')
             /\ Alone' /\ \A q \in Requests : Current(q)'
  BY <1>0 DEF TreeInv
<1>1. ASSUME NEW g \in Groups, \/ Delete(g) \/ \E p \in Groups \cup {None} : Create(g, p)
                               \/ \E x \in Members : Join(x, g) \/ Leave(x, g)
                               \/ \E sources \in SUBSET Groups : SetSources(g, sources)
      PROVE  Alone' /\ \A q \in Requests : Current(q)'
  <2>1. Open = {} /\ tx' = tx BY <1>1 DEF Delete, Create, Join, Leave, SetSources, Free
  <2> QED BY <1>0, <2>1, NoneOpen
<1>2. ASSUME UNCHANGED <<parent, closure>> PROVE Acyclic(parent)' /\ closure' = TreePairs(parent')
  BY <1>2 DEF TreeInv
<1>3. ASSUME NEW q \in Requests, NEW g \in Groups, NEW p \in Groups \cup {None}, Reparent(q, g, p)
      PROVE  Alone' /\ \A r \in Requests : Current(r)'
  <2> DEFINE t == Reparenting(g, p, Detached(g), Attached(g, p))
  <2>1. /\ Open = {} /\ ~MakesCycle(g, p) /\ tx' = [tx EXCEPT ![q] = t]
        /\ UNCHANGED <<closure, member, source>>
    BY <1>3 DEF Reparent, Free
  <2>2. /\ t.kind = "reparent" /\ t.group = g /\ t.parent = p
        /\ t.lost = Detached(g) /\ t.gained = Attached(g, p)
    BY TxKinds
  <2> HIDE DEF t
  <2> QED BY <1>0, <2>1, <2>2, OneOpens
<1>4. ASSUME NEW q \in Requests, NEW g \in Combined, RegenerateReads(q, g)
      PROVE  Alone' /\ \A r \in Requests : Current(r)'
  <2> DEFINE t == Regenerating(g, UNION {member[s] : s \in source[g]})
  <2>1. /\ Open = {} /\ source[g] # {} /\ tx' = [tx EXCEPT ![q] = t]
        /\ UNCHANGED <<closure, member, source>>
    BY <1>4 DEF RegenerateReads, Free
  <2>2. /\ t.kind = "regenerate" /\ t.group = g
        /\ t.expected = UNION {member[s] : s \in source[g]}
    BY TxKinds
  <2> HIDE DEF t
  <2> QED BY <1>0, <2>1, <2>2, OneOpens
<1>5. ASSUME NEW q \in Requests, ReparentCommits(q) \/ RegenerateWrites(q) \/ Abort(q)
      PROVE  Alone' /\ \A r \in Requests : Current(r)'
  <2>1. tx[q] # NoTx /\ tx' = [tx EXCEPT ![q] = NoTx]
    BY <1>5, TxKinds DEF ReparentCommits, RegenerateWrites, Abort
  <2> QED BY <1>0, <2>1, LastCloses DEF TreeInv
<1>6. CASE UNCHANGED groupVars
  <2>1. UNCHANGED <<parent, closure, member, source, tx>> BY <1>6 DEF groupVars
  <2>2. Alone' BY <2>1 DEF TreeInv, Alone
  <2>3. ASSUME NEW q \in Requests PROVE Current(q)'
    <3>1. Current(q) BY DEF TreeInv
    <3> QED BY <2>1, <3>1 DEF Current, Detached, Attached, Moved, MakesCycle
  <2> QED BY <1>2, <2>1, <2>2, <2>3
<1>7. ASSUME NEW g \in Groups, \/ \E x \in Members : Join(x, g) \/ Leave(x, g)
                               \/ \E sources \in SUBSET Groups : SetSources(g, sources)
      PROVE  UNCHANGED <<parent, closure>>
  BY <1>7 DEF Join, Leave, SetSources
<1>8. ASSUME NEW q \in Requests, \/ RegenerateWrites(q) \/ Abort(q)
                                 \/ \E g \in Combined : RegenerateReads(q, g)
                                 \/ \E g \in Groups, p \in Groups \cup {None} : Reparent(q, g, p)
      PROVE  UNCHANGED <<parent, closure>>
  BY <1>8 DEF RegenerateWrites, Abort, RegenerateReads, Reparent
<1>9. CASE GroupsNext
  <2>1. Combined \subseteq Groups BY GroupsAssumption
  <2>2. Alone' /\ \A q \in Requests : Current(q)'
    BY <1>1, <1>3, <1>4, <1>5, <1>9, <2>1 DEF GroupsNext
  <2>3. Acyclic(parent)' /\ closure' = TreePairs(parent')
    BY <1>2, <1>7, <1>8, <1>9, <2>1, CreateTree, DeleteTree, MoveTree DEF GroupsNext
  <2> QED BY <2>2, <2>3
<1> QED BY <1>6, <1>9

\* An empty tree and an empty table.
LEMMA InitTree == GroupsInit => TreeInv
<1> SUFFICES ASSUME GroupsInit PROVE TreeInv OBVIOUS
<1>1. DOMAIN parent = {} /\ closure = {} /\ \A q \in Requests : tx[q] = NoTx
  BY DEF GroupsInit
<1>2. Acyclic(parent) BY <1>1 DEF Acyclic
<1>3. closure = TreePairs(parent) BY <1>1 DEF TreePairs
<1> QED BY <1>1, <1>2, <1>3, InitRows, TxKinds DEF TreeInv, Alone, Current

\* Requests one at a time, the table of the closure and the tree agree, and what
\* a transaction has read is so when it commits.
THEOREM TreeInvariance == ASSUME ~Overlap PROVE GroupsSpec => []TreeInv
BY InitTree, StepTree, PTL DEF GroupsSpec

\* The triggers keep the table exactly what the parents say, and the tree
\* without cycles, for any tree and any sequence of inserts, moves, deletions.
THEOREM ClosureStaysExact == ASSUME ~Overlap PROVE GroupsSpec => []ClosureIsExact
<1>1. TreeInv => ClosureIsExact
  BY DEF TreeInv, ClosureIsExact, Acyclic, TreePairs, Existing
<1> QED BY <1>1, TreeInvariance, PTL

\* A regenerated group holds exactly the direct members of its sources.
THEOREM RegeneratedAsRead == ASSUME ~Overlap PROVE GroupsSpec => RegeneratedIsTheSources
<1>1. TreeInv => \A q \in Requests : RegenerateWrites(q) =>
        /\ source[tx[q].group] # {}
        /\ member'[tx[q].group] = UNION {member[s] : s \in source[tx[q].group]}
  BY DEF TreeInv, RowsHold, NamesGroups, Current, RegenerateWrites
<1> QED BY <1>1, TreeInvariance, PTL DEF GroupsSpec, RegeneratedIsTheSources


-----------------------------------------------------------------------------
(***************************************************************************)
(* What is read off the tree and the table                                 *)
(***************************************************************************)
\* Two groups have a group in common beneath them exactly if one is above the
\* other: cousins never collide because of the cohort they share.
LEMMA CommonMeansAbove ==
    ASSUME NEW par, Rooted(par), NEW a \in DOMAIN par, NEW b \in DOMAIN par
    PROVE  Subtree(par, a) \cap Subtree(par, b) # {} <=>
             a \in AncestorsOrSelf(par, b) \/ b \in AncestorsOrSelf(par, a)
<1>1. ASSUME NEW d \in Subtree(par, a) \cap Subtree(par, b)
      PROVE  a \in AncestorsOrSelf(par, b) \/ b \in AncestorsOrSelf(par, a)
  <2>1. /\ d \in DOMAIN par
        /\ a \in AncestorsOrSelf(par, d) /\ b \in AncestorsOrSelf(par, d)
    BY SubtreeIsBelow
  <2> QED BY <2>1, AncestorsLinear
<1>2. a \in Subtree(par, a) /\ b \in Subtree(par, b) BY AncestorsUpward, SubtreeIsBelow
<1>3. a \in AncestorsOrSelf(par, b) => b \in Subtree(par, a) BY SubtreeIsBelow
<1>4. b \in AncestorsOrSelf(par, a) => a \in Subtree(par, b) BY SubtreeIsBelow
<1> QED BY <1>1, <1>2, <1>3, <1>4

\* The query widens one side both ways, and so finds whatever is above or
\* beneath a group of it.
LEMMA WidenedBothWays ==
    ASSUME NEW par, NEW a \in SUBSET DOMAIN par, NEW g \in DOMAIN par, Rooted(par)
    PROVE  GroupsCollide(TreePairs(par), a, {g}) <=>
             \E h \in a : h \in AncestorsOrSelf(par, g) \/ g \in AncestorsOrSelf(par, h)
<1>1. PICK cl : cl = TreePairs(par) OBVIOUS
<1>2. Relates(cl) BY <1>1, PairIn
<1>3. \A x, d : <<x, d>> \in cl <=> d \in DOMAIN par /\ x \in AncestorsOrSelf(par, d)
  BY <1>1, PairIn
<1>4. GroupsCollide(cl, a, {g}) <=> g \in ConflictGroupIds(cl, a) BY DEF GroupsCollide
<1>5. ASSUME NEW h \in a, <<h, g>> \in cl \/ <<g, h>> \in cl
      PROVE  g \in ConflictGroupIds(cl, a)
  BY <1>5 DEF ConflictGroupIds
<1>6. ASSUME g \in ConflictGroupIds(cl, a), g \notin a
      PROVE  \E h \in a : <<h, g>> \in cl \/ <<g, h>> \in cl
  <2>1. PICK c \in cl : (c[1] \in a \/ c[2] \in a) /\ (g = c[1] \/ g = c[2])
    BY <1>6 DEF ConflictGroupIds
  <2>2. c = <<c[1], c[2]>> BY <1>2 DEF Relates
  <2> QED BY <1>6, <2>1, <2>2
<1>7. g \in AncestorsOrSelf(par, g) BY AncestorsUpward
<1>8. \A h \in a : h \in DOMAIN par OBVIOUS
<1> QED BY <1>1, <1>3, <1>4, <1>5, <1>6, <1>7, <1>8

\* Sessions collide over their groups exactly if some group attends both.
THEOREM CollisionsAreShared == ASSUME ~Overlap PROVE GroupsSpec => []CollisionMeansCommonGroup
<1>1. ASSUME TreeInv, NEW a \in SUBSET Existing(parent), NEW g \in Existing(parent)
      PROVE  GroupsCollide(closure, a, {g}) <=>
               (UNION {Subtree(parent, h) : h \in a}) \cap Subtree(parent, g) # {}
  <2>1. /\ Rooted(parent) /\ closure = TreePairs(parent)
        /\ a \in SUBSET DOMAIN parent /\ g \in DOMAIN parent
    BY <1>1 DEF TreeInv, RowsHold, Existing
  <2>2. GroupsCollide(closure, a, {g}) <=>
          \E h \in a : h \in AncestorsOrSelf(parent, g) \/ g \in AncestorsOrSelf(parent, h)
    BY <2>1, WidenedBothWays
  <2>3. \A h \in a : Subtree(parent, h) \cap Subtree(parent, g) # {} <=>
          h \in AncestorsOrSelf(parent, g) \/ g \in AncestorsOrSelf(parent, h)
    BY <2>1, CommonMeansAbove
  <2> QED BY <2>2, <2>3
<1>2. TreeInv => CollisionMeansCommonGroup
  <2> SUFFICES ASSUME TreeInv, NEW a \in SUBSET Existing(parent), NEW g \in Existing(parent)
               PROVE  LET attending == [h \in Existing(parent) |-> Subtree(parent, h)]
                          attended(b) == UNION {attending[h] : h \in b}
                      IN  GroupsCollide(closure, a, {g}) <=> attended(a) \cap attending[g] # {}
    BY DEF CollisionMeansCommonGroup
  <2>1. {[h \in Existing(parent) |-> Subtree(parent, h)][i] : i \in a}
          = {Subtree(parent, h) : h \in a}
    OBVIOUS
  <2> QED BY <1>1, <2>1
<1> QED BY <1>2, TreeInvariance, PTL

\* One step of the loop that collects the groups of a request: a set that holds
\* the parents of its groups still does so once a seed has been visited, the
\* seed is in it if it exists, and nothing that was in it is lost.
LEMMA VisitKeepsParents ==
    ASSUME NEW par, Rooted(par), NEW marked \in SUBSET DOMAIN par,
           ClosedUnderParent(par, marked), NEW seed
    PROVE  LET sent == Visit(par, marked, seed) IN
           /\ sent \in SUBSET DOMAIN par /\ ClosedUnderParent(par, sent)
           /\ marked \subseteq sent
           /\ seed \in DOMAIN par => seed \in sent
<1>1. CASE seed \notin DOMAIN par BY <1>1 DEF Visit, Existing
<1>2. CASE seed \in DOMAIN par
  <2>1. PICK up : up = marked \cup AncestorsOrSelf(par, seed) OBVIOUS
  <2>2. /\ Upward(par, AncestorsOrSelf(par, seed))
        /\ seed \in AncestorsOrSelf(par, seed)
    BY <1>2, AncestorsUpward
  <2>3. up \subseteq DOMAIN par /\ ClosedUnderParent(par, up) /\ seed \in up
    BY <2>1, <2>2 DEF Upward, ClosedUnderParent
  <2>4. PICK down : down = {d \in DOMAIN par : \A T \in SUBSET DOMAIN par :
            seed \in T /\ (\A t \in T : Children(par, t) \ up \subseteq T) => d \in T}
    OBVIOUS
  <2>5. Visit(par, marked, seed) = up \cup down
    BY <1>2, <2>1, <2>4 DEF Visit, LeastClosed, Existing
  <2>6. ASSUME NEW d \in down, d \notin up PROVE par[d] \in down \cup {None}
    <3>1. d \in DOMAIN par BY <2>4
    <3>2. SUFFICES ASSUME par[d] \notin down, par[d] # None PROVE FALSE
      BY <3>1 DEF Rooted
    <3>3. par[d] \in DOMAIN par BY <3>1, <3>2 DEF Rooted
    <3>4. PICK T \in SUBSET DOMAIN par :
            /\ seed \in T /\ \A t \in T : Children(par, t) \ up \subseteq T
            /\ par[d] \notin T
      BY <2>4, <3>2, <3>3
    <3>5. /\ seed \in T \ {d}
          /\ \A t \in T \ {d} : Children(par, t) \ up \subseteq T \ {d}
      <4>1. seed # d BY <2>3, <2>6
      <4>2. \A t \in T : d \notin Children(par, t) BY <3>4 DEF Children
      <4> QED BY <3>4, <4>1, <4>2
    <3>6. T \ {d} \in SUBSET DOMAIN par OBVIOUS
    <3> QED BY <2>4, <2>6, <3>5, <3>6
  <2> QED BY <2>1, <2>3, <2>4, <2>5, <2>6 DEF ClosedUnderParent
<1> QED BY <1>1, <1>2

\* The sets of groups that are marked: one for each part of the seeds, and each
\* visits one seed more.
Marks(par, seeds, mark) ==
    /\ mark \in [SUBSET (DOMAIN seeds) -> SUBSET DOMAIN par]
    /\ ConflictClosure(par, seeds) = mark[DOMAIN seeds]
    /\ mark[{}] = {}
    /\ \A s \in SUBSET (DOMAIN seeds) : s # {} =>
          \E i \in s : mark[s] = Visit(par, mark[s \ {i}], seeds[i])

\* The fold over the seeds is such a one.
LEMMA SeedsAreVisited ==
    ASSUME NEW par, Rooted(par), NEW n \in Nat, NEW seeds, DOMAIN seeds = 1 .. n
    PROVE  \E mark : Marks(par, seeds, mark)
<1> DEFINE D == DOMAIN seeds
           Fold(f) == f = [s \in SUBSET D |->
                             IF s = {} THEN {} ELSE Visit(par, f[s \ {Max(s)}], seeds[Max(s)])]
           mark == CHOOSE f : Fold(f)
<1>1. IsFiniteSet(D) /\ D \subseteq Nat BY FS_Interval
<1>2. \A s \in SUBSET D : s # {} => Max(s) \in s
  <2> TAKE s \in SUBSET D
  <2>1. IsFiniteSet(s) /\ s \in SUBSET Nat BY <1>1, FS_Subset
  <2> QED BY <2>1, GreatestOf
<1>3. \A marked \in SUBSET DOMAIN par : \A seed : Visit(par, marked, seed) \in SUBSET DOMAIN par
  <2> SUFFICES ASSUME NEW marked \in SUBSET DOMAIN par, NEW seed
               PROVE  Visit(par, marked, seed) \in SUBSET DOMAIN par
    OBVIOUS
  <2> QED BY AncestorsAre DEF Visit, LeastClosed, Existing
<1>4. PICK f \in [SUBSET D -> SUBSET DOMAIN par] : Fold(f)
  <2>1. PICK pick : pick = [s \in SUBSET D |-> Max(s)] OBVIOUS
  <2>2. PICK step : step = [z \in D \X SUBSET DOMAIN par |-> Visit(par, z[2], seeds[z[1]])]
    OBVIOUS
  <2>3. step \in [D \X SUBSET DOMAIN par -> SUBSET DOMAIN par] BY <1>3, <2>2
  <2>4. \A s \in SUBSET D : s # {} => pick[s] \in s BY <1>2, <2>1
  <2> HIDE DEF D
  <2>5. PICK f \in [SUBSET D -> SUBSET DOMAIN par] : Folded(D, pick, {}, step, f)
    BY <1>1, <2>3, <2>4, FoldExists
  <2>6. \A s \in SUBSET D : f[s] = (IF s = {} THEN {} ELSE step[<<pick[s], f[s \ {pick[s]}]>>])
    BY <2>5 DEF Folded
  <2>7. ASSUME NEW s \in SUBSET D, s # {}
        PROVE  f[s] = Visit(par, f[s \ {Max(s)}], seeds[Max(s)])
    <3>1. pick[s] = Max(s) /\ Max(s) \in D BY <1>2, <2>1, <2>7
    <3>2. f[s \ {Max(s)}] \in SUBSET DOMAIN par BY <2>5
    <3>3. \A i \in D, marked \in SUBSET DOMAIN par :
            step[<<i, marked>>] = Visit(par, marked, seeds[i])
      BY <2>2
    <3> QED BY <2>6, <2>7, <3>1, <3>2, <3>3
  <2>8. f = [s \in SUBSET D |-> f[s]] BY <2>5
  <2>9. f[{}] = {} BY <2>6
  <2> QED BY <2>5, <2>7, <2>8, <2>9
<1>5. Fold(mark)
  <2> HIDE DEF Fold
  <2> QED BY <1>4
<1>6. ConflictClosure(par, seeds) = mark[D]
  BY DEF ConflictClosure, FoldLeft, MapThenFoldSet
<1>7. /\ mark[{}] = {}
      /\ \A s \in SUBSET D : s # {} => mark[s] = Visit(par, mark[s \ {Max(s)}], seeds[Max(s)])
  <2> HIDE DEF mark
  <2> QED BY <1>5
<1> HIDE DEF mark
<1>8. mark = [s \in SUBSET D |-> mark[s]] BY <1>5
<1> HIDE DEF D
<1>9. \A s \in SUBSET D : mark[s] \in SUBSET DOMAIN par
  <2> DEFINE Cases == {s \in SUBSET D : mark[s] \in SUBSET DOMAIN par}
  <2>1. {} \in Cases BY <1>7
  <2>2. ASSUME NEW s \in SUBSET D, s # {}, s \ {Max(s)} \in Cases PROVE s \in Cases
    <3>1. mark[s \ {Max(s)}] \in SUBSET DOMAIN par BY <2>2
    <3>2. mark[s] = Visit(par, mark[s \ {Max(s)}], seeds[Max(s)]) BY <1>7, <2>2
    <3>3. PICK marked, seed : marked = mark[s \ {Max(s)}] /\ seed = seeds[Max(s)] OBVIOUS
    <3>4. marked \in SUBSET DOMAIN par /\ mark[s] = Visit(par, marked, seed) BY <3>1, <3>2, <3>3
    <3>5. Visit(par, marked, seed) \in SUBSET DOMAIN par BY <1>3, <3>4
    <3>6. mark[s] \in SUBSET DOMAIN par BY <3>4, <3>5
    <3> QED BY <3>6
  <2>3. \A s \in SUBSET D : s # {} => \E x \in s : (s \ {x} \in Cases => s \in Cases)
    <3> HIDE DEF Cases
    <3> QED BY <1>2, <2>2
  <2>4. \A s \in SUBSET D : s \in Cases
    <3> HIDE DEF Cases
    <3> QED BY <1>1, <2>1, <2>3, PartsInduction
  <2> QED BY <2>4
<1>10. mark \in [SUBSET D -> SUBSET DOMAIN par] BY <1>8, <1>9
<1>11. ASSUME NEW s \in SUBSET D, s # {}
       PROVE  \E i \in s : mark[s] = Visit(par, mark[s \ {i}], seeds[i])
  BY <1>2, <1>7, <1>11
<1>12. Marks(par, seeds, mark) BY <1>6, <1>7, <1>10, <1>11 DEF Marks, D
<1> QED BY <1>12

\* Whatever seeds are visited, in whatever order: those that exist are marked,
\* and the parent of what is marked.
THEOREM SentAreWellFormed ==
    ASSUME NEW par, Rooted(par), NEW n \in Nat, NEW seeds, DOMAIN seeds = 1 .. n
    PROVE  LET sent == ConflictClosure(par, seeds) IN
           /\ \A i \in 1 .. n : seeds[i] \in DOMAIN par => seeds[i] \in sent
           /\ ClosedUnderParent(par, sent)
<1>1. PICK D : D = DOMAIN seeds OBVIOUS
<1>2. PICK mark : Marks(par, seeds, mark) BY SeedsAreVisited
<1>3. /\ mark \in [SUBSET D -> SUBSET DOMAIN par]
      /\ ConflictClosure(par, seeds) = mark[D]
      /\ mark[{}] = {}
      /\ \A s \in SUBSET D : s # {} =>
            \E i \in s : mark[s] = Visit(par, mark[s \ {i}], seeds[i])
  BY <1>1, <1>2 DEF Marks
<1> DEFINE Right(s) == /\ ClosedUnderParent(par, mark[s])
                       /\ \A i \in s : seeds[i] \in DOMAIN par => seeds[i] \in mark[s]
           Cases == {s \in SUBSET D : Right(s)}
<1>4. {} \in Cases BY <1>3 DEF ClosedUnderParent
<1>5. ASSUME NEW s \in SUBSET D, s # {}
      PROVE  \E x \in s : (s \ {x} \in Cases => s \in Cases)
  <2>1. PICK i \in s : mark[s] = Visit(par, mark[s \ {i}], seeds[i]) BY <1>3, <1>5
  <2>2. PICK t : t = s \ {i} OBVIOUS
  <2>3. mark[t] \in SUBSET DOMAIN par BY <1>3, <2>2
  <2>4. ASSUME Right(t) PROVE Right(s)
    <3>0. mark[s] = Visit(par, mark[t], seeds[i]) BY <2>1, <2>2
    <3>1. /\ ClosedUnderParent(par, mark[s])
          /\ mark[t] \subseteq mark[s]
          /\ seeds[i] \in DOMAIN par => seeds[i] \in mark[s]
      BY <2>3, <2>4, <3>0, VisitKeepsParents
    <3> QED BY <2>2, <2>4, <3>1
  <2> HIDE DEF Right
  <2> QED BY <2>2, <2>4
<1>6. IsFiniteSet(D) BY <1>1, FS_Interval
<1>7. \A s \in SUBSET D : s \in Cases
  <2> HIDE DEF Cases
  <2> QED BY <1>4, <1>5, <1>6, PartsInduction
<1>8. Right(D) BY <1>7
<1> QED BY <1>1, <1>3, <1>8

\* Two groups that are above each other are one.
LEMMA AncestorsAntisymmetric ==
    ASSUME NEW par, Rooted(par), Acyclic(par), NEW g \in DOMAIN par, NEW h,
           h \in AncestorsOrSelf(par, g), g \in AncestorsOrSelf(par, h)
    PROVE  h = g
<1>1. SUFFICES ASSUME h # g PROVE FALSE OBVIOUS
<1>2. par[g] # None /\ h \in AncestorsOrSelf(par, par[g]) BY <1>1, AncestorsUnfold
<1>3. par[g] \in DOMAIN par BY <1>2 DEF Rooted
<1>4. g \in AncestorsOrSelf(par, par[g]) BY <1>2, <1>3, AncestorsTransitive
<1> QED BY <1>2, <1>4, AcyclicMeans

\* A group beneath an attached one adds nobody and is no maximal group.
LEMMA NestedAddsNothing ==
    ASSUME NEW par, Rooted(par), Acyclic(par), NEW size, NEW mem,
           NEW a \in SUBSET DOMAIN par, NEW g \in Below(par, a) \ a
    PROVE  DeriveCapacity(par, size, mem, a \cup {g}) = DeriveCapacity(par, size, mem, a)
<1>1. PICK top \in a : g \in Subtree(par, top) BY DEF Below
<1>2. g \in DOMAIN par /\ top \in AncestorsOrSelf(par, g) /\ top # g
  BY <1>1, SubtreeIsBelow
<1>3. Below(par, a \cup {g}) = Below(par, a)
  <2>1. Subtree(par, g) \subseteq Subtree(par, top)
    <3> SUFFICES ASSUME NEW d \in Subtree(par, g) PROVE d \in Subtree(par, top) OBVIOUS
    <3>1. d \in DOMAIN par /\ g \in AncestorsOrSelf(par, d) BY <1>2, SubtreeIsBelow
    <3>2. top \in AncestorsOrSelf(par, d) BY <1>2, <3>1, AncestorsTransitive
    <3> QED BY <3>1, <3>2, SubtreeIsBelow
  <2> QED BY <2>1 DEF Below
<1>4. Maximal(par, a \cup {g}) = Maximal(par, a)
  <2>1. g \notin Maximal(par, a \cup {g}) /\ g \notin Maximal(par, a) BY <1>2 DEF Maximal
  <2>2. ASSUME NEW h \in a, h \in Maximal(par, a) PROVE h \in Maximal(par, a \cup {g})
    <3>1. SUFFICES ASSUME g \in AncestorsOrSelf(par, h) PROVE FALSE BY <2>2 DEF Maximal
    <3>2. top \in AncestorsOrSelf(par, h) BY <1>2, <3>1, AncestorsTransitive
    <3>3. top = h BY <2>2, <3>2 DEF Maximal
    <3>4. g \in AncestorsOrSelf(par, top) /\ top \in AncestorsOrSelf(par, g) BY <1>2, <3>1, <3>3
    <3>5. g = top BY <1>2, <3>4, AncestorsAntisymmetric
    <3> QED BY <1>2, <3>5
  <2>3. ASSUME NEW h \in a, h \in Maximal(par, a \cup {g}) PROVE h \in Maximal(par, a)
    BY <2>3 DEF Maximal
  <2>4. /\ Maximal(par, a) \subseteq a
        /\ Maximal(par, a \cup {g}) \subseteq a \cup {g}
    BY DEF Maximal
  <2> QED BY <2>1, <2>2, <2>3, <2>4
<1>5. /\ a \cap Existing(par) = a
      /\ (a \cup {g}) \cap Existing(par) = a \cup {g}
  BY <1>2 DEF Existing
<1>6. Enrolled(par, mem, a \cup {g}) = Enrolled(par, mem, a) BY <1>3 DEF Enrolled
<1>7. EstimateOf(par, size, a \cup {g}) = EstimateOf(par, size, a) BY <1>4 DEF EstimateOf
<1> QED BY <1>5, <1>6, <1>7 DEF DeriveCapacity

\* What is read off the tree and the table is right: who collides, which groups
\* a request carries, and how many people a set of groups stands for.
THEOREM GroupsReadRight == ASSUME ~Overlap PROVE GroupsSpec => []GroupsAreReadRight
<1>1. ASSUME TreeInv PROVE SentGroupsAreWellFormed
  <2> SUFFICES ASSUME NEW seeds \in [1..2 -> Groups]
               PROVE  LET sent == ConflictClosure(parent, seeds) IN
                      /\ Range(seeds) \cap Existing(parent) \subseteq sent
                      /\ ClosedUnderParent(parent, sent)
    BY DEF SentGroupsAreWellFormed
  <2>1. Rooted(parent) BY <1>1 DEF TreeInv, RowsHold
  <2>2. DOMAIN seeds = 1 .. 2 /\ 2 \in Nat OBVIOUS
  <2>3. /\ \A i \in 1 .. 2 : seeds[i] \in DOMAIN parent => seeds[i] \in ConflictClosure(parent, seeds)
        /\ ClosedUnderParent(parent, ConflictClosure(parent, seeds))
    BY <2>1, <2>2, SentAreWellFormed
  <2> QED BY <2>2, <2>3 DEF Range, Existing
<1>2. ASSUME TreeInv PROVE NestedGroupsCountOnce
  <2> SUFFICES ASSUME Open = {}, NEW a \in SUBSET Existing(parent), NEW g \in Below(parent, a) \ a
               PROVE  DeriveCapacity(parent, SizeOf, member, a \cup {g})
                        = DeriveCapacity(parent, SizeOf, member, a)
    BY DEF NestedGroupsCountOnce
  <2>1. Rooted(parent) /\ Acyclic(parent) BY <1>2 DEF TreeInv, RowsHold
  <2> QED BY <2>1, NestedAddsNothing DEF Existing
<1>3. TreeInv => SentGroupsAreWellFormed /\ NestedGroupsCountOnce BY <1>1, <1>2
<1>4. GroupsSpec => []TreeInv BY TreeInvariance
<1>5. GroupsSpec => []CollisionMeansCommonGroup BY CollisionsAreShared
<1> QED BY <1>3, <1>4, <1>5, PTL DEF GroupsAreReadRight

=============================================================================
