--------------------------- MODULE SilenceProofs ---------------------------
(***************************************************************************)
(* Normalization keeps what rules do together, and exploration finds it,   *)
(* for any rules and any numbers of cells, ports and variables.            *)
(***************************************************************************)
EXTENDS Silence, FiniteSetTheorems, SequenceTheorems, WellFoundedInduction, TLAPS

-----------------------------------------------------------------------------
(* Sets of steps *)

\* a state leads to itself
LEMMA FromSelf == ASSUME NEW s, NEW T PROVE s \in SilentlyFrom(s, T)
  BY DEF SilentlyFrom

\* a silent step leads on
LEMMA FromStep ==
  ASSUME NEW s, NEW T, NEW x \in T, x[2] = None, x[1] \in SilentlyFrom(s, T)
  PROVE  x[3] \in SilentlyFrom(s, T)
  BY DEF SilentlyFrom

\* what a state leads to is in every set with it that no silent step leaves
LEMMA FromInduction ==
  ASSUME NEW s, NEW T, NEW S, s \in S,
         \A x \in T : x[2] = None /\ x[1] \in S => x[3] \in S
  PROVE  SilentlyFrom(s, T) \subseteq S
<1> DEFINE ends == {s} \cup {x[3] : x \in T}
           C == S \cap ends
<1>1. C \in SUBSET ends /\ s \in C
  OBVIOUS
<1>2. \A x \in T : x[2] = None /\ x[1] \in C => x[3] \in C
  OBVIOUS
<1> QED
  BY <1>1, <1>2 DEF SilentlyFrom

\* and so does what follows
LEMMA FromTrans ==
  ASSUME NEW s, NEW T, NEW t \in SilentlyFrom(s, T)
  PROVE  SilentlyFrom(t, T) \subseteq SilentlyFrom(s, T)
<1> DEFINE S == SilentlyFrom(s, T)
<1>1. \A x \in T : x[2] = None /\ x[1] \in S => x[3] \in S
  BY FromStep
<1> QED
  BY <1>1, FromInduction

\* more steps lead to more states
LEMMA FromMono ==
  ASSUME NEW s, NEW T, NEW U, T \subseteq U
  PROVE  SilentlyFrom(s, T) \subseteq SilentlyFrom(s, U)
<1> DEFINE S == SilentlyFrom(s, U)
<1>1. \A x \in T : x[2] = None /\ x[1] \in S => x[3] \in S
  BY FromStep
<1> QED
  BY <1>1, FromSelf, FromInduction

\* a state with no silent step leads to itself only
LEMMA FromStuck ==
  ASSUME NEW s, NEW T, \A x \in T : x[2] = None => x[1] # s
  PROVE  SilentlyFrom(s, T) = {s}
<1> DEFINE S == {s}
<1>1. s \in S /\ \A x \in T : x[2] = None /\ x[1] \in S => x[3] \in S
  OBVIOUS
<1> HIDE DEF S
<1>2. SilentlyFrom(s, T) \subseteq S
  BY <1>1, FromInduction
<1> QED
  BY <1>2, FromSelf DEF S

\* the elements of PortSteps
PortStep(s, z, T) == z \in T /\ z[2] # None /\ z[1] \in SilentlyFrom(s, T)

\* a port step is a step that fires, from where silent steps lead
LEMMA PortStepsAre ==
  ASSUME NEW T, NEW y
  PROVE  y \in PortSteps(T) <=> \E s, z : PortStep(s, z, T) /\ y = <<s, z[2], z[3]>>
<1>1. ASSUME NEW s, NEW z, PortStep(s, z, T), y = <<s, z[2], z[3]>>
      PROVE  y \in PortSteps(T)
  <2>1. s \in {x[1] : x \in T}
    <3>1. CASE z[1] = s
      BY <1>1, <3>1 DEF PortStep
    <3>2. CASE z[1] # s
      BY <1>1, <3>2, FromStuck DEF PortStep
    <3> QED
      BY <3>1, <3>2
  <2> QED
    BY <1>1, <2>1 DEF PortStep, PortSteps
<1>2. ASSUME y \in PortSteps(T)
      PROVE  \E s, z : PortStep(s, z, T) /\ y = <<s, z[2], z[3]>>
  BY <1>2 DEF PortStep, PortSteps
<1> QED
  BY <1>1, <1>2

\* a step that those of G can make, silent ones first
Follows(y, G) == \E u \in SilentlyFrom(y[1], G) : <<u, y[2], y[3]>> \in G

\* a step follows from those it is one of
LEMMA OwnFollow ==
  ASSUME NEW G, NEW y \in G, y = <<y[1], y[2], y[3]>> PROVE Follows(y, G)
  BY FromSelf DEF Follows

\* silent steps that follow lead to nothing new
LEMMA FollowsFrom ==
  ASSUME NEW T, NEW G, \A y \in T : Follows(y, G), NEW s
  PROVE  SilentlyFrom(s, T) \subseteq SilentlyFrom(s, G)
<1> DEFINE S == SilentlyFrom(s, G)
<1>1. ASSUME NEW x \in T, x[2] = None, x[1] \in S PROVE x[3] \in S
  <2>1. PICK u \in SilentlyFrom(x[1], G) : <<u, None, x[3]>> \in G
    BY <1>1 DEF Follows
  <2>2. u \in S
    BY <1>1, <2>1, FromTrans
  <2> DEFINE z == <<u, None, x[3]>>
  <2>3. z \in G /\ z[1] = u /\ z[2] = None /\ z[3] = x[3]
    BY <2>1
  <2> HIDE DEF z
  <2> QED
    BY <2>2, <2>3, FromStep
<1> QED
  BY <1>1, FromSelf, FromInduction

\* steps that follow make no new port steps
LEMMA Sound ==
  ASSUME NEW T, NEW G, \A y \in T : Follows(y, G)
  PROVE  PortSteps(T) \subseteq PortSteps(G)
<1> SUFFICES ASSUME NEW y \in PortSteps(T) PROVE y \in PortSteps(G)
  OBVIOUS
<1>1. PICK s, z : PortStep(s, z, T) /\ y = <<s, z[2], z[3]>>
  BY PortStepsAre
<1>2. z[1] \in SilentlyFrom(s, G)
  BY <1>1, FollowsFrom DEF PortStep
<1>3. PICK u \in SilentlyFrom(z[1], G) : <<u, z[2], z[3]>> \in G
  BY <1>1 DEF PortStep, Follows
<1>4. u \in SilentlyFrom(s, G)
  BY <1>2, <1>3, FromTrans
<1> DEFINE w == <<u, z[2], z[3]>>
<1>5. PortStep(s, w, G) /\ y = <<s, w[2], w[3]>>
  BY <1>1, <1>3, <1>4 DEF PortStep
<1> QED
  BY <1>5, PortStepsAre

\* rho followed by a step of T is a step of T
Absorbs(T, rho) == \A x \in rho, y \in T : x[3] = y[1] => <<x[1], y[2], y[3]>> \in T

\* silent steps that do nothing more when repeated can go once T absorbs them
LEMMA Removal ==
  ASSUME NEW T, NEW rho, Absorbs(T, rho),
         \A x \in rho : x[2] = None,
         \A x, y \in rho : x[3] = y[1] => y[3] = x[3]
  PROVE  PortSteps(T \cup rho) \subseteq PortSteps(T)
<1> DEFINE Reach(s) == SilentlyFrom(s, T) \cup {x[3] : x \in {z \in rho : z[1] \in SilentlyFrom(s, T)}}
<1>1. ASSUME NEW s PROVE SilentlyFrom(s, T \cup rho) \subseteq Reach(s)
  <2>1. ASSUME NEW x \in T, x[2] = None, x[1] \in Reach(s) PROVE x[3] \in Reach(s)
    <3>1. CASE x[1] \in SilentlyFrom(s, T)
      BY <2>1, <3>1, FromStep
    <3>2. CASE x[1] \notin SilentlyFrom(s, T)
      <4>1. PICK z \in rho : z[1] \in SilentlyFrom(s, T) /\ z[3] = x[1]
        BY <2>1, <3>2
      <4> DEFINE w == <<z[1], x[2], x[3]>>
      <4>2. w \in T /\ w[1] = z[1] /\ w[2] = None /\ w[3] = x[3]
        BY <2>1, <4>1 DEF Absorbs
      <4> HIDE DEF w
      <4>3. x[3] \in SilentlyFrom(s, T)
        BY <4>1, <4>2, FromStep
      <4> QED
        BY <4>3
    <3> QED
      BY <3>1, <3>2
  <2>2. ASSUME NEW x \in rho, x[1] \in Reach(s) PROVE x[3] \in Reach(s)
    <3>1. CASE x[1] \in SilentlyFrom(s, T)
      BY <2>2, <3>1
    <3>2. CASE x[1] \notin SilentlyFrom(s, T)
      <4>1. PICK z \in rho : z[1] \in SilentlyFrom(s, T) /\ z[3] = x[1]
        BY <2>2, <3>2
      <4>2. x[3] = z[3]
        BY <4>1
      <4> QED
        BY <4>1, <4>2
    <3> QED
      BY <3>1, <3>2
  <2>3. s \in Reach(s)
    BY FromSelf
  <2> HIDE DEF Reach
  <2> QED
    BY <2>1, <2>2, <2>3, FromInduction
<1> SUFFICES ASSUME NEW y \in PortSteps(T \cup rho) PROVE y \in PortSteps(T)
  OBVIOUS
<1>2. PICK s, z : PortStep(s, z, T \cup rho) /\ y = <<s, z[2], z[3]>>
  BY PortStepsAre
<1>3. z \in T /\ z[2] # None /\ z[1] \in Reach(s)
  BY <1>1, <1>2 DEF PortStep
<1>4. \E w : PortStep(s, w, T) /\ y = <<s, w[2], w[3]>>
  <2>1. CASE z[1] \in SilentlyFrom(s, T)
    BY <1>2, <1>3, <2>1 DEF PortStep
  <2>2. CASE z[1] \notin SilentlyFrom(s, T)
    <3>1. PICK x \in rho : x[1] \in SilentlyFrom(s, T) /\ x[3] = z[1]
      BY <1>3, <2>2
    <3> DEFINE w == <<x[1], z[2], z[3]>>
    <3>2. w \in T /\ w[1] = x[1] /\ w[2] = z[2] /\ w[3] = z[3]
      BY <1>3, <3>1 DEF Absorbs
    <3> HIDE DEF w
    <3> QED
      BY <1>2, <1>3, <3>1, <3>2 DEF PortStep
  <2> QED
    BY <2>1, <2>2
<1> QED
  BY <1>4, PortStepsAre

\* more steps make more port steps
LEMMA PortStepsMono ==
  ASSUME NEW T, NEW U, T \subseteq U PROVE PortSteps(T) \subseteq PortSteps(U)
<1> SUFFICES ASSUME NEW y \in PortSteps(T) PROVE y \in PortSteps(U)
  OBVIOUS
<1>1. PICK s, z : PortStep(s, z, T) /\ y = <<s, z[2], z[3]>>
  BY PortStepsAre
<1>2. PortStep(s, z, U)
  BY <1>1, FromMono DEF PortStep
<1> QED
  BY <1>1, <1>2, PortStepsAre

\* the places of the numbers of a finite set are 1, 2, ... up to how many there are
LEMMA Places ==
  ASSUME NEW I, I \subseteq Nat, IsFiniteSet(I)
  PROVE  /\ Cardinality(I) \in Nat
         /\ \A i \in I : Place(I, i) \in 1 .. Cardinality(I)
         /\ \A i, k \in I : Place(I, i) = Place(I, k) => i = k
         /\ \A n \in 1 .. Cardinality(I) : \E i \in I : Place(I, i) = n
<1> DEFINE upto(i) == {j \in I : j <= i}
           N == Cardinality(I)
           f == [i \in I |-> Place(I, i)]
<1>1. N \in Nat
  BY FS_CardinalityType
<1>2. ASSUME NEW i \in I
      PROVE  /\ IsFiniteSet(upto(i)) /\ i \in upto(i)
             /\ Place(I, i) \in 1 .. N
  <2>1. upto(i) \in SUBSET I /\ i \in upto(i)
    OBVIOUS
  <2>2. IsFiniteSet(upto(i)) /\ Cardinality(upto(i)) <= N
    BY <2>1, FS_Subset
  <2>3. Cardinality(upto(i)) \in Nat /\ Cardinality(upto(i)) # 0
    BY <2>1, <2>2, FS_CardinalityType, FS_EmptySet
  <2> QED
    BY <1>1, <2>1, <2>2, <2>3 DEF Place
<1>3. ASSUME NEW i \in I, NEW k \in I, i < k PROVE Place(I, i) # Place(I, k)
  <2>1. upto(i) \in SUBSET upto(k) /\ k \notin upto(i) /\ k \in upto(k)
    <3>1. i \in Nat /\ k \in Nat
      OBVIOUS
    <3>2. k \notin upto(i) /\ k \in upto(k)
      BY <1>3, <3>1
    <3>3. ASSUME NEW j \in I, j <= i PROVE j <= k
      <4>1. j \in Nat
        OBVIOUS
      <4> QED
        BY <1>3, <3>1, <3>3, <4>1
    <3> QED
      BY <3>2, <3>3
  <2> QED
    BY <1>2, <2>1, FS_Subset DEF Place
<1>4. ASSUME NEW i \in I, NEW k \in I, Place(I, i) = Place(I, k) PROVE i = k
  <2>1. i \in Nat /\ k \in Nat
    OBVIOUS
  <2> QED
    BY <1>3, <1>4, <2>1
<1>5. f \in Injection(I, 1 .. N)
  BY <1>2, <1>4 DEF Injection, IsInjective
<1>6. IsFiniteSet(1 .. N) /\ Cardinality(1 .. N) = N
  BY <1>1, FS_Interval
<1>7. f \in Surjection(I, 1 .. N)
  BY <1>5, <1>6, FS_Injection
<1>8. \A n \in 1 .. N : \E i \in I : Place(I, i) = n
  BY <1>7 DEF Surjection
<1> QED
  BY <1>1, <1>2, <1>4, <1>8

\* Select makes a sequence of the elements it is to select
LEMMA SelectIs ==
  ASSUME NEW S, NEW rs \in Seq(S), NEW I \in SUBSET DOMAIN rs
  PROVE  /\ Select(rs, I) \in Seq(S)
         /\ \A n \in DOMAIN Select(rs, I) : \E i \in I : Select(rs, I)[n] = rs[i]
         /\ \A i \in I : \E n \in DOMAIN Select(rs, I) : Select(rs, I)[n] = rs[i]
<1> DEFINE N == Cardinality(I)
           at(n) == CHOOSE i \in I : Place(I, i) = n
           sel == Select(rs, I)
<1>1. I \subseteq Nat /\ IsFiniteSet(I)
  <2>1. DOMAIN rs = 1 .. Len(rs) /\ Len(rs) \in Nat
    OBVIOUS
  <2>2. IsFiniteSet(1 .. Len(rs))
    BY <2>1, FS_Interval
  <2> QED
    BY <2>1, <2>2, FS_Subset
<1>2. N \in Nat
  BY <1>1, Places
<1>3. ASSUME NEW n \in 1 .. N PROVE at(n) \in I /\ Place(I, at(n)) = n
  BY <1>1, Places
<1>4. DOMAIN sel = 1 .. N /\ \A n \in 1 .. N : sel[n] = rs[at(n)]
  BY DEF Select
<1> HIDE DEF at
<1>5. \A n \in 1 .. N : sel[n] \in S
  BY <1>3, <1>4
<1>6. sel \in Seq(S)
  <2>1. sel = [n \in 1 .. N |-> sel[n]]
    BY <1>4 DEF Select
  <2> QED
    BY <1>2, <1>5, <2>1
<1>7. ASSUME NEW i \in I PROVE \E n \in DOMAIN sel : sel[n] = rs[i]
  <2>1. Place(I, i) \in 1 .. N
    BY <1>1, Places
  <2>2. at(Place(I, i)) = i
    BY <1>1, <1>3, <2>1, Places
  <2> QED
    BY <1>4, <2>1, <2>2
<1>8. \A n \in DOMAIN sel : \E i \in I : sel[n] = rs[i]
  BY <1>3, <1>4
<1> QED
  BY <1>6, <1>7, <1>8

-----------------------------------------------------------------------------
(* Partial functions from cells to BOOLEAN *)

\* a partial function and its domain
LEMMA PredIs ==
  ASSUME NEW f \in R!Pred
  PROVE  /\ f \in [DOMAIN f -> BOOLEAN]
         /\ DOMAIN f \subseteq Cell /\ \A k \in DOMAIN f : f[k] \in BOOLEAN
<1>1. PICK S \in SUBSET Cell : f \in [S -> BOOLEAN]
  BY DEF R!Pred
<1> QED
  BY <1>1

\* any function from cells is one
LEMMA MakePred ==
  ASSUME NEW S \in SUBSET Cell, NEW f \in [S -> BOOLEAN] PROVE f \in R!Pred
  BY DEF R!Pred

\* Over takes the first function where it is defined, else the second
LEMMA OverIs ==
  ASSUME NEW f, NEW g
  PROVE  /\ DOMAIN R!Over(f, g) = DOMAIN f \cup DOMAIN g
         /\ \A k \in DOMAIN f : R!Over(f, g)[k] = f[k]
         /\ \A k \in DOMAIN g : k \notin DOMAIN f => R!Over(f, g)[k] = g[k]
  BY DEF R!Over

\* it makes a partial function of two
LEMMA OverPred ==
  ASSUME NEW f \in R!Pred, NEW g \in R!Pred PROVE R!Over(f, g) \in R!Pred
<1>1. DOMAIN f \cup DOMAIN g \subseteq Cell
  BY PredIs
<1>2. R!Over(f, g) \in [DOMAIN f \cup DOMAIN g -> BOOLEAN]
  BY PredIs DEF R!Over
<1> QED
  BY <1>1, <1>2, MakePred

\* what Restrict makes of one
LEMMA RestrictPred ==
  ASSUME NEW f \in R!Pred, NEW S \in SUBSET DOMAIN f
  PROVE  /\ R!Restrict(f, S) \in R!Pred /\ DOMAIN R!Restrict(f, S) = S
         /\ \A k \in S : R!Restrict(f, S)[k] = f[k]
<1>1. R!Restrict(f, S) \in [S -> BOOLEAN] /\ S \subseteq Cell
  BY PredIs DEF R!Restrict
<1> QED
  BY <1>1, MakePred DEF R!Restrict

\* a state overridden by a partial function is a state
LEMMA OverState ==
  ASSUME NEW f \in R!Pred, NEW s \in R!State
  PROVE  /\ R!Over(f, s) \in R!State
         /\ \A k \in Cell : R!Over(f, s)[k] = IF k \in DOMAIN f THEN f[k] ELSE s[k]
<1>1. DOMAIN f \subseteq Cell /\ \A k \in DOMAIN f : f[k] \in BOOLEAN
  BY PredIs
<1>2. DOMAIN s = Cell /\ \A k \in Cell : s[k] \in BOOLEAN
  BY DEF R!State
<1>3. DOMAIN f \cup DOMAIN s = Cell
  BY <1>1, <1>2
<1> QED
  BY <1>1, <1>2, <1>3 DEF R!Over, R!State

\* states with the same values are the same
LEMMA SameState ==
  ASSUME NEW s \in R!State, NEW t \in R!State, \A k \in Cell : s[k] = t[k] PROVE s = t
  BY DEF R!State

\* the parts of a rule
LEMMA RuleIs ==
  ASSUME NEW r \in R!Rule
  PROVE  /\ r.guard \in R!Pred /\ r.assign \in R!Pred
         /\ r.port \in Cell \cup PortId \cup {None}
         /\ r = [port |-> r.port, guard |-> r.guard, assign |-> r.assign]
  BY DEF R!Rule

\* trim removes assignments only of what the guard requires
LEMMA TrimIs ==
  ASSUME NEW r \in R!Rule
  PROVE  /\ R!trim(r) \in R!Rule
         /\ R!trim(r).port = r.port /\ R!trim(r).guard = r.guard
         /\ \A k : k \in DOMAIN R!trim(r).assign <=>
                     k \in DOMAIN r.assign /\ ~(k \in DOMAIN r.guard /\ r.guard[k] = r.assign[k])
         /\ \A k \in DOMAIN R!trim(r).assign : R!trim(r).assign[k] = r.assign[k]
<1> DEFINE S == {k \in DOMAIN r.assign : ~(k \in DOMAIN r.guard /\ r.guard[k] = r.assign[k])}
           a == R!Restrict(r.assign, S)
<1>1. a \in R!Pred /\ DOMAIN a = S /\ \A k \in S : a[k] = r.assign[k]
  BY RuleIs, RestrictPred
<1>2. R!trim(r) = [r EXCEPT !.assign = a]
  BY RuleIs DEF R!trim
<1> HIDE DEF a
<1>3. /\ R!trim(r) \in R!Rule
      /\ R!trim(r).port = r.port /\ R!trim(r).guard = r.guard /\ R!trim(r).assign = a
  BY <1>1, <1>2 DEF R!Rule
<1> QED
  BY <1>1, <1>3

\* what a rule makes of a state is what it makes of it once trimmed
LEMMA TrimSteps ==
  ASSUME NEW r \in R!Rule PROVE R!Steps(R!trim(r)) = R!Steps(r)
<1>1. ASSUME NEW s \in R!State, R!Holds(r.guard, s)
      PROVE  R!Over(R!trim(r).assign, s) = R!Over(r.assign, s)
  <2>1. r.assign \in R!Pred /\ R!trim(r).assign \in R!Pred
    BY TrimIs, RuleIs
  <2>2. ASSUME NEW k \in Cell
        PROVE  R!Over(R!trim(r).assign, s)[k] = R!Over(r.assign, s)[k]
    BY <1>1, <2>1, OverState, TrimIs DEF R!Holds
  <2> QED
    BY <2>1, <2>2, OverState, SameState
<1> QED
  BY <1>1, TrimIs DEF R!Steps

-----------------------------------------------------------------------------
(* What two rules are combined into *)

\* a state in which a rule fires
Meets(r, s) == s \in R!State /\ R!Holds(r.guard, s)

\* functions that do not disagree agree where both are defined
LEMMA Agree ==
  ASSUME NEW f, NEW g
  PROVE  R!Disagree(f, g) = {} <=> \A k \in DOMAIN f \cap DOMAIN g : f[k] = g[k]
  BY DEF R!Disagree

\* a state in which two predicates hold, if they do not disagree
LEMMA Together ==
  ASSUME NEW f \in R!Pred, NEW g \in R!Pred
  PROVE  R!Disagree(f, g) = {} <=> \E s \in R!State : R!Holds(f, s) /\ R!Holds(g, s)
<1>1. ASSUME R!Disagree(f, g) = {}
      PROVE  \E s \in R!State : R!Holds(f, s) /\ R!Holds(g, s)
  <2> DEFINE no == [k \in Cell |-> FALSE]
             s == R!Over(f, R!Over(g, no))
  <2>1. no \in R!State
    BY DEF R!State
  <2>2. /\ R!Over(g, no) \in R!State /\ s \in R!State
        /\ \A k \in Cell : s[k] = IF k \in DOMAIN f THEN f[k] ELSE R!Over(g, no)[k]
        /\ \A k \in Cell : R!Over(g, no)[k] = IF k \in DOMAIN g THEN g[k] ELSE no[k]
    BY <2>1, OverState
  <2> HIDE DEF s, no
  <2>3. DOMAIN f \subseteq Cell /\ DOMAIN g \subseteq Cell
    BY PredIs
  <2>4. R!Holds(f, s) /\ R!Holds(g, s)
    BY <1>1, <2>2, <2>3, Agree DEF R!Holds
  <2> QED
    BY <2>2, <2>4
<1>2. ASSUME NEW s \in R!State, R!Holds(f, s), R!Holds(g, s) PROVE R!Disagree(f, g) = {}
  BY <1>2, Agree DEF R!Holds
<1> QED
  BY <1>1, <1>2

\* disagreeing is mutual
LEMMA DisagreeSym == ASSUME NEW f, NEW g PROVE R!Disagree(f, g) = {} <=> R!Disagree(g, f) = {}
  BY DEF R!Disagree

\* is_mutex_with is exact
LEMMA MutexExact ==
  ASSUME NEW r1 \in R!Rule, NEW r2 \in R!Rule
  PROVE  R!is_mutex_with(r1, r2) <=>
            {s \in R!State : R!Holds(r1.guard, s) /\ R!Holds(r2.guard, s)} = {}
<1>1. r1.guard \in R!Pred /\ r2.guard \in R!Pred
  BY RuleIs
<1> QED
  BY <1>1, Together DEF R!is_mutex_with

\* both predicates hold where one over the other holds, if they agree
LEMMA OverHolds ==
  ASSUME NEW f \in R!Pred, NEW g \in R!Pred, R!Disagree(f, g) = {}, NEW s
  PROVE  R!Holds(R!Over(f, g), s) <=> R!Holds(f, s) /\ R!Holds(g, s)
<1> DEFINE h == R!Over(f, g)
<1>1. /\ DOMAIN h = DOMAIN f \cup DOMAIN g
      /\ \A k \in DOMAIN f : h[k] = f[k]
      /\ \A k \in DOMAIN g : h[k] = g[k]
  <2>1. \A k \in DOMAIN f \cap DOMAIN g : f[k] = g[k]
    BY Agree
  <2>2. /\ DOMAIN h = DOMAIN f \cup DOMAIN g /\ \A k \in DOMAIN f : h[k] = f[k]
        /\ \A k \in DOMAIN g : k \notin DOMAIN f => h[k] = g[k]
    BY OverIs
  <2> HIDE DEF h
  <2> QED
    BY <2>1, <2>2
<1>2. R!Holds(h, s) <=> R!Holds(f, s) /\ R!Holds(g, s)
  <2> HIDE DEF h
  <2> QED
    BY <1>1 DEF R!Holds
<1> QED
  BY <1>2

\* constrain_guard is exact
LEMMA ConstrainExact ==
  ASSUME NEW r1 \in R!Rule, NEW r2 \in R!Rule
  PROVE  LET both == {s \in R!State : R!Holds(r1.guard, s) /\ R!Holds(r2.guard, s)}
             g    == R!constrain_guard(r1, r2.guard)
         IN  IF both = {} THEN g = None ELSE both = {s \in R!State : R!Holds(g, s)}
<1>1. r1.guard \in R!Pred /\ r2.guard \in R!Pred
  BY RuleIs
<1>2. CASE R!Disagree(r2.guard, r1.guard) = {}
  <2>1. \E s \in R!State : R!Holds(r1.guard, s) /\ R!Holds(r2.guard, s)
    BY <1>1, <1>2, Together
  <2>2. R!constrain_guard(r1, r2.guard) = R!Over(r2.guard, r1.guard)
    BY <1>2 DEF R!constrain_guard
  <2> QED
    BY <1>1, <1>2, <2>1, <2>2, OverHolds
<1>3. CASE R!Disagree(r2.guard, r1.guard) # {}
  BY <1>1, <1>3, Together DEF R!constrain_guard
<1> QED
  BY <1>2, <1>3

\* the steps of a rule
LEMMA StepIs ==
  ASSUME NEW r \in R!Rule, NEW x
  PROVE  x \in R!Steps(r) <=> \E s : Meets(r, s) /\ x = <<s, r.port, R!Over(r.assign, s)>>
  BY DEF R!Steps, Meets

\* the steps of a rule and their states
LEMMA StepStates ==
  ASSUME NEW r \in R!Rule, NEW x \in R!Steps(r)
  PROVE  /\ x = <<x[1], x[2], x[3]>> /\ x[2] = r.port
         /\ Meets(r, x[1]) /\ x[3] = R!Over(r.assign, x[1])
         /\ x[1] \in R!State /\ x[3] \in R!State
<1>1. PICK s : Meets(r, s) /\ x = <<s, r.port, R!Over(r.assign, s)>>
  BY StepIs
<1>2. R!Over(r.assign, s) \in R!State
  BY <1>1, OverState, RuleIs DEF Meets
<1> QED
  BY <1>1, <1>2 DEF Meets

\* the elements of Sequenced
LEMMA SequencedIs ==
  ASSUME NEW P, NEW Q, NEW x
  PROVE  x \in R!Sequenced(P, Q) <=>
            \E p \in P, q \in Q : q[1] = p[3] /\ x = <<p[1], q[2], q[3]>>
  BY DEF R!Sequenced

\* what firing r1 and then r2 takes and gives
LEMMA SequencedSteps ==
  ASSUME NEW r1 \in R!Rule, NEW r2 \in R!Rule, NEW x
  PROVE  x \in R!Sequenced(R!Steps(r1), R!Steps(r2)) <=>
            \E s : /\ Meets(r1, s) /\ Meets(r2, R!Over(r1.assign, s))
                  /\ x = <<s, r2.port, R!Over(r2.assign, R!Over(r1.assign, s))>>
<1>1. ASSUME NEW p \in R!Steps(r1), NEW q \in R!Steps(r2), q[1] = p[3], x = <<p[1], q[2], q[3]>>
      PROVE  /\ Meets(r1, p[1]) /\ Meets(r2, R!Over(r1.assign, p[1]))
             /\ x = <<p[1], r2.port, R!Over(r2.assign, R!Over(r1.assign, p[1]))>>
  BY <1>1, StepStates
<1>2. ASSUME NEW s, Meets(r1, s), Meets(r2, R!Over(r1.assign, s)),
             x = <<s, r2.port, R!Over(r2.assign, R!Over(r1.assign, s))>>
      PROVE  x \in R!Sequenced(R!Steps(r1), R!Steps(r2))
  <2> DEFINE t == R!Over(r1.assign, s)
             p == <<s, r1.port, t>>
             q == <<t, r2.port, R!Over(r2.assign, t)>>
  <2>1. p \in R!Steps(r1) /\ q \in R!Steps(r2)
    BY <1>2, StepIs
  <2>2. p[1] = s /\ p[3] = t /\ q[1] = t /\ q[2] = r2.port /\ q[3] = R!Over(r2.assign, t)
    OBVIOUS
  <2> HIDE DEF p, q
  <2> QED
    BY <1>2, <2>1, <2>2, SequencedIs
<1> QED
  BY <1>1, <1>2, SequencedIs

\* the guard and the assignments of compose, before they are trimmed
JointGuard(r1, r2) ==
    R!Over(r1.guard, R!Restrict(r2.guard, DOMAIN r2.guard \ DOMAIN R!After(r1)))
JointAssign(r1, r2) ==
    R!Over(r2.assign, R!Restrict(r1.assign, DOMAIN r1.assign \ DOMAIN R!After(r2)))
Joint(r1, r2) == [port |-> r2.port, guard |-> JointGuard(r1, r2), assign |-> JointAssign(r1, r2)]

\* what holds after a rule
LEMMA AfterIs ==
  ASSUME NEW r \in R!Rule
  PROVE  /\ DOMAIN R!After(r) = DOMAIN r.assign \cup DOMAIN r.guard
         /\ \A k \in DOMAIN R!After(r) :
                R!After(r)[k] = IF k \in DOMAIN r.assign THEN r.assign[k] ELSE r.guard[k]
<1>1. /\ DOMAIN R!After(r) = DOMAIN r.assign \cup DOMAIN r.guard
      /\ \A k \in DOMAIN r.assign : R!After(r)[k] = r.assign[k]
      /\ \A k \in DOMAIN r.guard : k \notin DOMAIN r.assign => R!After(r)[k] = r.guard[k]
  BY OverIs DEF R!After
<1> QED
  BY <1>1

\* the rule compose makes, before it is trimmed
LEMMA JointIs ==
  ASSUME NEW r1 \in R!Rule, NEW r2 \in R!Rule
  PROVE  /\ Joint(r1, r2) \in R!Rule
         /\ DOMAIN JointGuard(r1, r2) = DOMAIN r1.guard \cup (DOMAIN r2.guard \ DOMAIN R!After(r1))
         /\ \A k \in DOMAIN r1.guard : JointGuard(r1, r2)[k] = r1.guard[k]
         /\ \A k \in DOMAIN r2.guard \ DOMAIN R!After(r1) : JointGuard(r1, r2)[k] = r2.guard[k]
         /\ DOMAIN JointAssign(r1, r2) = DOMAIN r2.assign \cup (DOMAIN r1.assign \ DOMAIN R!After(r2))
         /\ \A k \in DOMAIN r2.assign : JointAssign(r1, r2)[k] = r2.assign[k]
         /\ \A k \in DOMAIN r1.assign \ DOMAIN R!After(r2) : JointAssign(r1, r2)[k] = r1.assign[k]
<1> DEFINE g == R!Restrict(r2.guard, DOMAIN r2.guard \ DOMAIN R!After(r1))
           a == R!Restrict(r1.assign, DOMAIN r1.assign \ DOMAIN R!After(r2))
<1>1. /\ r1.guard \in R!Pred /\ r1.assign \in R!Pred
      /\ r2.guard \in R!Pred /\ r2.assign \in R!Pred
  BY RuleIs
<1>2. /\ g \in R!Pred /\ DOMAIN g = DOMAIN r2.guard \ DOMAIN R!After(r1)
      /\ \A k \in DOMAIN g : g[k] = r2.guard[k]
  BY <1>1, RestrictPred
<1>3. /\ a \in R!Pred /\ DOMAIN a = DOMAIN r1.assign \ DOMAIN R!After(r2)
      /\ \A k \in DOMAIN a : a[k] = r1.assign[k]
  BY <1>1, RestrictPred
<1>4. JointGuard(r1, r2) = R!Over(r1.guard, g) /\ JointAssign(r1, r2) = R!Over(r2.assign, a)
  BY DEF JointGuard, JointAssign
<1> HIDE DEF g, a
<1>5. JointGuard(r1, r2) \in R!Pred /\ JointAssign(r1, r2) \in R!Pred
  BY <1>1, <1>2, <1>3, <1>4, OverPred
<1>6. Joint(r1, r2) \in R!Rule
  BY <1>5, RuleIs DEF Joint, R!Rule
<1>7. DOMAIN r1.guard \subseteq DOMAIN R!After(r1) /\ DOMAIN r2.assign \subseteq DOMAIN R!After(r2)
  BY AfterIs
<1>8. /\ DOMAIN JointGuard(r1, r2) = DOMAIN r1.guard \cup (DOMAIN r2.guard \ DOMAIN R!After(r1))
      /\ \A k \in DOMAIN r1.guard : JointGuard(r1, r2)[k] = r1.guard[k]
      /\ \A k \in DOMAIN g : k \notin DOMAIN r1.guard => JointGuard(r1, r2)[k] = g[k]
  <2>1. /\ DOMAIN R!Over(r1.guard, g) = DOMAIN r1.guard \cup DOMAIN g
        /\ \A k \in DOMAIN r1.guard : R!Over(r1.guard, g)[k] = r1.guard[k]
        /\ \A k \in DOMAIN g : k \notin DOMAIN r1.guard => R!Over(r1.guard, g)[k] = g[k]
    BY OverIs
  <2> QED
    BY <1>2, <1>4, <2>1
<1>9. /\ DOMAIN JointAssign(r1, r2) = DOMAIN r2.assign \cup (DOMAIN r1.assign \ DOMAIN R!After(r2))
      /\ \A k \in DOMAIN r2.assign : JointAssign(r1, r2)[k] = r2.assign[k]
      /\ \A k \in DOMAIN a : k \notin DOMAIN r2.assign => JointAssign(r1, r2)[k] = a[k]
  <2>1. /\ DOMAIN R!Over(r2.assign, a) = DOMAIN r2.assign \cup DOMAIN a
        /\ \A k \in DOMAIN r2.assign : R!Over(r2.assign, a)[k] = r2.assign[k]
        /\ \A k \in DOMAIN a : k \notin DOMAIN r2.assign => R!Over(r2.assign, a)[k] = a[k]
    BY OverIs
  <2> QED
    BY <1>3, <1>4, <2>1
<1> QED
  BY <1>2, <1>3, <1>6, <1>7, <1>8, <1>9

\* compose, by that rule
LEMMA ComposeIs ==
  ASSUME NEW r1 \in R!Rule, NEW r2 \in R!Rule
  PROVE  R!compose(r1, r2) = IF R!Disagree(R!After(r1), r2.guard) # {} THEN None
                             ELSE R!trim(Joint(r1, r2))
  BY DEF R!compose, Joint, JointGuard, JointAssign

\* where the composed rule fires: where the two can, one after the other
LEMMA JointMeets ==
  ASSUME NEW r1 \in R!Rule, NEW r2 \in R!Rule, NEW s \in R!State
  PROVE  Meets(r1, s) /\ Meets(r2, R!Over(r1.assign, s)) <=>
            R!Disagree(R!After(r1), r2.guard) = {} /\ Meets(Joint(r1, r2), s)
<1> DEFINE t == R!Over(r1.assign, s)
<1>1. /\ r1.guard \in R!Pred /\ r1.assign \in R!Pred
      /\ r2.guard \in R!Pred /\ r2.assign \in R!Pred
      /\ DOMAIN r1.guard \subseteq Cell /\ DOMAIN r2.guard \subseteq Cell
  BY RuleIs, PredIs
<1>2. /\ t \in R!State
      /\ \A k \in Cell : t[k] = IF k \in DOMAIN r1.assign THEN r1.assign[k] ELSE s[k]
  BY <1>1, OverState
<1> HIDE DEF t
<1>3. Joint(r1, r2).guard = JointGuard(r1, r2)
  BY DEF Joint
<1>4. ASSUME R!Holds(r1.guard, s), R!Holds(r2.guard, t)
      PROVE  R!Disagree(R!After(r1), r2.guard) = {} /\ R!Holds(JointGuard(r1, r2), s)
  <2>1. ASSUME NEW k \in DOMAIN R!After(r1) \cap DOMAIN r2.guard
        PROVE  R!After(r1)[k] = r2.guard[k]
    BY <1>1, <1>2, <1>4, AfterIs DEF R!Holds
  <2>2. ASSUME NEW k \in DOMAIN JointGuard(r1, r2) PROVE s[k] = JointGuard(r1, r2)[k]
    <3>1. CASE k \in DOMAIN r1.guard
      BY <1>4, <3>1, JointIs DEF R!Holds
    <3>2. CASE k \in DOMAIN r2.guard \ DOMAIN R!After(r1)
      <4>1. k \in Cell /\ k \notin DOMAIN r1.assign /\ t[k] = r2.guard[k]
        BY <1>1, <1>4, <3>2, AfterIs DEF R!Holds
      <4>2. t[k] = s[k]
        BY <1>2, <4>1
      <4> QED
        BY <3>2, <4>1, <4>2, JointIs
    <3> QED
      BY <3>1, <3>2, JointIs
  <2> QED
    BY <2>1, <2>2, Agree DEF R!Holds
<1>5. ASSUME R!Disagree(R!After(r1), r2.guard) = {}, R!Holds(JointGuard(r1, r2), s)
      PROVE  R!Holds(r1.guard, s) /\ R!Holds(r2.guard, t)
  <2>1. R!Holds(r1.guard, s)
    BY <1>5, JointIs DEF R!Holds
  <2>2. ASSUME NEW k \in DOMAIN r2.guard PROVE t[k] = r2.guard[k]
    <3>1. CASE k \in DOMAIN R!After(r1)
      <4>1. R!After(r1)[k] = r2.guard[k]
        BY <1>5, <3>1, Agree
      <4> QED
        BY <1>1, <1>2, <2>1, <3>1, <4>1, AfterIs DEF R!Holds
    <3>2. CASE k \notin DOMAIN R!After(r1)
      <4>1. k \in Cell /\ k \notin DOMAIN r1.assign
        BY <1>1, <3>2, AfterIs
      <4>2. t[k] = s[k]
        BY <1>2, <4>1
      <4>3. k \in DOMAIN JointGuard(r1, r2) /\ JointGuard(r1, r2)[k] = r2.guard[k]
        <5>1. k \in DOMAIN r2.guard \ DOMAIN R!After(r1)
          BY <3>2
        <5>2. /\ DOMAIN JointGuard(r1, r2) = DOMAIN r1.guard \cup (DOMAIN r2.guard \ DOMAIN R!After(r1))
              /\ \A i \in DOMAIN r2.guard \ DOMAIN R!After(r1) : JointGuard(r1, r2)[i] = r2.guard[i]
          BY JointIs
        <5> QED
          BY <5>1, <5>2
      <4> QED
        BY <1>5, <4>2, <4>3 DEF R!Holds
    <3> QED
      BY <3>1, <3>2
  <2> QED
    BY <2>1, <2>2 DEF R!Holds
<1> QED
  BY <1>2, <1>3, <1>4, <1>5 DEF Meets, t

\* what r2 looks at and leaves as r1 assigned it
Overread(r1, r2) == (DOMAIN r1.assign \cap DOMAIN r2.guard) \ DOMAIN r2.assign

\* with the same result, unless r2 only reads what r1 assigned
LEMMA JointResult ==
  ASSUME NEW r1 \in R!Rule, NEW r2 \in R!Rule, NEW s \in R!State, Overread(r1, r2) = {}
  PROVE  R!Over(Joint(r1, r2).assign, s) = R!Over(r2.assign, R!Over(r1.assign, s))
<1> DEFINE t == R!Over(r1.assign, s)
           a == JointAssign(r1, r2)
<1>1. r1.assign \in R!Pred /\ r2.assign \in R!Pred /\ a \in R!Pred /\ Joint(r1, r2).assign = a
  <2>1. Joint(r1, r2) \in R!Rule /\ Joint(r1, r2).assign = a
    BY JointIs DEF Joint
  <2> QED
    BY <2>1, RuleIs
<1>2. /\ t \in R!State
      /\ \A k \in Cell : t[k] = IF k \in DOMAIN r1.assign THEN r1.assign[k] ELSE s[k]
  BY <1>1, OverState
<1> HIDE DEF t, a
<1>3. ASSUME NEW k \in Cell PROVE R!Over(a, s)[k] = R!Over(r2.assign, t)[k]
  <2>1. R!Over(a, s)[k] = IF k \in DOMAIN a THEN a[k] ELSE s[k]
    BY <1>1, OverState
  <2>2. R!Over(r2.assign, t)[k] = IF k \in DOMAIN r2.assign THEN r2.assign[k] ELSE t[k]
    BY <1>1, <1>2, OverState
  <2>3. k \in DOMAIN r1.assign /\ k \notin DOMAIN r2.assign => k \notin DOMAIN R!After(r2)
    BY AfterIs DEF Overread
  <2>4. /\ DOMAIN a = DOMAIN r2.assign \cup (DOMAIN r1.assign \ DOMAIN R!After(r2))
        /\ \A i \in DOMAIN r2.assign : a[i] = r2.assign[i]
        /\ \A i \in DOMAIN r1.assign \ DOMAIN R!After(r2) : a[i] = r1.assign[i]
    BY JointIs DEF a
  <2>5. DOMAIN r2.assign \subseteq DOMAIN R!After(r2)
    BY AfterIs
  <2> QED
    BY <1>2, <2>1, <2>2, <2>3, <2>4, <2>5
<1> QED
  BY <1>1, <1>2, <1>3, OverState, SameState DEF t

\* what compose is exact about
LEMMA ComposeExact ==
  ASSUME NEW r1 \in R!Rule, NEW r2 \in R!Rule, SilenceAssumption
  PROVE  LET c   == R!compose(r1, r2)
             seq == R!Sequenced(R!Steps(r1), R!Steps(r2))
         IN  /\ {x[1] : x \in seq} = IF c = None THEN {} ELSE {x[1] : x \in R!Steps(c)}
             /\ Overread(r1, r2) = {} /\ c # None => seq = R!Steps(c)
<1> DEFINE c   == R!compose(r1, r2)
           seq == R!Sequenced(R!Steps(r1), R!Steps(r2))
           j   == Joint(r1, r2)
<1>1. CASE R!Disagree(R!After(r1), r2.guard) # {}
  <2>1. c = None
    BY <1>1, ComposeIs
  <2>2. seq = {}
    BY <1>1, SequencedSteps, JointMeets DEF Meets
  <2> QED
    BY <2>1, <2>2
<1>2. CASE R!Disagree(R!After(r1), r2.guard) = {}
  <2>1. c = R!trim(j)
    BY <1>2, ComposeIs
  <2>2. j \in R!Rule /\ j.port = r2.port
    BY JointIs DEF Joint
  <2>3. c # None /\ R!Steps(c) = R!Steps(j)
    BY <2>1, <2>2, TrimIs, TrimSteps DEF SilenceAssumption, R!WellFormed
  <2> HIDE DEF c, j
  <2>4. ASSUME NEW s PROVE s \in {x[1] : x \in seq} <=> s \in {x[1] : x \in R!Steps(j)}
    <3>1. s \in {x[1] : x \in seq} <=> Meets(r1, s) /\ Meets(r2, R!Over(r1.assign, s))
      <4>1. ASSUME NEW x \in seq, s = x[1] PROVE Meets(r1, s) /\ Meets(r2, R!Over(r1.assign, s))
        BY <4>1, SequencedSteps
      <4>2. ASSUME Meets(r1, s), Meets(r2, R!Over(r1.assign, s)) PROVE s \in {x[1] : x \in seq}
        <5> DEFINE x == <<s, r2.port, R!Over(r2.assign, R!Over(r1.assign, s))>>
        <5>1. x \in seq /\ x[1] = s
          BY <4>2, SequencedSteps
        <5> HIDE DEF x, seq
        <5> QED
          BY <5>1
      <4> QED
        BY <4>1, <4>2
    <3>2. s \in {x[1] : x \in R!Steps(j)} <=> Meets(j, s)
      <4>1. ASSUME NEW x \in R!Steps(j), s = x[1] PROVE Meets(j, s)
        BY <2>2, <4>1, StepStates
      <4>2. ASSUME Meets(j, s) PROVE s \in {x[1] : x \in R!Steps(j)}
        <5> DEFINE x == <<s, j.port, R!Over(j.assign, s)>>
        <5>1. x \in R!Steps(j) /\ x[1] = s
          BY <2>2, <4>2, StepIs
        <5> HIDE DEF x
        <5> QED
          BY <5>1
      <4> QED
        BY <4>1, <4>2
    <3> QED
      BY <1>2, <3>1, <3>2, JointMeets DEF Meets, j
  <2>5. ASSUME Overread(r1, r2) = {}, NEW x PROVE x \in seq <=> x \in R!Steps(j)
    <3>1. x \in seq <=> \E s : /\ Meets(r1, s) /\ Meets(r2, R!Over(r1.assign, s))
                              /\ x = <<s, r2.port, R!Over(r2.assign, R!Over(r1.assign, s))>>
      BY SequencedSteps
    <3>2. x \in R!Steps(j) <=> \E s : Meets(j, s) /\ x = <<s, j.port, R!Over(j.assign, s)>>
      BY <2>2, StepIs
    <3>3. ASSUME NEW s \in R!State
          PROVE  /\ Meets(r1, s) /\ Meets(r2, R!Over(r1.assign, s)) <=> Meets(j, s)
                 /\ R!Over(j.assign, s) = R!Over(r2.assign, R!Over(r1.assign, s))
      BY <1>2, <2>5, JointMeets, JointResult DEF j
    <3> QED
      BY <2>2, <3>1, <3>2, <3>3 DEF Meets
  <2>6. {x[1] : x \in seq} = {x[1] : x \in R!Steps(j)}
    BY <2>4
  <2>7. Overread(r1, r2) = {} => seq = R!Steps(j)
    BY <2>5
  <2> HIDE DEF seq
  <2> QED
    BY <2>3, <2>6, <2>7 DEF c, seq
<1> QED
  BY <1>1, <1>2

Less == {p \in Nat \X Nat : p[1] < p[2]}

\* the naturals are well founded
LEMMA LessWellFounded == IsWellFoundedOn(Less, Nat)
<1>1. OpToRel(<, Nat) = Less
  BY DEF OpToRel, Less
<1> QED
  BY <1>1, NatLessThanWellFounded

\* a set of naturals has a least one
LEMMA Least ==
  ASSUME NEW T, T \subseteq Nat, T # {} PROVE \E x \in T : \A y \in T : x <= y
<1>1. PICK x \in T : \A y \in T : ~ (<<y, x>> \in Less)
  BY LessWellFounded, WFMin
<1>2. ASSUME NEW y \in T PROVE x <= y
  <2>1. x \in Nat /\ y \in Nat
    OBVIOUS
  <2>2. ~(y < x)
    BY <2>1, <1>1 DEF Less
  <2> QED
    BY <2>1, <2>2
<1> QED
  BY <1>2

\* the operators of StepSets are the same for all
LEMMA SameSets ==
  /\ \A T : R!PortSteps(T) = PortSteps(T) /\ A!PortSteps(T) = PortSteps(T)
  /\ \A rs, I : R!Select(rs, I) = Select(rs, I) /\ A!Select(rs, I) = Select(rs, I)
<1>1. \A s, T : R!SilentlyFrom(s, T) = SilentlyFrom(s, T) /\ A!SilentlyFrom(s, T) = SilentlyFrom(s, T)
  BY DEF SilentlyFrom, R!SilentlyFrom, A!SilentlyFrom
<1>2. ASSUME NEW T PROVE R!PortSteps(T) = PortSteps(T) /\ A!PortSteps(T) = PortSteps(T)
  BY <1>1 DEF PortSteps, R!PortSteps, A!PortSteps
<1>3. ASSUME NEW rs, NEW I PROVE R!Select(rs, I) = Select(rs, I) /\ A!Select(rs, I) = Select(rs, I)
  BY DEF Select, R!Select, A!Select, Place, R!Place, A!Place,
         Cardinality, R!Cardinality, A!Cardinality
<1> QED
  BY <1>2, <1>3

-----------------------------------------------------------------------------
(* Types of Rbpa *)

Loc == Cell \cup PortId
Action == [putter : Loc, getters : SUBSET Loc]

\* a rule definition makes a rule
LEMMA RuleOfType ==
  ASSUME NEW rd \in Seq(Action), NEW ports PROVE R!RuleOf(rd, ports) \in R!Rule
<1> DEFINE seen    == {v[3] : v \in R!Visible(rd, ports)}
           on(c)   == {i \in DOMAIN rd : c = rd[i].putter \/ c \in rd[i].getters}
           cells   == (UNION {{rd[i].putter} \cup rd[i].getters : i \in DOMAIN rd}) \ PortId
           last(c) == CHOOSE i \in on(c) : \A j \in on(c) : j <= i
           port    == IF seen = {} THEN None ELSE CHOOSE p \in seen : TRUE
           guard   == [c \in cells |-> \E i \in on(c) : rd[i].putter = c]
           assign  == [c \in cells |-> c \in rd[last(c)].getters]
<1>1. \A i \in DOMAIN rd : rd[i].putter \in Loc /\ rd[i].getters \subseteq Loc
  <2>1. \A i \in DOMAIN rd : rd[i] \in Action
    OBVIOUS
  <2> QED
    BY <2>1 DEF Action
<1>2. cells \subseteq Cell
  BY <1>1 DEF Loc
<1>3. seen \subseteq Loc
  <2>1. ASSUME NEW v \in R!Visible(rd, ports) PROVE v[3] \in Loc
    <3>1. PICK i \in DOMAIN rd : v \in {<<i, "putter", rd[i].putter>>}
                                    \cup {<<i, "getter", l>> : l \in rd[i].getters}
      BY DEF R!Visible
    <3>2. v[3] = rd[i].putter \/ v[3] \in rd[i].getters
      BY <3>1
    <3> QED
      BY <1>1, <3>2
  <2> QED
    BY <2>1
<1>4. port \in Cell \cup PortId \cup {None}
  BY <1>3 DEF Loc
<1>5. guard \in [cells -> BOOLEAN] /\ assign \in [cells -> BOOLEAN]
  <2> HIDE DEF cells, on, last
  <2> QED
    OBVIOUS
<1>6. guard \in R!Pred /\ assign \in R!Pred
  <2> HIDE DEF cells, guard, assign
  <2> QED
    BY <1>2, <1>5, MakePred
<1> DEFINE r == [port |-> port, guard |-> guard, assign |-> assign]
<1>7. R!RuleOf(rd, ports) = R!trim(r)
  BY DEF R!RuleOf
<1>8. r \in R!Rule
  <2> HIDE DEF port, guard, assign
  <2> QED
    BY <1>4, <1>6 DEF R!Rule
<1> HIDE DEF r
<1> QED
  BY <1>7, <1>8, TrimIs

\* Distinct loses no element and adds none
LEMMA DistinctIs ==
  ASSUME NEW S, NEW rs \in Seq(S)
  PROVE  /\ R!Distinct(rs) \in Seq(S)
         /\ \A n \in DOMAIN R!Distinct(rs) : \E i \in DOMAIN rs : R!Distinct(rs)[n] = rs[i]
         /\ \A i \in DOMAIN rs : \E n \in DOMAIN R!Distinct(rs) : R!Distinct(rs)[n] = rs[i]
<1> DEFINE I == {i \in DOMAIN rs : \A j \in DOMAIN rs : j < i => rs[j] # rs[i]}
           d == R!Distinct(rs)
<1>1. d = Select(rs, I)
  BY SameSets DEF R!Distinct
<1>2. /\ d \in Seq(S)
      /\ \A n \in DOMAIN d : \E i \in I : d[n] = rs[i]
      /\ \A i \in I : \E n \in DOMAIN d : d[n] = rs[i]
  <2>1. I \in SUBSET DOMAIN rs
    OBVIOUS
  <2> HIDE DEF I, d
  <2> QED
    BY <1>1, <2>1, SelectIs
<1>3. ASSUME NEW i \in DOMAIN rs PROVE \E k \in I : rs[k] = rs[i]
  <2> DEFINE T == {k \in DOMAIN rs : rs[k] = rs[i]}
  <2>1. T \subseteq Nat /\ T # {}
    OBVIOUS
  <2>2. PICK k \in T : \A j \in T : k <= j
    BY <2>1, Least
  <2>3. ASSUME NEW j \in DOMAIN rs, j < k PROVE rs[j] # rs[k]
    <3>1. j \in Nat /\ k \in Nat /\ ~(k <= j)
      BY <2>1, <2>3
    <3> QED
      BY <2>2, <3>1
  <2> QED
    BY <2>2, <2>3
<1> HIDE DEF d
<1>4. ASSUME NEW i \in DOMAIN rs PROVE \E n \in DOMAIN d : d[n] = rs[i]
  BY <1>2, <1>3
<1>5. \A n \in DOMAIN d : \E i \in DOMAIN rs : d[n] = rs[i]
  BY <1>2
<1> QED
  BY <1>2, <1>4, <1>5 DEF d

\* compose makes rules
LEMMA ComposeType ==
  ASSUME NEW r1 \in R!Rule, NEW r2 \in R!Rule, R!compose(r1, r2) # None
  PROVE  R!compose(r1, r2) \in R!Rule
<1>1. R!compose(r1, r2) = R!trim(Joint(r1, r2))
  BY ComposeIs
<1>2. Joint(r1, r2) \in R!Rule
  BY JointIs
<1> QED
  BY <1>1, <1>2, TrimIs

\* fuse makes rules
LEMMA FuseType ==
  ASSUME NEW r1 \in R!Rule, NEW r2 \in R!Rule, R!fuse(r1, r2) # None
  PROVE  R!fuse(r1, r2) \in R!Rule
<1> DEFINE left == DOMAIN r1.guard \ DOMAIN r2.guard
           differ == R!Disagree(r1.guard, r2.guard)
           g == IF left # {} THEN r2.guard ELSE R!Restrict(r1.guard, DOMAIN r1.guard \ differ)
           r == [port |-> r1.port, guard |-> g, assign |-> r1.assign]
<1>1. R!fuse(r1, r2) = R!trim(r)
  BY DEF R!fuse
<1>2. R!Restrict(r1.guard, DOMAIN r1.guard \ differ) \in R!Pred
  <2>1. r1.guard \in R!Pred /\ (DOMAIN r1.guard \ differ) \in SUBSET DOMAIN r1.guard
    BY RuleIs
  <2> QED
    BY <2>1, RestrictPred
<1>3. g \in R!Pred
  BY <1>2, RuleIs
<1> HIDE DEF g
<1>4. r \in R!Rule
  BY <1>3, RuleIs DEF R!Rule
<1> QED
  BY <1>1, <1>4, TrimIs

\* normalize works on rules; buf is in use only while a silent one is removed
RbpaType ==
    /\ rules \in Seq(R!Rule) /\ given \in Seq(R!Rule) /\ buf \in Seq(R!Rule)
    /\ silent # None => silent \in R!Rule /\ silent.port = None
    /\ silent = None => buf = <<>>
    /\ next \in Nat \ {0}

\* normalize starts with rules
LEMMA InitType ==
  ASSUME SilenceAssumption, R!Init PROVE RbpaType
<1>1. PICK def \in Defs, ports \in PortSets :
        /\ given = R!new_rbpa(def, ports) /\ rules = given
        /\ silent = None /\ next = 1 /\ buf = <<>>
  BY DEF R!Init
<1>2. def \in Seq(Seq(Action))
  BY DEF SilenceAssumption, R!WellFormed, Action, Loc
<1>3. [i \in DOMAIN def |-> R!RuleOf(def[i], ports)] \in Seq(R!Rule)
  <2>1. \A i \in DOMAIN def : R!RuleOf(def[i], ports) \in R!Rule
    BY <1>2, RuleOfType
  <2>2. DOMAIN def = 1 .. Len(def) /\ Len(def) \in Nat
    BY <1>2
  <2> QED
    BY <2>1, <2>2
<1>4. given \in Seq(R!Rule)
  BY <1>1, <1>3, DistinctIs DEF R!new_rbpa
<1> QED
  BY <1>1, <1>4 DEF RbpaType

\* what remains once the silent rule is taken out
LEMMA Removed ==
  ASSUME RbpaType, R!RemoveSilent
  PROVE  \E i \in DOMAIN rules :
            /\ rules[i].port = None /\ silent' = rules[i]
            /\ rules' \in Seq(R!Rule)
            /\ \A k \in DOMAIN rules' : \E j \in DOMAIN rules : rules'[k] = rules[j]
            /\ \A j \in DOMAIN rules : j = i \/ \E k \in DOMAIN rules' : rules'[k] = rules[j]
<1> DEFINE i == CHOOSE j \in R!SilentAt : \A k \in R!SilentAt : j <= k
           n == Len(rules)
           moved == [rules EXCEPT ![i] = rules[n]]
<1>1. R!SilentAt # {} /\ R!SilentAt \subseteq Nat
  <2>1. DOMAIN rules = 1 .. Len(rules)
    BY DEF RbpaType
  <2> QED
    BY <2>1 DEF R!RemoveSilent, R!SilentAt
<1>2. i \in R!SilentAt
  BY <1>1, Least
<1>3. silent' = rules[i] /\ rules' = SubSeq(moved, 1, n - 1)
  BY DEF R!RemoveSilent
<1> HIDE DEF i
<1>4. n \in Nat /\ DOMAIN rules = 1 .. n /\ i \in 1 .. n /\ rules[i].port = None
  BY <1>2 DEF R!SilentAt, RbpaType
<1>5. /\ moved \in Seq(R!Rule) /\ Len(moved) = n
      /\ \A k \in 1 .. n : moved[k] = IF k = i THEN rules[n] ELSE rules[k]
  BY <1>4 DEF RbpaType
<1> HIDE DEF moved
<1>6. /\ rules' \in Seq(R!Rule) /\ DOMAIN rules' = 1 .. (n - 1)
      /\ \A k \in 1 .. (n - 1) : rules'[k] = moved[k]
  <2>1. n - 1 \in 0 .. n /\ n - 1 \in Nat
    BY <1>4
  <2>2. /\ rules' = [k \in 1 .. (n - 1) |-> moved[k]]
    BY <1>3, <2>1, <1>4, <1>5
  <2>3. \A k \in 1 .. (n - 1) : moved[k] \in R!Rule
    BY <1>4, <1>5
  <2> QED
    BY <2>1, <2>2, <2>3
<1>7. ASSUME NEW k \in DOMAIN rules' PROVE \E j \in DOMAIN rules : rules'[k] = rules[j]
  BY <1>4, <1>5, <1>6, <1>7
<1>8. ASSUME NEW j \in DOMAIN rules, j # i PROVE \E k \in DOMAIN rules' : rules'[k] = rules[j]
  <2>1. CASE j = n
    <3>1. i \in 1 .. (n - 1) /\ rules'[i] = rules[n]
      <4>1. i \in 1 .. (n - 1)
        <5> HIDE DEF n
        <5>1. i # n /\ n \in Nat /\ i \in 1 .. n
          BY <1>4, <1>8, <2>1
        <5> QED
          BY <5>1
      <4> QED
        BY <1>4, <1>5, <1>6, <4>1
    <3> QED
      BY <1>6, <2>1, <3>1
  <2>2. CASE j # n
    <3>1. j \in 1 .. (n - 1) /\ rules'[j] = rules[j]
      BY <1>4, <1>5, <1>6, <1>8, <2>2
    <3> QED
      BY <1>6, <3>1
  <2> QED
    BY <2>1, <2>2
<1> QED
  BY <1>3, <1>4, <1>6, <1>7, <1>8

\* one turn of the loop
LEMMA Composed ==
  ASSUME RbpaType, R!Compose
  PROVE  LET c == R!compose(silent, rules[next])
             fused == IF c = None THEN {} ELSE {j \in DOMAIN rules : R!fuse(rules[j], c) # None}
         IN  /\ silent \in R!Rule /\ silent.port = None /\ next \in DOMAIN rules
             /\ rules[next] \in R!Rule
             /\ c # None => c \in R!Rule
             /\ rules' \in Seq(R!Rule) /\ DOMAIN rules' = DOMAIN rules
             /\ \A j \in DOMAIN rules : j \notin fused => rules'[j] = rules[j]
             /\ buf' \in Seq(R!Rule)
             /\ buf' = IF c = None \/ fused # {} THEN buf ELSE Append(buf, c)
<1> DEFINE c == R!compose(silent, rules[next])
           fused == IF c = None THEN {} ELSE {j \in DOMAIN rules : R!fuse(rules[j], c) # None}
<1>1. /\ silent \in R!Rule /\ silent.port = None /\ next \in DOMAIN rules
      /\ rules[next] \in R!Rule
  BY DEF RbpaType, R!Compose
<1>2. c # None => c \in R!Rule
  BY <1>1, ComposeType
<1>3. /\ rules' = [j \in DOMAIN rules |-> IF j \in fused THEN R!fuse(rules[j], c) ELSE rules[j]]
      /\ buf' = IF c = None \/ fused # {} THEN buf ELSE Append(buf, c)
  BY DEF R!Compose
<1> HIDE DEF c
<1>4. \A j \in DOMAIN rules : rules[j] \in R!Rule
  BY DEF RbpaType
<1>5. \A j \in fused : R!fuse(rules[j], c) \in R!Rule
  BY <1>2, <1>4, FuseType
<1> HIDE DEF fused
<1>6. \A j \in DOMAIN rules : (IF j \in fused THEN R!fuse(rules[j], c) ELSE rules[j]) \in R!Rule
  BY <1>4, <1>5
<1>7. DOMAIN rules = 1 .. Len(rules) /\ Len(rules) \in Nat
  BY DEF RbpaType
<1>8. rules' \in Seq(R!Rule) /\ DOMAIN rules' = DOMAIN rules
  BY <1>3, <1>6, <1>7
<1>9. \A j \in DOMAIN rules : j \notin fused => rules'[j] = rules[j]
  BY <1>3
<1>10. buf' \in Seq(R!Rule)
  BY <1>2, <1>3 DEF RbpaType
<1> QED
  BY <1>1, <1>2, <1>3, <1>8, <1>9, <1>10 DEF c, fused

\* and goes on with rules
LEMMA TypeStep ==
  ASSUME RbpaType, R!Next PROVE RbpaType'
<1>1. CASE R!RemoveSilent
  <2>1. /\ silent' \in R!Rule /\ silent'.port = None /\ rules' \in Seq(R!Rule)
    BY <1>1, Removed DEF RbpaType
  <2>2. UNCHANGED <<given, buf>> /\ next' = 1
    BY <1>1 DEF R!RemoveSilent
  <2>3. silent = None
    BY <1>1 DEF R!RemoveSilent
  <2> QED
    BY <2>1, <2>2, <2>3 DEF RbpaType
<1>2. CASE R!Compose
  <2>1. /\ silent \in R!Rule /\ silent.port = None /\ rules' \in Seq(R!Rule) /\ buf' \in Seq(R!Rule)
    BY <1>2, Composed
  <2>2. UNCHANGED <<given, silent>> /\ next' = next + 1 /\ silent # None
    BY <1>2 DEF R!Compose
  <2> QED
    BY <2>1, <2>2 DEF RbpaType
<1>3. CASE R!AppendComposed
  <2>1. rules \o buf \in Seq(R!Rule)
    BY DEF RbpaType
  <2> QED
    BY <1>3, <2>1 DEF R!AppendComposed, RbpaType
<1>4. CASE R!RemoveDuplicates
  <2>1. R!Distinct(rules) \in Seq(R!Rule)
    BY DistinctIs DEF RbpaType
  <2> QED
    BY <1>4, <2>1 DEF R!RemoveDuplicates, RbpaType
<1> QED
  BY <1>1, <1>2, <1>3, <1>4 DEF R!Next

\* so everything it combines is combined exactly
LEMMA TypeGivesExact ==
  ASSUME SilenceAssumption, RbpaType PROVE R!CombinationsExact
<1> SUFFICES ASSUME NEW i \in DOMAIN rules, NEW j \in DOMAIN rules
             PROVE  LET r1 == rules[i]
                        r2 == rules[j]
                        both == {s \in R!State : R!Holds(r1.guard, s) /\ R!Holds(r2.guard, s)}
                        g    == R!constrain_guard(r1, r2.guard)
                        c    == R!compose(r1, r2)
                        seq  == R!Sequenced(R!Steps(r1), R!Steps(r2))
                        overread == (DOMAIN r1.assign \cap DOMAIN r2.guard) \ DOMAIN r2.assign
                    IN  /\ R!is_mutex_with(r1, r2) <=> both = {}
                        /\ IF both = {} THEN g = None ELSE both = {s \in R!State : R!Holds(g, s)}
                        /\ r1.port = None =>
                              /\ {x[1] : x \in seq} = IF c = None THEN {} ELSE {x[1] : x \in R!Steps(c)}
                              /\ overread = {} /\ c # None => seq = R!Steps(c)
  BY DEF R!CombinationsExact
<1>1. rules[i] \in R!Rule /\ rules[j] \in R!Rule
  BY DEF RbpaType
<1> QED
  BY <1>1, MutexExact, ConstrainExact, ComposeExact DEF Overread

-----------------------------------------------------------------------------
(* The port steps of Rbpa *)

\* the steps of several rules
LEMMA StepsOfIs ==
  ASSUME NEW rs, NEW x
  PROVE  x \in R!StepsOf(rs) <=> \E i \in DOMAIN rs : x \in R!Steps(rs[i])
  BY DEF R!StepsOf

\* a rule does nothing more when it fires again
LEMMA Idempotent ==
  ASSUME NEW r \in R!Rule, NEW x \in R!Steps(r), NEW y \in R!Steps(r), x[3] = y[1]
  PROVE  y[3] = x[3]
<1>1. r.assign \in R!Pred
  BY RuleIs
<1>2. /\ x[1] \in R!State /\ x[3] \in R!State /\ y[3] \in R!State
      /\ x[3] = R!Over(r.assign, x[1]) /\ y[3] = R!Over(r.assign, x[3])
  BY StepStates
<1>3. /\ \A k \in Cell : x[3][k] = IF k \in DOMAIN r.assign THEN r.assign[k] ELSE x[1][k]
      /\ \A k \in Cell : y[3][k] = IF k \in DOMAIN r.assign THEN r.assign[k] ELSE x[3][k]
  BY <1>1, <1>2, OverState
<1>4. \A k \in Cell : y[3][k] = x[3][k]
  BY <1>3
<1> QED
  BY <1>2, <1>4, SameState

\* the steps of the rules there are, of those that wait in buf, and of the one
\* that is being composed with the rules
All == R!StepsOf(rules) \cup R!StepsOf(buf)
Rho == IF silent = None THEN {} ELSE R!Steps(silent)
Given == R!StepsOf(given)

\* rho before r
Before(rho, T) == R!Sequenced(rho, T)

(***************************************************************************)
(* With the rule that is being removed, the rules make no other port steps *)
(* than those of the automaton, and all of them; and what that rule makes  *)
(* of the rules before next, and of those in buf, is there already.  So    *)
(* nothing is missing without it once next has passed the last rule.       *)
(***************************************************************************)
RbpaKept ==
    /\ \A y \in All \cup Rho : Follows(y, Given)
    /\ PortSteps(Given) \subseteq PortSteps(All \cup Rho)
    /\ \A i \in DOMAIN rules : i < next => Before(Rho, R!Steps(rules[i])) \subseteq All
    /\ \A i \in DOMAIN buf : Before(Rho, R!Steps(buf[i])) \subseteq All

RbpaInv == RbpaType /\ (exact => RbpaKept)

\* the steps of the rule that is being removed
LEMMA RhoIs ==
  ASSUME RbpaType
  PROVE  /\ \A x \in Rho : x[2] = None /\ x = <<x[1], x[2], x[3]>>
         /\ \A x, y \in Rho : x[3] = y[1] => y[3] = x[3]
<1>1. CASE silent = None
  BY <1>1 DEF Rho
<1>2. CASE silent # None
  <2>1. silent \in R!Rule /\ silent.port = None /\ Rho = R!Steps(silent)
    BY <1>2 DEF RbpaType, Rho
  <2> QED
    BY <2>1, StepStates, Idempotent
<1> QED
  BY <1>1, <1>2

\* steps are triples
LEMMA AllTriples ==
  ASSUME NEW rs \in Seq(R!Rule), NEW x \in R!StepsOf(rs) PROVE x = <<x[1], x[2], x[3]>>
<1>1. PICK i \in DOMAIN rs : x \in R!Steps(rs[i])
  BY StepsOfIs
<1>2. rs[i] \in R!Rule
  OBVIOUS
<1> QED
  BY <1>1, <1>2, StepStates

\* the elements of Before
LEMMA BeforeIs ==
  ASSUME NEW P, NEW Q, NEW x
  PROVE  x \in Before(P, Q) <=> \E p \in P, q \in Q : q[1] = p[3] /\ x = <<p[1], q[2], q[3]>>
  BY SequencedIs DEF Before

\* more steps can be preceded in more ways
LEMMA BeforeMono ==
  ASSUME NEW P, NEW Q, NEW T, Q \subseteq T PROVE Before(P, Q) \subseteq Before(P, T)
<1> SUFFICES ASSUME NEW x \in Before(P, Q) PROVE x \in Before(P, T)
  OBVIOUS
<1> QED
  BY BeforeIs

\* silent steps before what already has them
LEMMA BeforeTwice ==
  ASSUME NEW P, NEW Q, \A x, y \in P : x[3] = y[1] => y[3] = x[3]
  PROVE  Before(P, Before(P, Q)) \subseteq Before(P, Q)
<1> SUFFICES ASSUME NEW x \in Before(P, Before(P, Q)) PROVE x \in Before(P, Q)
  OBVIOUS
<1>1. PICK p \in P, z \in Before(P, Q) : z[1] = p[3] /\ x = <<p[1], z[2], z[3]>>
  BY BeforeIs
<1>2. PICK q \in P, y \in Q : y[1] = q[3] /\ z = <<q[1], y[2], y[3]>>
  BY BeforeIs
<1>3. p[3] = q[1] /\ q[3] = p[3]
  BY <1>1, <1>2
<1>4. y[1] = p[3] /\ x = <<p[1], y[2], y[3]>>
  BY <1>1, <1>2, <1>3
<1> QED
  BY <1>4, BeforeIs

\* silent steps and then one that follows are together one that follows
LEMMA BeforeFollows ==
  ASSUME NEW P, NEW Q, NEW G,
         \A p \in P : p[2] = None /\ Follows(p, G),
         \A q \in Q : Follows(q, G)
  PROVE  \A x \in Before(P, Q) : Follows(x, G)
<1> SUFFICES ASSUME NEW x \in Before(P, Q) PROVE Follows(x, G)
  OBVIOUS
<1>1. PICK p \in P, q \in Q : q[1] = p[3] /\ x = <<p[1], q[2], q[3]>>
  BY BeforeIs
<1>2. PICK u \in SilentlyFrom(p[1], G) : <<u, None, p[3]>> \in G
  BY DEF Follows
<1> DEFINE w == <<u, None, p[3]>>
<1>3. w \in G /\ w[1] = u /\ w[2] = None /\ w[3] = p[3]
  BY <1>2
<1> HIDE DEF w
<1>4. p[3] \in SilentlyFrom(p[1], G)
  BY <1>2, <1>3, FromStep
<1>5. PICK v \in SilentlyFrom(q[1], G) : <<v, q[2], q[3]>> \in G
  BY DEF Follows
<1>6. v \in SilentlyFrom(p[1], G)
  BY <1>1, <1>4, <1>5, FromTrans
<1>7. x[1] = p[1] /\ x[2] = q[2] /\ x[3] = q[3]
  BY <1>1
<1> QED
  BY <1>5, <1>6, <1>7 DEF Follows

\* the inductive invariant holds of the automaton new_rbpa made
LEMMA InitKept ==
  ASSUME SilenceAssumption, R!Init PROVE RbpaInv
<1>1. RbpaType
  BY InitType
<1>2. rules = given /\ silent = None /\ buf = <<>> /\ next = 1
  BY DEF R!Init
<1>3. All = Given /\ Rho = {}
  BY <1>2, StepsOfIs DEF All, Given, Rho, R!StepsOf
<1>4. \A y \in Given : Follows(y, Given)
  BY <1>1, AllTriples, OwnFollow DEF Given, RbpaType
<1>5. \A P, Q : P = {} => Before(P, Q) = {}
  BY BeforeIs
<1> QED
  BY <1>1, <1>2, <1>3, <1>4, <1>5 DEF RbpaInv, RbpaKept

\* taking a silent rule out keeps it: nothing has been composed yet
LEMMA RemoveKept ==
  ASSUME SilenceAssumption, RbpaInv, R!RemoveSilent, exact PROVE RbpaKept'
<1>1. RbpaType /\ RbpaType'
  BY TypeStep DEF RbpaInv, R!Next
<1>2. silent = None /\ buf = <<>> /\ buf' = <<>> /\ given' = given /\ next' = 1
  BY <1>1 DEF R!RemoveSilent, RbpaType
<1>3. PICK i \in DOMAIN rules :
         /\ rules[i].port = None /\ silent' = rules[i]
         /\ \A k \in DOMAIN rules' : \E j \in DOMAIN rules : rules'[k] = rules[j]
         /\ \A j \in DOMAIN rules : j = i \/ \E k \in DOMAIN rules' : rules'[k] = rules[j]
  BY <1>1, Removed
<1>4. rules[i] \in R!Rule
  BY <1>1 DEF RbpaType
<1>5. silent' # None
  BY <1>3, <1>4 DEF SilenceAssumption, R!WellFormed
<1>6. Rho = {} /\ Rho' = R!Steps(rules[i])
  BY <1>2, <1>3, <1>5 DEF Rho
<1>7. All = R!StepsOf(rules) /\ All' = R!StepsOf(rules')
  BY <1>2, StepsOfIs DEF All, R!StepsOf
<1>8. (All \cup Rho)' = All \cup Rho
  <2>1. ASSUME NEW x PROVE x \in All' \cup Rho' <=> x \in All
    <3>1. x \in All' => x \in All
      BY <1>3, <1>7, StepsOfIs
    <3>2. x \in Rho' => x \in All
      BY <1>6, <1>7, StepsOfIs
    <3>3. x \in All => x \in All' \cup Rho'
      BY <1>3, <1>6, <1>7, StepsOfIs
    <3> QED
      BY <3>1, <3>2, <3>3
  <2> QED
    BY <1>6, <2>1
<1>9. Given' = Given
  BY <1>2 DEF Given
<1>10. \A k \in DOMAIN rules' : ~(k < next')
  BY <1>1, <1>2 DEF RbpaType
<1>11. DOMAIN buf' = {} /\ RbpaKept
  BY <1>2 DEF RbpaInv
<1>12. /\ \A y \in (All \cup Rho)' : Follows(y, Given)
       /\ PortSteps(Given) \subseteq PortSteps((All \cup Rho)')
  BY <1>8, <1>11 DEF RbpaKept
<1> QED
  BY <1>9, <1>10, <1>11, <1>12 DEF RbpaKept

\* a composed rule, fused or waiting in buf, keeps it
LEMMA ComposeKept ==
  ASSUME RbpaInv, R!Compose, exact' PROVE RbpaKept'
<1> DEFINE c == R!compose(silent, rules[next])
           fused == IF c = None THEN {} ELSE {j \in DOMAIN rules : R!fuse(rules[j], c) # None}
           C == Before(Rho, R!Steps(rules[next]))
<1>1. RbpaType /\ RbpaType'
  BY TypeStep DEF RbpaInv, R!Next
<1>2. /\ exact /\ UNCHANGED <<given, silent>> /\ next' = next + 1 /\ silent # None
      /\ R!Sequenced(R!Steps(silent), R!Steps(rules[next])) = IF c = None THEN {} ELSE R!Steps(c)
      /\ \A j \in fused : R!Steps(rules'[j]) = R!Steps(rules[j]) \cup R!Steps(c)
  BY DEF R!Compose
<1>3. /\ next \in DOMAIN rules /\ DOMAIN rules' = DOMAIN rules
      /\ \A j \in DOMAIN rules : j \notin fused => rules'[j] = rules[j]
      /\ buf' = IF c = None \/ fused # {} THEN buf ELSE Append(buf, c)
  BY <1>1, Composed
<1>4. fused \subseteq DOMAIN rules /\ (c = None => fused = {})
  OBVIOUS
<1> HIDE DEF c, fused
<1>5. RbpaKept
  BY <1>2 DEF RbpaInv
<1>6. C = IF c = None THEN {} ELSE R!Steps(c)
  BY <1>2 DEF Rho, Before
<1>7. Given' = Given /\ Rho' = Rho
  BY <1>2 DEF Given, Rho
<1> HIDE DEF C
<1>8. ASSUME NEW j \in DOMAIN rules
      PROVE  /\ R!Steps(rules[j]) \subseteq R!Steps(rules'[j])
             /\ R!Steps(rules'[j]) \subseteq R!Steps(rules[j]) \cup C
  <2>1. CASE j \in fused
    <3>1. C = R!Steps(c)
      BY <1>4, <1>6, <2>1
    <3> QED
      BY <1>2, <2>1, <3>1
  <2>2. CASE j \notin fused
    BY <1>3, <2>2
  <2> QED
    BY <2>1, <2>2
<1>9. \A j \in DOMAIN buf : j \in DOMAIN buf' /\ buf'[j] = buf[j]
  BY <1>1, <1>3 DEF RbpaType
<1>10. \A j \in DOMAIN buf' : R!Steps(buf'[j]) \subseteq C \/ (j \in DOMAIN buf /\ buf'[j] = buf[j])
  BY <1>1, <1>3, <1>6 DEF RbpaType
<1>11. All \subseteq All'
  <2>1. ASSUME NEW x \in All PROVE x \in All'
    <3>1. CASE x \in R!StepsOf(rules)
      <4>1. PICK j \in DOMAIN rules : x \in R!Steps(rules[j])
        BY <3>1, StepsOfIs
      <4>2. x \in R!Steps(rules'[j]) /\ j \in DOMAIN rules'
        BY <1>3, <1>8, <4>1
      <4> QED
        BY <4>2, StepsOfIs DEF All
    <3>2. CASE x \in R!StepsOf(buf)
      <4>1. PICK j \in DOMAIN buf : x \in R!Steps(buf[j])
        BY <3>2, StepsOfIs
      <4>2. x \in R!Steps(buf'[j]) /\ j \in DOMAIN buf'
        BY <1>9, <4>1
      <4> QED
        BY <4>2, StepsOfIs DEF All
    <3> QED
      BY <2>1, <3>1, <3>2 DEF All
  <2> QED
    BY <2>1
<1>12. All' \subseteq All \cup C
  <2>1. ASSUME NEW x \in All' PROVE x \in All \cup C
    <3>1. CASE x \in R!StepsOf(rules')
      <4>1. PICK j \in DOMAIN rules' : x \in R!Steps(rules'[j])
        BY <3>1, StepsOfIs
      <4>2. x \in R!Steps(rules[j]) \cup C /\ j \in DOMAIN rules
        BY <1>3, <1>8, <4>1
      <4> QED
        BY <4>2, StepsOfIs DEF All
    <3>2. CASE x \in R!StepsOf(buf')
      <4>1. PICK j \in DOMAIN buf' : x \in R!Steps(buf'[j])
        BY <3>2, StepsOfIs
      <4>2. x \in C \/ (j \in DOMAIN buf /\ x \in R!Steps(buf[j]))
        BY <1>10, <4>1
      <4> QED
        BY <4>2, StepsOfIs DEF All
    <3> QED
      BY <2>1, <3>1, <3>2 DEF All
  <2> QED
    BY <2>1
<1>13. C \subseteq All'
  <2>1. CASE c = None
    BY <1>6, <2>1
  <2>2. CASE c # None /\ fused # {}
    <3>1. PICK j \in fused : TRUE
      BY <2>2
    <3>2. j \in DOMAIN rules' /\ C \subseteq R!Steps(rules'[j])
      <4>1. C = R!Steps(c) /\ j \in DOMAIN rules'
        BY <1>3, <1>4, <1>6, <2>2
      <4> QED
        BY <1>2, <4>1
    <3> QED
      BY <3>2, StepsOfIs DEF All
  <2>3. CASE c # None /\ fused = {}
    <3>1. buf' = Append(buf, c) /\ C = R!Steps(c)
      BY <1>3, <1>6, <2>3
    <3>2. Len(buf) + 1 \in DOMAIN buf' /\ buf'[Len(buf) + 1] = c
      BY <1>1, <3>1 DEF RbpaType
    <3> QED
      BY <3>1, <3>2, StepsOfIs DEF All
  <2> QED
    BY <2>1, <2>2, <2>3
<1>14. Before(Rho, C) \subseteq All'
  <2>1. Before(Rho, C) \subseteq C
    BY <1>1, RhoIs, BeforeTwice DEF C
  <2> QED
    BY <1>13, <2>1
<1>15. \A y \in (All \cup Rho)' : Follows(y, Given)
  <2>1. R!Steps(rules[next]) \subseteq All
    BY <1>3, StepsOfIs DEF All
  <2>2. \A y \in C : Follows(y, Given)
    <3>1. /\ \A y \in Rho : y[2] = None /\ Follows(y, Given)
          /\ \A y \in R!Steps(rules[next]) : Follows(y, Given)
      BY <1>1, <1>5, <2>1, RhoIs DEF RbpaKept
    <3> QED
      BY <3>1, BeforeFollows DEF C
  <2> QED
    BY <1>5, <1>7, <1>12, <2>2 DEF RbpaKept
<1>16. PortSteps(Given) \subseteq PortSteps((All \cup Rho)')
  <2>1. All \cup Rho \subseteq (All \cup Rho)'
    BY <1>7, <1>11
  <2>2. PortSteps(All \cup Rho) \subseteq PortSteps((All \cup Rho)')
    BY <2>1, PortStepsMono
  <2> QED
    BY <1>5, <2>2 DEF RbpaKept
<1>17. ASSUME NEW T, NEW U, U \subseteq T \cup C, Before(Rho, T) \subseteq All'
       PROVE  Before(Rho, U) \subseteq All'
  <2>1. ASSUME NEW x \in Before(Rho, U) PROVE x \in Before(Rho, T) \cup Before(Rho, C)
    BY <1>17, BeforeIs
  <2> QED
    BY <1>14, <1>17, <2>1
<1>18. ASSUME NEW i \in DOMAIN rules, i < next + 1
       PROVE  Before(Rho, R!Steps(rules'[i])) \subseteq All'
  <2>1. Before(Rho, R!Steps(rules[i])) \subseteq All'
    <3>1. CASE i < next
      BY <1>5, <1>11, <3>1 DEF RbpaKept
    <3>2. CASE i = next
      BY <1>13, <3>2 DEF C
    <3>3. i \in Nat /\ next \in Nat
      BY <1>1 DEF RbpaType
    <3> QED
      BY <1>18, <3>1, <3>2, <3>3
  <2> QED
    BY <1>8, <1>17, <2>1
<1>19. ASSUME NEW i \in DOMAIN buf' PROVE Before(Rho, R!Steps(buf'[i])) \subseteq All'
  <2>1. CASE R!Steps(buf'[i]) \subseteq C
    BY <1>14, <2>1, BeforeMono
  <2>2. CASE i \in DOMAIN buf /\ buf'[i] = buf[i]
    BY <1>5, <1>11, <2>2 DEF RbpaKept
  <2> QED
    BY <1>10, <2>1, <2>2
<1> QED
  BY <1>2, <1>3, <1>7, <1>15, <1>16, <1>18, <1>19 DEF RbpaKept

\* once every rule has been composed with the silent one, nothing is lost without it
LEMMA AppendKept ==
  ASSUME RbpaInv, R!AppendComposed, exact PROVE RbpaKept'
<1>1. RbpaType /\ RbpaType' /\ RbpaKept
  BY TypeStep DEF RbpaInv, R!Next
<1>2. /\ silent # None /\ next > Len(rules) /\ rules' = rules \o buf
      /\ buf' = <<>> /\ silent' = None /\ given' = given
  BY DEF R!AppendComposed
<1>3. Rho' = {} /\ Given' = Given
  BY <1>2 DEF Rho, Given
<1>4. All' = All
  <2>1. All' = R!StepsOf(rules \o buf)
    BY <1>2, StepsOfIs DEF All, R!StepsOf
  <2>2. /\ DOMAIN rules = 1 .. Len(rules) /\ DOMAIN buf = 1 .. Len(buf)
        /\ DOMAIN (rules \o buf) = 1 .. (Len(rules) + Len(buf))
        /\ \A i \in 1 .. (Len(rules) + Len(buf)) :
              (rules \o buf)[i] = IF i <= Len(rules) THEN rules[i] ELSE buf[i - Len(rules)]
        /\ Len(rules) \in Nat /\ Len(buf) \in Nat
    BY <1>1 DEF RbpaType
  <2> DEFINE both == rules \o buf
  <2>3. \A i \in DOMAIN rules : i \in DOMAIN both /\ both[i] = rules[i]
    BY <2>2
  <2>4. \A i \in DOMAIN buf : (Len(rules) + i) \in DOMAIN both /\ both[Len(rules) + i] = buf[i]
    BY <2>2
  <2>5. ASSUME NEW i \in DOMAIN both
        PROVE  \/ i \in DOMAIN rules /\ both[i] = rules[i]
               \/ (i - Len(rules)) \in DOMAIN buf /\ both[i] = buf[i - Len(rules)]
    BY <2>2
  <2> HIDE DEF both
  <2>6. ASSUME NEW x PROVE x \in R!StepsOf(both) <=> x \in All
    BY <2>3, <2>4, <2>5, StepsOfIs DEF All
  <2> QED
    BY <2>1, <2>6 DEF both
<1>5. Absorbs(All, Rho)
  <2> SUFFICES ASSUME NEW x \in Rho, NEW y \in All, x[3] = y[1]
               PROVE  <<x[1], y[2], y[3]>> \in All
    BY DEF Absorbs
  <2>1. ASSUME NEW T, y \in T PROVE <<x[1], y[2], y[3]>> \in Before(Rho, T)
    BY <2>1, BeforeIs
  <2>2. CASE y \in R!StepsOf(rules)
    <3>1. PICK i \in DOMAIN rules : y \in R!Steps(rules[i])
      BY <2>2, StepsOfIs
    <3>2. i < next
      BY <1>1, <1>2 DEF RbpaType
    <3> QED
      BY <1>1, <2>1, <3>1, <3>2 DEF RbpaKept
  <2>3. CASE y \in R!StepsOf(buf)
    <3>1. PICK i \in DOMAIN buf : y \in R!Steps(buf[i])
      BY <2>3, StepsOfIs
    <3> QED
      BY <1>1, <2>1, <3>1 DEF RbpaKept
  <2> QED
    BY <2>2, <2>3 DEF All
<1>6. PortSteps(All \cup Rho) \subseteq PortSteps(All)
  BY <1>1, <1>5, RhoIs, Removal
<1>7. \A P, Q : P = {} => Before(P, Q) = {}
  BY BeforeIs
<1> QED
  BY <1>1, <1>3, <1>4, <1>6, <1>7 DEF RbpaKept

\* the last duplicates can go
LEMMA DuplicatesKept ==
  ASSUME RbpaInv, R!RemoveDuplicates, exact PROVE RbpaKept'
<1>1. RbpaType /\ RbpaType' /\ RbpaKept
  BY TypeStep DEF RbpaInv, R!Next
<1>2. rules' = R!Distinct(rules) /\ silent = None /\ UNCHANGED <<given, silent, next, buf>>
  BY DEF R!RemoveDuplicates
<1>3. Rho = {} /\ Rho' = {} /\ Given' = Given
  BY <1>2 DEF Rho, Given
<1>4. /\ \A n \in DOMAIN rules' : \E i \in DOMAIN rules : rules'[n] = rules[i]
      /\ \A i \in DOMAIN rules : \E n \in DOMAIN rules' : rules'[n] = rules[i]
  BY <1>1, <1>2, DistinctIs DEF RbpaType
<1>5. ASSUME NEW x PROVE x \in R!StepsOf(rules') <=> x \in R!StepsOf(rules)
  BY <1>4, StepsOfIs
<1>6. All' = All
  BY <1>2, <1>5 DEF All
<1>7. \A P, Q : P = {} => Before(P, Q) = {}
  BY BeforeIs
<1> QED
  BY <1>1, <1>3, <1>6, <1>7 DEF RbpaKept

\* every step keeps it
LEMMA RbpaStep ==
  ASSUME SilenceAssumption, RbpaInv, R!Next PROVE RbpaInv'
<1>1. RbpaType'
  BY TypeStep DEF RbpaInv
<1>2. CASE R!RemoveSilent
  <2>1. exact' = exact
    BY <1>2 DEF R!RemoveSilent
  <2> QED
    BY <1>1, <1>2, <2>1, RemoveKept DEF RbpaInv
<1>3. CASE R!Compose
  BY <1>1, <1>3, ComposeKept DEF RbpaInv
<1>4. CASE R!AppendComposed
  <2>1. exact' = exact
    BY <1>4 DEF R!AppendComposed
  <2> QED
    BY <1>1, <1>4, <2>1, AppendKept DEF RbpaInv
<1>5. CASE R!RemoveDuplicates
  <2>1. exact' = exact
    BY <1>5 DEF R!RemoveDuplicates
  <2> QED
    BY <1>1, <1>5, <2>1, DuplicatesKept DEF RbpaInv
<1> QED
  BY <1>2, <1>3, <1>4, <1>5 DEF R!Next

\* and it says that the port steps are kept
LEMMA InvGivesKept ==
  ASSUME RbpaInv PROVE R!PortStepsKept
<1> SUFFICES ASSUME exact, silent = None
             PROVE  R!PortSteps(R!StepsOf(rules)) = R!PortSteps(R!StepsOf(given))
  BY DEF R!PortStepsKept
<1>1. RbpaType /\ RbpaKept
  BY DEF RbpaInv
<1>2. All = R!StepsOf(rules) /\ Rho = {}
  BY <1>1, StepsOfIs DEF RbpaType, All, Rho, R!StepsOf
<1>3. PortSteps(All) \subseteq PortSteps(Given)
  BY <1>1, Sound DEF RbpaKept
<1>4. PortSteps(Given) \subseteq PortSteps(All)
  <2>1. All \cup Rho = All
    BY <1>2
  <2> QED
    BY <1>1, <2>1 DEF RbpaKept
<1> QED
  BY <1>2, <1>3, <1>4, SameSets DEF Given

-----------------------------------------------------------------------------
(* AbstractRules *)

\* what a rule requires it also assigns
Specific(r) == \A i \in Var : r.assign[i] = "X" => r.guard[i] = "X"
\* the states in which a rule can be applied, and what it makes of them
Fits(r, P) == \A i \in Var : r.guard[i] = "X" \/ P[i] = "X" \/ r.guard[i] = P[i]
Res(r, P) == [i \in Var |-> IF r.assign[i] = "X" THEN P[i] ELSE r.assign[i]]

\* the parts of a rule
LEMMA AbstractIs ==
  ASSUME NEW r \in A!Rule
  PROVE  /\ r.guard \in A!Pred /\ r.assign \in A!Pred
         /\ r = [guard |-> r.guard, port |-> r.port, assign |-> r.assign]
  BY DEF A!Rule

\* predicates with the same values are the same
LEMMA SamePred ==
  ASSUME NEW P \in A!Pred, NEW Q \in A!Pred, \A i \in Var : P[i] = Q[i] PROVE P = Q
  BY DEF A!Pred

\* a rule fits a state that its guard does not contradict
LEMMA ClashIs ==
  ASSUME NEW r, NEW P PROVE A!Clash(r.guard, P) <=> ~Fits(r, P)
  BY DEF A!Clash, A!mismatches, A!Generic, Fits

\* what a rule makes of a state
LEMMA ResIs ==
  ASSUME NEW r \in A!Rule, NEW P \in A!Pred
  PROVE  /\ Res(r, P) \in A!Pred
         /\ \A i \in Var : Res(r, P)[i] = IF r.assign[i] = "X" THEN P[i] ELSE r.assign[i]
<1>1. r.assign \in A!Pred
  BY AbstractIs
<1> QED
  BY <1>1 DEF Res, A!Pred

\* apply gives that, to the states the rule fits
LEMMA ApplyIs ==
  ASSUME SilenceAssumption, NEW r \in A!Rule, Specific(r), NEW P \in A!Pred
  PROVE  /\ A!apply(r, P) # None <=> Fits(r, P)
         /\ Fits(r, P) => A!apply(r, P) = Res(r, P)
<1>1. r.guard \in A!Pred /\ r.assign \in A!Pred
  BY AbstractIs
<1>2. Fits(r, P) => A!apply(r, P) = A!make_specific_wrt(r.assign, A!make_specific_wrt(r.guard, P))
  BY ClashIs DEF A!apply
<1> DEFINE Q == A!make_specific_wrt(r.guard, P)
           S == A!make_specific_wrt(r.assign, Q)
<1>3. Q = [i \in Var |-> IF r.guard[i] = "X" THEN P[i] ELSE r.guard[i]]
  BY DEF A!make_specific_wrt, A!Generic
<1>4. Q \in A!Pred
  BY <1>1, <1>3 DEF A!Pred
<1>5. S = [i \in Var |-> IF r.assign[i] = "X" THEN Q[i] ELSE r.assign[i]]
  BY DEF A!make_specific_wrt, A!Generic
<1> HIDE DEF Q
<1>6. S \in A!Pred
  BY <1>1, <1>4, <1>5 DEF A!Pred
<1>7. \A i \in Var : S[i] = IF r.assign[i] # "X" THEN r.assign[i] ELSE P[i]
  BY <1>3, <1>5 DEF Specific
<1> HIDE DEF S
<1>8. S = Res(r, P)
  BY <1>6, <1>7, ResIs, SamePred
<1>9. A!apply(r, P) # None <=> Fits(r, P)
  <2>1. None \notin A!Pred
    BY DEF SilenceAssumption, A!WellFormed
  <2>2. CASE Fits(r, P)
    BY <1>2, <1>6, <2>1, <2>2 DEF S, Q
  <2>3. CASE ~Fits(r, P)
    BY <2>3, ClashIs DEF A!apply
  <2> QED
    BY <2>2, <2>3
<1> QED
  BY <1>2, <1>8, <1>9 DEF S, Q

\* what the mask leaves of a predicate
LEMMA MaskIs ==
  ASSUME NEW P \in A!Pred, NEW vs
  PROVE  /\ A!mask(P, vs) \in A!Pred
         /\ \A i \in Var : A!mask(P, vs)[i] = IF i \in vs THEN P[i] ELSE "X"
  BY DEF A!mask, A!Pred

\* a concrete state leaves nothing open
LEMMA ConcreteIs ==
  ASSUME NEW P \in A!Concrete
  PROVE  P \in A!Pred /\ \A i \in Var : P[i] # "X"
  BY DEF A!Concrete, A!Pred

\* with every variable relevant nothing is masked
LEMMA MaskAll ==
  ASSUME NEW P \in A!Pred PROVE A!mask(P, Var) = P
<1>1. \A i \in Var : A!mask(P, Var)[i] = P[i]
  BY MaskIs
<1> QED
  BY <1>1, MaskIs, SamePred

\* the steps of a rule
StepOf(r, P) == <<P, r.port, Res(r, P)>>

\* the steps of a rule through a mask
LEMMA RuleStepsAre ==
  ASSUME SilenceAssumption, NEW r \in A!Rule, Specific(r), NEW vs, NEW x
  PROVE  x \in A!RuleSteps(r, vs) <=>
            \E Q \in A!Concrete : Fits(r, A!mask(Q, vs)) /\ x = StepOf(r, A!mask(Q, vs))
<1>1. ASSUME NEW Q \in A!Concrete
      PROVE  /\ A!mask(Q, vs) \in A!Pred
             /\ A!apply(r, A!mask(Q, vs)) # None <=> Fits(r, A!mask(Q, vs))
             /\ Fits(r, A!mask(Q, vs)) => A!apply(r, A!mask(Q, vs)) = Res(r, A!mask(Q, vs))
  <2>1. A!mask(Q, vs) \in A!Pred
    BY ConcreteIs, MaskIs
  <2> QED
    BY <2>1, ApplyIs
<1>2. ASSUME x \in A!RuleSteps(r, vs)
      PROVE  \E Q \in A!Concrete : Fits(r, A!mask(Q, vs)) /\ x = StepOf(r, A!mask(Q, vs))
  <2>1. PICK Q \in A!Concrete : /\ A!apply(r, A!mask(Q, vs)) # None
                                /\ x = <<A!mask(Q, vs), r.port, A!apply(r, A!mask(Q, vs))>>
    BY <1>2 DEF A!RuleSteps
  <2> QED
    BY <1>1, <2>1 DEF StepOf
<1>3. ASSUME NEW Q \in A!Concrete, Fits(r, A!mask(Q, vs)), x = StepOf(r, A!mask(Q, vs))
      PROVE  x \in A!RuleSteps(r, vs)
  <2>1. /\ A!apply(r, A!mask(Q, vs)) # None
        /\ x = <<A!mask(Q, vs), r.port, A!apply(r, A!mask(Q, vs))>>
    BY <1>1, <1>3 DEF StepOf
  <2> QED
    BY <2>1 DEF A!RuleSteps
<1> QED
  BY <1>2, <1>3

\* the steps of a rule between concrete states
LEMMA ConcreteSteps ==
  ASSUME SilenceAssumption, NEW r \in A!Rule, Specific(r), NEW x
  PROVE  x \in A!RuleSteps(r, Var) <=> \E P \in A!Concrete : Fits(r, P) /\ x = StepOf(r, P)
<1>1. \A P \in A!Concrete : A!mask(P, Var) = P
  BY ConcreteIs, MaskAll
<1>2. x \in A!RuleSteps(r, Var) <=>
         \E Q \in A!Concrete : Fits(r, A!mask(Q, Var)) /\ x = StepOf(r, A!mask(Q, Var))
  BY RuleStepsAre
<1> QED
  BY <1>1, <1>2

\* MkRule makes rules that assign what they require
LEMMA MkRuleIs ==
  ASSUME NEW g \in A!Pred, NEW a \in A!Pred, NEW p
  PROVE  LET r == A!MkRule(g, p, a) IN
         /\ r.guard = g /\ r.port = p /\ r.assign \in A!Pred
         /\ \A i \in Var : r.assign[i] = IF a[i] = "X" THEN g[i] ELSE a[i]
         /\ Specific(r)
         /\ r = [guard |-> g, port |-> p, assign |-> r.assign]
<1> DEFINE r == A!MkRule(g, p, a)
           b == [i \in Var |-> IF a[i] = "X" THEN g[i] ELSE a[i]]
<1>1. r = [guard |-> g, port |-> p, assign |-> b]
  BY DEF A!MkRule, A!make_specific_wrt, A!Generic
<1>2. b \in A!Pred /\ \A i \in Var : b[i] = IF a[i] = "X" THEN g[i] ELSE a[i]
  BY DEF A!Pred
<1> HIDE DEF b
<1> QED
  BY <1>1, <1>2 DEF Specific

\* The port of a rule that is made is the port of one there was.
LEMMA MkRuleType ==
  ASSUME NEW g \in A!Pred, NEW a \in A!Pred, NEW r \in A!Rule
  PROVE  A!MkRule(g, r.port, a) \in A!Rule /\ Specific(A!MkRule(g, r.port, a))
<1> DEFINE m == A!MkRule(g, r.port, a)
<1>1. /\ m.assign \in A!Pred /\ Specific(m)
      /\ m = [guard |-> g, port |-> r.port, assign |-> m.assign]
  BY MkRuleIs
<1>2. \A b \in A!Pred : [guard |-> g, port |-> r.port, assign |-> b] \in A!Rule
  BY DEF A!Rule
<1> QED
  BY <1>1, <1>2

\* A rule composed with a silent one before it, and what it does.
LEMMA ComposedIs ==
  ASSUME NEW r1 \in A!Rule, NEW r2 \in A!Rule, Specific(r1), Specific(r2), r1.port = None
  PROVE  LET c == A!composed(r1, r2)
             clash == \E i \in Var : r1.assign[i] # r2.guard[i] /\ r1.assign[i] # "X" /\ r2.guard[i] # "X"
         IN  /\ clash => c = None
             /\ ~clash => /\ c \in A!Rule /\ Specific(c) /\ c.port = r2.port
                          /\ \A i \in Var : c.guard[i] = IF r1.assign[i] = "X" THEN r2.guard[i] ELSE r1.guard[i]
                          /\ \A i \in Var : c.assign[i] = IF r2.assign[i] = "X" THEN r1.assign[i] ELSE r2.assign[i]
<1> DEFINE c == A!composed(r1, r2)
           g == [i \in Var |-> IF r1.guard[i] = "X" /\ r1.assign[i] = "X" THEN r2.guard[i] ELSE r1.guard[i]]
           a == [i \in Var |-> IF r2.guard[i] # "X" \/ r2.assign[i] # "X" THEN r2.assign[i]
                               ELSE IF r1.assign[i] = "X" THEN r1.guard[i] ELSE r1.assign[i]]
<1>1. /\ r1.guard \in A!Pred /\ r1.assign \in A!Pred
      /\ r2.guard \in A!Pred /\ r2.assign \in A!Pred
  BY AbstractIs
<1>2. A!can_precede(r1, r2) <=>
         ~\E i \in Var : r1.assign[i] # r2.guard[i] /\ r1.assign[i] # "X" /\ r2.guard[i] # "X"
  BY DEF A!can_precede, A!Clash, A!mismatches, A!Generic, A!is_silent
<1>3. A!can_precede(r1, r2) => c = A!MkRule(g, r2.port, a)
  BY DEF A!composed, A!is_silent, A!Generic
<1>4. ~A!can_precede(r1, r2) => c = None
  BY DEF A!composed
<1>5. g \in A!Pred /\ a \in A!Pred
  BY <1>1 DEF A!Pred
<1>6. /\ \A i \in Var : g[i] = IF r1.assign[i] = "X" THEN r2.guard[i] ELSE r1.guard[i]
      /\ \A i \in Var : a[i] = IF r2.assign[i] = "X" THEN r1.assign[i] ELSE r2.assign[i]
  BY DEF Specific
<1> HIDE DEF g, a
<1> DEFINE m == A!MkRule(g, r2.port, a)
<1>7. /\ m.guard = g /\ m.port = r2.port /\ Specific(m) /\ m \in A!Rule
      /\ \A i \in Var : m.assign[i] = IF a[i] = "X" THEN g[i] ELSE a[i]
  BY <1>5, MkRuleIs, MkRuleType
<1>8. \A i \in Var : m.assign[i] = IF r2.assign[i] = "X" THEN r1.assign[i] ELSE r2.assign[i]
  BY <1>6, <1>7 DEF Specific
<1> HIDE DEF m
<1> QED
  BY <1>2, <1>3, <1>4, <1>6, <1>7, <1>8 DEF m

\* a rule composed with a silent one does what the two do one after the other
LEMMA ComposedExact ==
  ASSUME SilenceAssumption, NEW r1 \in A!Rule, NEW r2 \in A!Rule, Specific(r1), Specific(r2), r1.port = None
  PROVE  LET c == A!composed(r1, r2) IN
         Before(A!RuleSteps(r1, Var), A!RuleSteps(r2, Var)) = IF c = None THEN {} ELSE A!RuleSteps(c, Var)
<1> DEFINE c == A!composed(r1, r2)
           B == Before(A!RuleSteps(r1, Var), A!RuleSteps(r2, Var))
           clash == \E i \in Var : r1.assign[i] # r2.guard[i] /\ r1.assign[i] # "X" /\ r2.guard[i] # "X"
<1>1. ASSUME NEW x
      PROVE  x \in B <=> \E P \in A!Concrete : /\ Fits(r1, P) /\ Fits(r2, Res(r1, P))
                                               /\ x = <<P, r2.port, Res(r2, Res(r1, P))>>
  <2>1. ASSUME x \in B
        PROVE  \E P \in A!Concrete : /\ Fits(r1, P) /\ Fits(r2, Res(r1, P))
                                     /\ x = <<P, r2.port, Res(r2, Res(r1, P))>>
    <3>1. PICK p \in A!RuleSteps(r1, Var), q \in A!RuleSteps(r2, Var) : q[1] = p[3] /\ x = <<p[1], q[2], q[3]>>
      BY <2>1, BeforeIs
    <3>2. PICK P \in A!Concrete : Fits(r1, P) /\ p = StepOf(r1, P)
      BY <3>1, ConcreteSteps
    <3>3. PICK Q \in A!Concrete : Fits(r2, Q) /\ q = StepOf(r2, Q)
      BY <3>1, ConcreteSteps
    <3>4. Q = Res(r1, P) /\ x = <<P, r2.port, Res(r2, Q)>>
      BY <3>1, <3>2, <3>3 DEF StepOf
    <3> QED
      BY <3>2, <3>3, <3>4
  <2>2. ASSUME NEW P \in A!Concrete, Fits(r1, P), Fits(r2, Res(r1, P)),
               x = <<P, r2.port, Res(r2, Res(r1, P))>>
        PROVE  x \in B
    <3>1. Res(r1, P) \in A!Concrete
      <4>1. P \in A!Pred /\ \A i \in Var : P[i] # "X"
        BY ConcreteIs
      <4>2. Res(r1, P) \in A!Pred /\ \A i \in Var : Res(r1, P)[i] # "X"
        BY <4>1, ResIs
      <4> QED
        BY <4>2 DEF A!Pred, A!Concrete
    <3>2. StepOf(r1, P) \in A!RuleSteps(r1, Var) /\ StepOf(r2, Res(r1, P)) \in A!RuleSteps(r2, Var)
      BY <2>2, <3>1, ConcreteSteps
    <3>3. /\ StepOf(r1, P)[1] = P /\ StepOf(r1, P)[3] = Res(r1, P)
          /\ StepOf(r2, Res(r1, P))[1] = Res(r1, P) /\ StepOf(r2, Res(r1, P))[2] = r2.port
          /\ StepOf(r2, Res(r1, P))[3] = Res(r2, Res(r1, P))
      BY DEF StepOf
    <3> QED
      BY <2>2, <3>2, <3>3, BeforeIs
  <2> QED
    BY <2>1, <2>2
<1>2. ASSUME NEW P \in A!Concrete
      PROVE  /\ P \in A!Pred /\ Res(r1, P) \in A!Pred
             /\ \A i \in Var : P[i] # "X"
             /\ \A i \in Var : Res(r1, P)[i] = IF r1.assign[i] = "X" THEN P[i] ELSE r1.assign[i]
  BY ConcreteIs, ResIs
<1>3. CASE clash
  <2>1. c = None
    BY <1>3, ComposedIs
  <2>2. \A P \in A!Concrete : ~Fits(r2, Res(r1, P))
    BY <1>2, <1>3 DEF Fits
  <2> QED
    BY <1>1, <2>1, <2>2
<1>4. CASE ~clash
  <2>1. /\ c \in A!Rule /\ Specific(c) /\ c.port = r2.port
        /\ \A i \in Var : c.guard[i] = IF r1.assign[i] = "X" THEN r2.guard[i] ELSE r1.guard[i]
        /\ \A i \in Var : c.assign[i] = IF r2.assign[i] = "X" THEN r1.assign[i] ELSE r2.assign[i]
    BY <1>4, ComposedIs
  <2>2. c # None
    BY <2>1 DEF SilenceAssumption, A!WellFormed
  <2> HIDE DEF c
  <2>3. ASSUME NEW P \in A!Concrete
        PROVE  /\ Fits(c, P) <=> Fits(r1, P) /\ Fits(r2, Res(r1, P))
               /\ Res(c, P) = Res(r2, Res(r1, P))
    <3>1. ASSUME NEW i \in Var
          PROVE  (c.guard[i] = "X" \/ P[i] = "X" \/ c.guard[i] = P[i]) <=>
                   /\ (r1.guard[i] = "X" \/ P[i] = "X" \/ r1.guard[i] = P[i])
                   /\ (r2.guard[i] = "X" \/ Res(r1, P)[i] = "X" \/ r2.guard[i] = Res(r1, P)[i])
      <4>1. c.guard[i] = IF r1.assign[i] = "X" THEN r2.guard[i] ELSE r1.guard[i]
        BY <2>1
      <4>2. Res(r1, P)[i] = (IF r1.assign[i] = "X" THEN P[i] ELSE r1.assign[i]) /\ P[i] # "X"
        BY <1>2
      <4>3. r1.assign[i] = "X" => r1.guard[i] = "X"
        BY DEF Specific
      <4> QED
        BY <1>4, <4>1, <4>2, <4>3
    <3>2. Fits(c, P) <=> Fits(r1, P) /\ Fits(r2, Res(r1, P))
      BY <3>1 DEF Fits
    <3>3. /\ Res(c, P) \in A!Pred /\ Res(r2, Res(r1, P)) \in A!Pred
          /\ \A i \in Var : Res(c, P)[i] = IF c.assign[i] = "X" THEN P[i] ELSE c.assign[i]
          /\ \A i \in Var : Res(r2, Res(r1, P))[i] = IF r2.assign[i] = "X" THEN Res(r1, P)[i] ELSE r2.assign[i]
      BY <1>2, <2>1, ResIs
    <3>4. \A i \in Var : Res(c, P)[i] = Res(r2, Res(r1, P))[i]
      BY <1>2, <2>1, <3>3
    <3> QED
      BY <3>2, <3>3, <3>4, SamePred
  <2>4. ASSUME NEW x PROVE x \in A!RuleSteps(c, Var) <=> x \in B
    <3>1. x \in A!RuleSteps(c, Var) <=> \E P \in A!Concrete : Fits(c, P) /\ x = StepOf(c, P)
      BY <2>1, ConcreteSteps
    <3>2. \A P \in A!Concrete : StepOf(c, P) = <<P, r2.port, Res(r2, Res(r1, P))>>
      BY <2>1, <2>3 DEF StepOf
    <3> HIDE DEF B
    <3> QED
      BY <1>1, <2>3, <3>1, <3>2
  <2> HIDE DEF B
  <2>5. B = A!RuleSteps(c, Var)
    BY <2>4
  <2> QED
    BY <2>2, <2>5 DEF B, c
<1> QED
  BY <1>3, <1>4

AbstractRule == {r \in A!Rule : Specific(r)}

\* rules are masked only once no silent one is left
AbstractType ==
    /\ rba \in Seq(AbstractRule) /\ original \in Seq(AbstractRule)
    /\ relevant \subseteq Var
    /\ stage \in {"silent", "merge", "mask", "final", "done"}
    /\ stage \in {"silent", "merge"} => relevant = Var
    /\ stage \notin {"silent", "merge"} => \A i \in DOMAIN rba : rba[i].port # None

\* a step, as the mask lets it be seen
MaskStep(x, vs) == <<A!mask(x[1], vs), x[2], A!mask(x[3], vs)>>
Seen(T, vs) == {MaskStep(x, vs) : x \in T}

\* SimulatesOriginal, as the proof uses it
AbstractKept ==
    faithful => PortSteps(A!StepsOfAll(rba, relevant)) = Seen(PortSteps(A!StepsOfAll(original, Var)), relevant)

AbstractInv == AbstractType /\ AbstractKept

\* the inductive invariant says what SimulatesOriginal says
LEMMA AbstractInvGives == AbstractInv => A!SimulatesOriginal
<1>1. \A T : A!PortSteps(T) = PortSteps(T)
  BY SameSets
<1> QED
  BY <1>1 DEF AbstractInv, AbstractKept, A!SimulatesOriginal, A!AtomicSteps, Seen, MaskStep

\* the steps of several rules
LEMMA StepsOfAllIs ==
  ASSUME NEW rs, NEW vs, NEW x
  PROVE  x \in A!StepsOfAll(rs, vs) <=> \E i \in DOMAIN rs : x \in A!RuleSteps(rs[i], vs)
  BY DEF A!StepsOfAll

\* port steps begin where steps begin and end where steps end
LEMMA PortStepEnds ==
  ASSUME NEW T, NEW y \in PortSteps(T)
  PROVE  /\ y = <<y[1], y[2], y[3]>> /\ y[2] # None
         /\ \E x \in T : x[1] = y[1]
         /\ \E x \in T : x[3] = y[3]
<1>1. PICK s, z : PortStep(s, z, T) /\ y = <<s, z[2], z[3]>>
  BY PortStepsAre
<1>2. y[1] = s /\ y[2] = z[2] /\ y[3] = z[3]
  BY <1>1
<1>3. \E x \in T : x[1] = s
  <2>1. CASE z[1] = s
    BY <1>1, <2>1 DEF PortStep
  <2>2. CASE z[1] # s
    BY <1>1, <2>2, FromStuck DEF PortStep
  <2> QED
    BY <2>1, <2>2
<1> QED
  BY <1>1, <1>2, <1>3 DEF PortStep

\* without silent steps the port steps are the steps
LEMMA PortStepsLoud ==
  ASSUME NEW T, \A x \in T : x[2] # None /\ x = <<x[1], x[2], x[3]>>
  PROVE  PortSteps(T) = T
<1>1. \A s : SilentlyFrom(s, T) = {s}
  BY FromStuck
<1>2. ASSUME NEW y \in PortSteps(T) PROVE y \in T
  <2>1. PICK s, z : PortStep(s, z, T) /\ y = <<s, z[2], z[3]>>
    BY PortStepsAre
  <2> QED
    BY <1>1, <2>1 DEF PortStep
<1>3. ASSUME NEW y \in T PROVE y \in PortSteps(T)
  <2>1. PortStep(y[1], y, T) /\ y = <<y[1], y[2], y[3]>>
    BY FromSelf DEF PortStep
  <2> QED
    BY <2>1, PortStepsAre
<1> QED
  BY <1>2, <1>3

\* what the steps of a rule look like
LEMMA RuleStepIs ==
  ASSUME SilenceAssumption, NEW r \in AbstractRule, NEW vs, NEW x \in A!RuleSteps(r, vs)
  PROVE  /\ x = <<x[1], x[2], x[3]>> /\ x[2] = r.port
         /\ x[1] \in A!Pred /\ x[3] \in A!Pred /\ x[3] = Res(r, x[1])
<1>1. r \in A!Rule /\ Specific(r)
  BY DEF AbstractRule
<1>2. PICK Q \in A!Concrete : x = StepOf(r, A!mask(Q, vs))
  BY <1>1, RuleStepsAre
<1>3. A!mask(Q, vs) \in A!Pred
  BY ConcreteIs, MaskIs
<1>4. Res(r, A!mask(Q, vs)) \in A!Pred
  BY <1>1, <1>3, ResIs
<1> QED
  BY <1>2, <1>3, <1>4 DEF StepOf

\* their parts
LEMMA AllStepIs ==
  ASSUME SilenceAssumption, NEW rs \in Seq(AbstractRule), NEW vs, NEW x \in A!StepsOfAll(rs, vs)
  PROVE  x = <<x[1], x[2], x[3]>> /\ x[1] \in A!Pred /\ x[3] \in A!Pred
<1>1. PICK i \in DOMAIN rs : x \in A!RuleSteps(rs[i], vs)
  BY StepsOfAllIs
<1>2. rs[i] \in AbstractRule
  OBVIOUS
<1> QED
  BY <1>1, <1>2, RuleStepIs

\* with every variable relevant the mask hides nothing
LEMMA SeenAll ==
  ASSUME SilenceAssumption, NEW rs \in Seq(AbstractRule), NEW vs
  PROVE  Seen(PortSteps(A!StepsOfAll(rs, vs)), Var) = PortSteps(A!StepsOfAll(rs, vs))
<1> DEFINE T == PortSteps(A!StepsOfAll(rs, vs))
<1>1. ASSUME NEW y \in T PROVE MaskStep(y, Var) = y
  <2>1. y = <<y[1], y[2], y[3]>> /\ y[1] \in A!Pred /\ y[3] \in A!Pred
    BY PortStepEnds, AllStepIs
  <2>2. A!mask(y[1], Var) = y[1] /\ A!mask(y[3], Var) = y[3]
    BY <2>1, MaskAll
  <2> QED
    BY <2>1, <2>2 DEF MaskStep
<1> HIDE DEF T
<1>2. Seen(T, Var) = T
  BY <1>1 DEF Seen
<1> QED
  BY <1>2 DEF T

\* hiding ports makes rules of rules
LEMMA HideIs ==
  ASSUME SilenceAssumption, NEW rs \in Automata, NEW ports
  PROVE  A!Hide(rs, ports) \in Seq(AbstractRule)
<1>1. rs \in Seq(A!Rule)
  BY DEF SilenceAssumption, A!WellFormed
<1>2. ASSUME NEW i \in DOMAIN rs PROVE A!Hide(rs, ports)[i] \in AbstractRule
  <2>1. rs[i] \in A!Rule
    BY <1>1
  <2>2. A!make_specific_wrt(rs[i].assign, rs[i].guard) = rs[i].assign
    BY DEF SilenceAssumption, A!WellFormed
  <2>3. rs[i].guard \in A!Pred /\ rs[i].assign \in A!Pred
        /\ rs[i] = [guard |-> rs[i].guard, port |-> rs[i].port, assign |-> rs[i].assign]
    BY <2>1, AbstractIs
  <2>4. ASSUME NEW j \in Var, rs[i].assign[j] = "X" PROVE rs[i].guard[j] = "X"
    <3>1. A!make_specific_wrt(rs[i].assign, rs[i].guard)[j] = rs[i].guard[j]
      BY <2>4 DEF A!make_specific_wrt, A!Generic
    <3> QED
      BY <2>2, <2>4, <3>1
  <2> DEFINE h == [rs[i] EXCEPT !.port = None]
  <2>5. h = [guard |-> rs[i].guard, port |-> None, assign |-> rs[i].assign]
    BY <2>3
  <2>6. h \in A!Rule
    BY <2>3, <2>5 DEF A!Rule
  <2>7. Specific(rs[i]) /\ Specific(h)
    BY <2>4, <2>5 DEF Specific
  <2>8. A!Hide(rs, ports)[i] = rs[i] \/ A!Hide(rs, ports)[i] = h
    BY DEF A!Hide
  <2> HIDE DEF h
  <2> QED
    BY <2>1, <2>6, <2>7, <2>8 DEF AbstractRule
<1>3. A!Hide(rs, ports) = [i \in 1 .. Len(rs) |-> A!Hide(rs, ports)[i]]
  BY <1>1 DEF A!Hide
<1>4. Len(rs) \in Nat /\ DOMAIN rs = 1 .. Len(rs)
  BY <1>1
<1> QED
  BY <1>2, <1>3, <1>4

\* it holds when normalize begins
LEMMA AbstractInit == ASSUME SilenceAssumption, A!Init PROVE AbstractInv
<1>1. original \in Seq(AbstractRule) /\ rba = original /\ relevant = Var /\ stage = "silent"
  BY HideIs DEF A!Init
<1>2. AbstractType
  BY <1>1 DEF AbstractType
<1>3. PortSteps(A!StepsOfAll(rba, relevant)) = Seen(PortSteps(A!StepsOfAll(original, Var)), relevant)
  BY <1>1, SeenAll
<1> QED
  BY <1>2, <1>3 DEF AbstractInv, AbstractKept

\* Select, as AbstractRules knows it
LEMMA ASelectIs ==
  ASSUME NEW S, NEW rs \in Seq(S), NEW I \in SUBSET DOMAIN rs
  PROVE  /\ A!Select(rs, I) \in Seq(S)
         /\ \A n \in DOMAIN A!Select(rs, I) : \E i \in I : A!Select(rs, I)[n] = rs[i]
         /\ \A i \in I : \E n \in DOMAIN A!Select(rs, I) : A!Select(rs, I)[n] = rs[i]
<1>1. A!Select(rs, I) = Select(rs, I)
  BY SameSets
<1>2. /\ Select(rs, I) \in Seq(S)
      /\ \A n \in DOMAIN Select(rs, I) : \E i \in I : Select(rs, I)[n] = rs[i]
      /\ \A i \in I : \E n \in DOMAIN Select(rs, I) : Select(rs, I)[n] = rs[i]
  BY SelectIs
<1> QED
  BY <1>1, <1>2

\* removing a silent rule
LEMMA AbstractRemoved ==
  ASSUME SilenceAssumption, AbstractType, A!RemoveSilentRule
  PROVE  \E idx \in DOMAIN rba :
            LET rho == A!RuleSteps(rba[idx], Var)
                rest == UNION {A!RuleSteps(rba[i], Var) : i \in DOMAIN rba \ {idx}}
            IN  /\ rba[idx].port = None
                /\ rba' \in Seq(AbstractRule)
                /\ \/ A!StepsOfAll(rba', Var) = rest /\ A!no_effect(rba[idx])
                   \/ A!StepsOfAll(rba', Var) = rest \cup Before(rho, rest)
<1> DEFINE I == A!SilentIdx
           idx == CHOOSE i \in I : \A j \in I : i <= j
           kept == DOMAIN rba \ {idx}
           others == A!Select(rba, kept)
           pairs == [i \in DOMAIN others |-> A!composed(rba[idx], others[i])]
           good == {i \in DOMAIN pairs : pairs[i] # None}
           rho == A!RuleSteps(rba[idx], Var)
           rest == UNION {A!RuleSteps(rba[i], Var) : i \in kept}
<1>1. rba \in Seq(AbstractRule) /\ DOMAIN rba = 1 .. Len(rba) /\ Len(rba) \in Nat
  BY DEF AbstractType
<1>2. idx \in DOMAIN rba /\ rba[idx].port = None
  <2>1. I \subseteq Nat /\ I # {}
    BY <1>1 DEF A!SilentIdx, A!RemoveSilentRule
  <2>2. \E i \in I : \A j \in I : i <= j
    BY <2>1, Least
  <2>3. idx \in I
    BY <2>2
  <2> QED
    BY <2>3 DEF A!SilentIdx, A!is_silent
<1>3. /\ \/ A!no_effect(rba[idx]) /\ rba' = others
         \/ rba' = others \o A!Select(pairs, good)
  BY DEF A!RemoveSilentRule
<1> HIDE DEF idx
<1>4. rba[idx] \in A!Rule /\ Specific(rba[idx])
  BY <1>1, <1>2 DEF AbstractRule
<1>5. /\ others \in Seq(AbstractRule)
      /\ \A n \in DOMAIN others : \E i \in kept : others[n] = rba[i]
      /\ \A i \in kept : \E n \in DOMAIN others : others[n] = rba[i]
  <2>1. kept \in SUBSET DOMAIN rba
    OBVIOUS
  <2> HIDE DEF kept
  <2> QED
    BY <1>1, <2>1, ASelectIs
<1> HIDE DEF others
<1>6. A!StepsOfAll(others, Var) = rest
  <2>1. \A x : x \in A!StepsOfAll(others, Var) <=> \E n \in DOMAIN others : x \in A!RuleSteps(others[n], Var)
    BY StepsOfAllIs
  <2>2. \A x : x \in rest <=> \E i \in kept : x \in A!RuleSteps(rba[i], Var)
    OBVIOUS
  <2> HIDE DEF rest, kept
  <2>3. \A x : x \in A!StepsOfAll(others, Var) <=> x \in rest
    BY <1>5, <2>1, <2>2
  <2> QED
    BY <2>3
<1>7. DOMAIN others = 1 .. Len(others) /\ Len(others) \in Nat
  BY <1>5
<1> DEFINE S == AbstractRule \cup {None}
<1>8. ASSUME NEW i \in DOMAIN others
      PROVE  /\ pairs[i] \in S
             /\ Before(rho, A!RuleSteps(others[i], Var)) = IF pairs[i] = None THEN {} ELSE A!RuleSteps(pairs[i], Var)
  <2>1. others[i] \in A!Rule /\ Specific(others[i])
    BY <1>5 DEF AbstractRule
  <2>2. pairs[i] = A!composed(rba[idx], others[i])
    OBVIOUS
  <2>3. pairs[i] # None => pairs[i] \in AbstractRule
    BY <1>2, <1>4, <2>1, <2>2, ComposedIs DEF AbstractRule
  <2> QED
    BY <1>2, <1>4, <2>1, <2>2, <2>3, ComposedExact
<1>9. pairs \in Seq(S) /\ DOMAIN pairs = DOMAIN others
  BY <1>7, <1>8
<1> HIDE DEF pairs
<1> DEFINE added == A!Select(pairs, good)
<1>10. /\ added \in Seq(S)
       /\ \A n \in DOMAIN added : \E i \in good : added[n] = pairs[i]
       /\ \A i \in good : \E n \in DOMAIN added : added[n] = pairs[i]
  <2>1. good \in SUBSET DOMAIN pairs
    OBVIOUS
  <2> HIDE DEF good, S
  <2> QED
    BY <1>9, <2>1, ASelectIs
<1>11. added \in Seq(AbstractRule)
  <2>1. \A n \in DOMAIN added : added[n] \in AbstractRule
    BY <1>8, <1>9, <1>10
  <2>2. added \in Seq(S)
    BY <1>10
  <2> HIDE DEF added, S
  <2>3. DOMAIN added = 1 .. Len(added) /\ Len(added) \in Nat /\ added = [n \in 1 .. Len(added) |-> added[n]]
    BY <2>2
  <2> QED
    BY <2>1, <2>3
<1> HIDE DEF added
<1>12. A!StepsOfAll(added, Var) = Before(rho, rest)
  <2>1. ASSUME NEW x \in A!StepsOfAll(added, Var) PROVE x \in Before(rho, rest)
    <3>1. PICK n \in DOMAIN added : x \in A!RuleSteps(added[n], Var)
      BY <2>1, StepsOfAllIs
    <3>2. PICK i \in good : added[n] = pairs[i]
      BY <1>10 DEF added
    <3>3. x \in Before(rho, A!RuleSteps(others[i], Var))
      BY <1>8, <1>9, <3>1, <3>2
    <3>4. A!RuleSteps(others[i], Var) \subseteq rest
      BY <1>5, <1>9
    <3> QED
      BY <3>3, <3>4, BeforeMono
  <2>2. ASSUME NEW x \in Before(rho, rest) PROVE x \in A!StepsOfAll(added, Var)
    <3>1. PICK p \in rho, q \in rest : q[1] = p[3] /\ x = <<p[1], q[2], q[3]>>
      BY <2>2, BeforeIs
    <3>2. PICK k \in kept : q \in A!RuleSteps(rba[k], Var)
      BY <3>1
    <3>3. PICK i \in DOMAIN others : others[i] = rba[k]
      BY <1>5, <3>2
    <3>4. x \in Before(rho, A!RuleSteps(others[i], Var))
      BY <3>1, <3>2, <3>3, BeforeIs
    <3>5. pairs[i] # None /\ x \in A!RuleSteps(pairs[i], Var)
      BY <1>8, <3>4
    <3>6. PICK n \in DOMAIN added : added[n] = pairs[i]
      BY <1>9, <1>10, <3>5 DEF added
    <3> QED
      BY <3>5, <3>6, StepsOfAllIs
  <2> QED
    BY <2>1, <2>2
<1>13. CASE A!no_effect(rba[idx]) /\ rba' = others
  BY <1>2, <1>5, <1>6, <1>13
<1>14. CASE rba' = others \o added
  <2>1. /\ rba' \in Seq(AbstractRule)
        /\ Len(rba') = Len(others) + Len(added)
        /\ \A n \in 1 .. Len(rba') : rba'[n] = IF n <= Len(others) THEN others[n] ELSE added[n - Len(others)]
    BY <1>5, <1>11, <1>14
  <2>2. /\ DOMAIN rba' = 1 .. Len(rba') /\ Len(rba') \in Nat
        /\ DOMAIN added = 1 .. Len(added) /\ Len(added) \in Nat
    BY <1>11, <2>1
  <2>3. ASSUME NEW x
        PROVE  x \in A!StepsOfAll(rba', Var) <=>
                  x \in A!StepsOfAll(others, Var) \/ x \in A!StepsOfAll(added, Var)
    <3>1. ASSUME NEW i \in DOMAIN others, x \in A!RuleSteps(others[i], Var)
          PROVE  \E n \in DOMAIN rba' : x \in A!RuleSteps(rba'[n], Var)
      <4>1. i \in DOMAIN rba' /\ rba'[i] = others[i]
        BY <1>7, <2>1, <2>2
      <4> QED
        BY <3>1, <4>1
    <3>2. ASSUME NEW i \in DOMAIN added, x \in A!RuleSteps(added[i], Var)
          PROVE  \E n \in DOMAIN rba' : x \in A!RuleSteps(rba'[n], Var)
      <4>1. i + Len(others) \in 1 .. Len(rba') /\ ~(i + Len(others) <= Len(others))
            /\ (i + Len(others)) - Len(others) = i
        BY <1>7, <2>1, <2>2
      <4>2. rba'[i + Len(others)] = added[i]
        BY <2>1, <4>1
      <4> QED
        BY <2>2, <3>2, <4>1, <4>2
    <3>3. ASSUME NEW n \in DOMAIN rba', x \in A!RuleSteps(rba'[n], Var)
          PROVE  \/ \E i \in DOMAIN others : x \in A!RuleSteps(others[i], Var)
                 \/ \E i \in DOMAIN added : x \in A!RuleSteps(added[i], Var)
      <4>1. CASE n <= Len(others)
        <5>1. n \in DOMAIN others /\ rba'[n] = others[n]
          BY <1>7, <2>1, <2>2, <4>1
        <5> QED
          BY <3>3, <5>1
      <4>2. CASE ~(n <= Len(others))
        <5>1. n - Len(others) \in DOMAIN added /\ rba'[n] = added[n - Len(others)]
          BY <1>7, <2>1, <2>2, <4>2
        <5> QED
          BY <3>3, <5>1
      <4> QED
        BY <4>1, <4>2
    <3> QED
      BY <3>1, <3>2, <3>3, StepsOfAllIs
  <2>4. A!StepsOfAll(rba', Var) = rest \cup Before(rho, rest)
    BY <1>6, <1>12, <2>3
  <2> QED
    BY <1>2, <2>1, <2>4
<1> QED
  BY <1>3, <1>13, <1>14 DEF added

\* steps of rules with a silent rule among them
LEMMA AbstractIdempotent ==
  ASSUME SilenceAssumption, NEW r \in AbstractRule, NEW x \in A!RuleSteps(r, Var), NEW y \in A!RuleSteps(r, Var),
         x[3] = y[1]
  PROVE  y[3] = x[3]
<1>1. r \in A!Rule /\ x[1] \in A!Pred /\ x[3] \in A!Pred /\ y[3] \in A!Pred
      /\ x[3] = Res(r, x[1]) /\ y[3] = Res(r, x[3])
  BY RuleStepIs DEF AbstractRule
<1>2. /\ \A i \in Var : x[3][i] = IF r.assign[i] = "X" THEN x[1][i] ELSE r.assign[i]
      /\ \A i \in Var : y[3][i] = IF r.assign[i] = "X" THEN x[3][i] ELSE r.assign[i]
  BY <1>1, ResIs
<1> QED
  BY <1>1, <1>2, SamePred

\* a rule without effect leads from states to themselves
LEMMA NoEffectIs ==
  ASSUME SilenceAssumption, NEW r \in AbstractRule, A!no_effect(r), NEW x \in A!RuleSteps(r, Var)
  PROVE  x[3] = x[1]
<1>1. PICK P \in A!Concrete : Fits(r, P) /\ x = StepOf(r, P)
  BY ConcreteSteps DEF AbstractRule
<1>2. P \in A!Pred /\ \A i \in Var : P[i] # "X"
  BY ConcreteIs
<1>3. \A i \in Var : r.assign[i] = r.guard[i] \/ r.assign[i] = "X"
  BY DEF A!no_effect, A!Below, A!Generic
<1>4. Res(r, P) \in A!Pred /\ \A i \in Var : Res(r, P)[i] = IF r.assign[i] = "X" THEN P[i] ELSE r.assign[i]
  BY <1>2, ResIs DEF AbstractRule
<1>5. \A i \in Var : Res(r, P)[i] = P[i]
  BY <1>1, <1>2, <1>3, <1>4 DEF Fits
<1> QED
  BY <1>1, <1>2, <1>4, <1>5, SamePred DEF StepOf

\* removing a silent rule keeps the port steps
LEMMA RemovedPorts ==
  ASSUME SilenceAssumption, AbstractType, A!RemoveSilentRule
  PROVE  /\ PortSteps(A!StepsOfAll(rba', Var)) = PortSteps(A!StepsOfAll(rba, Var))
         /\ rba' \in Seq(AbstractRule)
<1>1. PICK idx \in DOMAIN rba :
            LET rho == A!RuleSteps(rba[idx], Var)
                rest == UNION {A!RuleSteps(rba[i], Var) : i \in DOMAIN rba \ {idx}}
            IN  /\ rba[idx].port = None
                /\ rba' \in Seq(AbstractRule)
                /\ \/ A!StepsOfAll(rba', Var) = rest /\ A!no_effect(rba[idx])
                   \/ A!StepsOfAll(rba', Var) = rest \cup Before(rho, rest)
  BY AbstractRemoved
<1> DEFINE r == rba[idx]
           rho == A!RuleSteps(r, Var)
           T == UNION {A!RuleSteps(rba[i], Var) : i \in DOMAIN rba \ {idx}}
           U == A!StepsOfAll(rba', Var)
           S == A!StepsOfAll(rba, Var)
<1>2. r \in AbstractRule /\ r.port = None
  BY <1>1 DEF AbstractType
<1>3. S = T \cup rho
  <2>1. \A x : x \in S <=> \E i \in DOMAIN rba : x \in A!RuleSteps(rba[i], Var)
    BY StepsOfAllIs
  <2>2. \A x : x \in T <=> \E i \in DOMAIN rba \ {idx} : x \in A!RuleSteps(rba[i], Var)
    OBVIOUS
  <2> HIDE DEF S, T
  <2> QED
    BY <2>1, <2>2
<1>4. \A x \in T \cup rho : x = <<x[1], x[2], x[3]>>
  BY <1>3, AllStepIs DEF AbstractType
<1>5. rba' \in Seq(AbstractRule) /\ ((U = T /\ A!no_effect(r)) \/ U = T \cup Before(rho, T))
  BY <1>1
<1> HIDE DEF T, U, S
<1>6. \A x \in rho : x[2] = None
  BY <1>2, RuleStepIs
<1>7. \A x, y \in rho : x[3] = y[1] => y[3] = x[3]
  BY <1>2, AbstractIdempotent
<1>8. CASE U = T /\ A!no_effect(r)
  <2>1. Absorbs(T, rho)
    <3>1. ASSUME NEW x \in rho, NEW y \in T, x[3] = y[1] PROVE <<x[1], y[2], y[3]>> \in T
      <4>1. x[1] = y[1] /\ y = <<y[1], y[2], y[3]>>
        BY <1>2, <1>4, <1>8, <3>1, NoEffectIs
      <4> QED
        BY <4>1
    <3> QED
      BY <3>1 DEF Absorbs
  <2> HIDE DEF rho, r
  <2>2. PortSteps(T \cup rho) \subseteq PortSteps(T)
    BY <1>6, <1>7, <2>1, Removal
  <2>3. PortSteps(T) \subseteq PortSteps(T \cup rho)
    BY PortStepsMono
  <2> QED
    BY <1>3, <1>5, <1>8, <2>2, <2>3 DEF U, S
<1>9. CASE U = T \cup Before(rho, T)
  <2> HIDE DEF rho, r
  <2>1. Absorbs(U, rho)
    <3>1. ASSUME NEW x \in rho, NEW y \in U, x[3] = y[1] PROVE <<x[1], y[2], y[3]>> \in U
      <4>1. CASE y \in T
        BY <1>9, <3>1, <4>1, BeforeIs
      <4>2. CASE y \in Before(rho, T)
        <5> DEFINE w == <<x[1], y[2], y[3]>>
        <5>1. w \in Before(rho, Before(rho, T))
          BY <3>1, <4>2, BeforeIs
        <5>2. w \in Before(rho, T)
          BY <1>7, <5>1, BeforeTwice
        <5> QED
          BY <1>9, <5>2
      <4> QED
        BY <1>9, <4>1, <4>2
    <3> QED
      BY <3>1 DEF Absorbs
  <2>2. PortSteps(U \cup rho) \subseteq PortSteps(U)
    BY <1>6, <1>7, <2>1, Removal
  <2>3. PortSteps(T \cup rho) \subseteq PortSteps(U \cup rho)
    BY <1>9, PortStepsMono
  <2>4. \A y \in U : Follows(y, T \cup rho)
    <3>1. \A y \in T \cup rho : Follows(y, T \cup rho)
      BY <1>4, OwnFollow
    <3>2. \A y \in Before(rho, T) : Follows(y, T \cup rho)
      BY <1>6, <3>1, BeforeFollows
    <3> QED
      BY <1>9, <3>1, <3>2
  <2>5. PortSteps(U) \subseteq PortSteps(T \cup rho)
    BY <2>4, Sound
  <2> QED
    BY <1>3, <1>5, <2>2, <2>3, <2>5 DEF U, S
<1> QED
  BY <1>5, <1>8, <1>9

\* a rule for two
LEMMA TryMergeType ==
  ASSUME NEW r1 \in AbstractRule, NEW r2 \in AbstractRule, A!try_merge(r1, r2) # None
  PROVE  /\ A!try_merge(r1, r2) \in AbstractRule
         /\ A!try_merge(r1, r2).port \in {r1.port, r2.port}
<1> DEFINE m == A!try_merge(r1, r2)
           g == [i \in Var |-> IF i \in {j \in Var : r1.guard[j] # r2.guard[j]} THEN "X" ELSE r1.guard[i]]
<1>1. /\ r1.guard \in A!Pred /\ r1.assign \in A!Pred
      /\ r2.guard \in A!Pred /\ r2.assign \in A!Pred
      /\ r1 \in A!Rule
  BY AbstractIs DEF AbstractRule
<1>2. m = r1 \/ m = r2 \/ m = A!MkRule(g, r1.port, r1.assign)
  BY DEF A!try_merge
<1>3. g \in A!Pred
  BY <1>1 DEF A!Pred
<1> HIDE DEF m, g
<1>4. /\ A!MkRule(g, r1.port, r1.assign) \in AbstractRule
      /\ A!MkRule(g, r1.port, r1.assign).port = r1.port
  <2>1. A!MkRule(g, r1.port, r1.assign) \in A!Rule /\ Specific(A!MkRule(g, r1.port, r1.assign))
    BY <1>1, <1>3, MkRuleType
  <2>2. A!MkRule(g, r1.port, r1.assign).port = r1.port
    BY DEF A!MkRule
  <2> QED
    BY <2>1, <2>2 DEF AbstractRule
<1>5. m \in AbstractRule /\ m.port \in {r1.port, r2.port}
  BY <1>2, <1>4
<1> QED
  BY <1>5 DEF m

\* pairs of naturals, ordered by the first and then the second
LEMMA LeastPair ==
  ASSUME NEW T, T \subseteq Nat \X Nat, T # {}
  PROVE  \E p \in T : \A q \in T : p[1] < q[1] \/ (p[1] = q[1] /\ p[2] <= q[2])
<1> DEFINE F == {p[1] : p \in T}
<1>1. F \subseteq Nat /\ F # {}
  OBVIOUS
<1>2. PICK a \in F : \A b \in F : a <= b
  BY <1>1, Least
<1> DEFINE G == {p[2] : p \in {q \in T : q[1] = a}}
<1>3. G \subseteq Nat /\ G # {}
  OBVIOUS
<1>4. PICK c \in G : \A d \in G : c <= d
  BY <1>3, Least
<1>5. PICK p \in T : p[1] = a /\ p[2] = c
  OBVIOUS
<1>6. ASSUME NEW q \in T PROVE p[1] < q[1] \/ (p[1] = q[1] /\ p[2] <= q[2])
  <2>1. a <= q[1] /\ q[1] \in Nat /\ a \in Nat
    BY <1>1, <1>2
  <2>2. q[1] = a => c <= q[2]
    BY <1>4
  <2> QED
    BY <1>5, <2>1, <2>2
<1> QED
  BY <1>6

\* MergePair finds two different rules that can be merged
LEMMA MergedPair ==
  ASSUME AbstractType, A!MergePair
  PROVE  \E i, k \in DOMAIN rba :
            LET m == A!try_merge(rba[i], rba[k]) IN
            /\ i # k /\ m # None
            /\ rba' = A!Select([rba EXCEPT ![i] = m], DOMAIN rba \ {k})
            /\ faithful' = (faithful /\ A!RuleSteps(m, relevant)
                               = A!RuleSteps(rba[i], relevant) \cup A!RuleSteps(rba[k], relevant))
<1> DEFINE pairs == A!Mergeable
           first == CHOOSE p \in pairs : \A q \in pairs : p[1] < q[1] \/ (p[1] = q[1] /\ p[2] <= q[2])
           m == A!try_merge(rba[first[1]], rba[first[2]])
<1>1. /\ pairs # {}
      /\ rba' = A!Select([rba EXCEPT ![first[1]] = m], DOMAIN rba \ {first[2]})
      /\ faithful' = (faithful /\ A!RuleSteps(m, relevant)
                         = A!RuleSteps(rba[first[1]], relevant) \cup A!RuleSteps(rba[first[2]], relevant))
  BY DEF A!MergePair
<1>2. first \in pairs
  <2>1. pairs \subseteq Nat \X Nat
    BY DEF A!Mergeable, AbstractType
  <2>2. \E p \in pairs : \A q \in pairs : p[1] < q[1] \/ (p[1] = q[1] /\ p[2] <= q[2])
    BY <1>1, <2>1, LeastPair
  <2> QED
    BY <2>2
<1> HIDE DEF first
<1>3. /\ first[1] \in DOMAIN rba /\ first[2] \in DOMAIN rba /\ first[1] < first[2] /\ m # None
      /\ first[1] \in Nat
  BY <1>2 DEF A!Mergeable, AbstractType
<1> DEFINE i == first[1]
           k == first[2]
<1>4. i \in DOMAIN rba /\ k \in DOMAIN rba /\ i # k
  <2>1. first[2] \in Nat
    BY <1>3 DEF AbstractType
  <2> QED
    BY <1>3, <2>1
<1>5. /\ A!try_merge(rba[i], rba[k]) # None
      /\ rba' = A!Select([rba EXCEPT ![i] = A!try_merge(rba[i], rba[k])], DOMAIN rba \ {k})
      /\ faithful' = (faithful /\ A!RuleSteps(A!try_merge(rba[i], rba[k]), relevant)
                         = A!RuleSteps(rba[i], relevant) \cup A!RuleSteps(rba[k], relevant))
  BY <1>1, <1>3
<1> HIDE DEF i, k
<1> QED
  BY <1>4, <1>5

\* merging two rules into one that does what they do
LEMMA MergedSteps ==
  ASSUME AbstractType, A!MergePair
  PROVE  /\ rba' \in Seq(AbstractRule)
         /\ (\A i \in DOMAIN rba : rba[i].port # None) => \A i \in DOMAIN rba' : rba'[i].port # None
         /\ faithful' => faithful /\ A!StepsOfAll(rba', relevant) = A!StepsOfAll(rba, relevant)
<1>1. PICK i, k \in DOMAIN rba :
            LET m == A!try_merge(rba[i], rba[k]) IN
            /\ i # k /\ m # None
            /\ rba' = A!Select([rba EXCEPT ![i] = m], DOMAIN rba \ {k})
            /\ faithful' = (faithful /\ A!RuleSteps(m, relevant)
                               = A!RuleSteps(rba[i], relevant) \cup A!RuleSteps(rba[k], relevant))
  BY MergedPair
<1> DEFINE m == A!try_merge(rba[i], rba[k])
           rs == [rba EXCEPT ![i] = m]
           kept == DOMAIN rba \ {k}
<1>2. rba \in Seq(AbstractRule) /\ rba[i] \in AbstractRule /\ rba[k] \in AbstractRule
  BY DEF AbstractType
<1>3. m \in AbstractRule /\ m.port \in {rba[i].port, rba[k].port}
  BY <1>1, <1>2, TryMergeType
<1>4. /\ i # k /\ rba' = A!Select(rs, kept)
      /\ faithful' => faithful /\ A!RuleSteps(m, relevant)
                               = A!RuleSteps(rba[i], relevant) \cup A!RuleSteps(rba[k], relevant)
  BY <1>1
<1> HIDE DEF m
<1>5. /\ rs \in Seq(AbstractRule) /\ DOMAIN rs = DOMAIN rba
      /\ \A j \in DOMAIN rba : rs[j] = IF j = i THEN m ELSE rba[j]
  BY <1>2, <1>3
<1> HIDE DEF rs
<1>6. /\ rba' \in Seq(AbstractRule)
      /\ \A n \in DOMAIN rba' : \E j \in kept : rba'[n] = rs[j]
      /\ \A j \in kept : \E n \in DOMAIN rba' : rba'[n] = rs[j]
  <2>1. kept \in SUBSET DOMAIN rs
    BY <1>5
  <2> HIDE DEF kept
  <2> QED
    BY <1>4, <1>5, <2>1, ASelectIs
<1>7. ASSUME \A j \in DOMAIN rba : rba[j].port # None, NEW n \in DOMAIN rba' PROVE rba'[n].port # None
  <2>1. PICK j \in kept : rba'[n] = rs[j]
    BY <1>6
  <2> QED
    BY <1>3, <1>5, <1>7, <2>1
<1>8. ASSUME faithful' PROVE A!StepsOfAll(rba', relevant) = A!StepsOfAll(rba, relevant)
  <2>1. ASSUME NEW x \in A!StepsOfAll(rba', relevant) PROVE x \in A!StepsOfAll(rba, relevant)
    <3>1. PICK n \in DOMAIN rba' : x \in A!RuleSteps(rba'[n], relevant)
      BY <2>1, StepsOfAllIs
    <3>2. PICK j \in kept : rba'[n] = rs[j]
      BY <1>6
    <3>3. \E l \in DOMAIN rba : x \in A!RuleSteps(rba[l], relevant)
      <4>1. CASE j = i
        <5>1. x \in A!RuleSteps(m, relevant)
          BY <1>5, <3>1, <3>2, <4>1
        <5> QED
          BY <1>4, <1>8, <5>1
      <4>2. CASE j # i
        BY <1>5, <3>1, <3>2, <4>2
      <4> QED
        BY <4>1, <4>2
    <3> QED
      BY <3>3, StepsOfAllIs
  <2>2. ASSUME NEW x \in A!StepsOfAll(rba, relevant) PROVE x \in A!StepsOfAll(rba', relevant)
    <3>1. PICK l \in DOMAIN rba : x \in A!RuleSteps(rba[l], relevant)
      BY <2>2, StepsOfAllIs
    <3>2. \E j \in kept : x \in A!RuleSteps(rs[j], relevant)
      <4>1. CASE l \in {i, k}
        <5>1. x \in A!RuleSteps(m, relevant)
          BY <1>4, <1>8, <3>1, <4>1
        <5>2. i \in kept /\ rs[i] = m
          BY <1>4, <1>5
        <5> QED
          BY <5>1, <5>2
      <4>2. CASE l \notin {i, k}
        <5>1. l \in kept /\ rs[l] = rba[l]
          BY <1>5, <4>2
        <5> QED
          BY <3>1, <5>1
      <4> QED
        BY <4>1, <4>2
    <3>3. PICK j \in kept : x \in A!RuleSteps(rs[j], relevant)
      BY <3>2
    <3>4. PICK n \in DOMAIN rba' : rba'[n] = rs[j]
      BY <1>6
    <3>5. \E q \in DOMAIN rba' : x \in A!RuleSteps(rba'[q], relevant)
      BY <3>3, <3>4
    <3> QED
      BY <3>5, StepsOfAllIs
  <2> QED
    BY <2>1, <2>2
<1> QED
  BY <1>4, <1>6, <1>7, <1>8

\* what mask_irrelevant_vars makes of a rule
Masked(r, vs) == [r EXCEPT !.assign = A!mask(@, vs), !.guard = A!mask(@, vs)]

\* a smaller mask hides a larger one
LEMMA MaskTwice ==
  ASSUME NEW P, NEW vs, NEW us, us \subseteq vs
  PROVE  A!mask(A!mask(P, vs), us) = A!mask(P, us)
  BY DEF A!mask

\* and so it does for steps
LEMMA SeenTwice ==
  ASSUME NEW T, NEW vs, NEW us, us \subseteq vs
  PROVE  Seen(Seen(T, vs), us) = Seen(T, us)
<1>1. \A x : MaskStep(MaskStep(x, vs), us) = MaskStep(x, us)
  BY MaskTwice DEF MaskStep
<1> QED
  BY <1>1 DEF Seen

\* a masked rule
LEMMA MaskedType ==
  ASSUME NEW r \in AbstractRule, NEW vs
  PROVE  /\ Masked(r, vs) \in AbstractRule
         /\ Masked(r, vs).port = r.port
         /\ \A i \in Var : Masked(r, vs).guard[i] = IF i \in vs THEN r.guard[i] ELSE "X"
         /\ \A i \in Var : Masked(r, vs).assign[i] = IF i \in vs THEN r.assign[i] ELSE "X"
<1>1. /\ r.guard \in A!Pred /\ r.assign \in A!Pred /\ r \in A!Rule /\ Specific(r)
      /\ r = [guard |-> r.guard, port |-> r.port, assign |-> r.assign]
  BY AbstractIs DEF AbstractRule
<1> DEFINE g == A!mask(r.guard, vs)
           a == A!mask(r.assign, vs)
<1>2. Masked(r, vs) = [guard |-> g, port |-> r.port, assign |-> a]
  <2> DEFINE q == [r EXCEPT !.assign = a]
  <2>1. q = [guard |-> r.guard, port |-> r.port, assign |-> a]
    BY <1>1
  <2> HIDE DEF g, a, q
  <2>2. [q EXCEPT !.guard = g] = [guard |-> g, port |-> r.port, assign |-> a]
    BY <2>1
  <2>3. Masked(r, vs) = [q EXCEPT !.guard = g]
    BY DEF Masked, g, a, q
  <2> QED
    BY <2>2, <2>3
<1>3. /\ g \in A!Pred /\ \A i \in Var : g[i] = IF i \in vs THEN r.guard[i] ELSE "X"
      /\ a \in A!Pred /\ \A i \in Var : a[i] = IF i \in vs THEN r.assign[i] ELSE "X"
  BY <1>1, MaskIs
<1> HIDE DEF g, a
<1>4. [guard |-> g, port |-> r.port, assign |-> a] \in A!Rule
  BY <1>1, <1>3 DEF A!Rule
<1>5. Specific([guard |-> g, port |-> r.port, assign |-> a])
  BY <1>1, <1>3 DEF Specific
<1> QED
  BY <1>2, <1>3, <1>4, <1>5 DEF AbstractRule

\* a rule that looks at none of the variables that are masked does the same,
\* as far as the mask lets be seen
LEMMA MaskedSteps ==
  ASSUME SilenceAssumption, NEW r \in AbstractRule, NEW vs, NEW us, us \subseteq vs, vs \subseteq Var,
         \A v \in vs \ us : r.guard[v] = "X"
  PROVE  A!RuleSteps(Masked(r, us), us) = Seen(A!RuleSteps(r, vs), us)
<1> DEFINE m == Masked(r, us)
<1>1. /\ m \in A!Rule /\ Specific(m) /\ m.port = r.port
      /\ \A i \in Var : m.guard[i] = IF i \in us THEN r.guard[i] ELSE "X"
      /\ \A i \in Var : m.assign[i] = IF i \in us THEN r.assign[i] ELSE "X"
  BY MaskedType DEF AbstractRule
<1>2. r \in A!Rule /\ Specific(r)
  BY DEF AbstractRule
<1> HIDE DEF m
<1>3. ASSUME NEW Q \in A!Concrete
      PROVE  /\ Fits(m, A!mask(Q, us)) <=> Fits(r, A!mask(Q, vs))
             /\ StepOf(m, A!mask(Q, us)) = MaskStep(StepOf(r, A!mask(Q, vs)), us)
  <2>1. /\ Q \in A!Pred /\ \A i \in Var : Q[i] # "X"
        /\ A!mask(Q, us) \in A!Pred /\ A!mask(Q, vs) \in A!Pred
        /\ \A i \in Var : A!mask(Q, us)[i] = IF i \in us THEN Q[i] ELSE "X"
        /\ \A i \in Var : A!mask(Q, vs)[i] = IF i \in vs THEN Q[i] ELSE "X"
    BY ConcreteIs, MaskIs
  <2> DEFINE P == A!mask(Q, us)
             R1 == A!mask(Q, vs)
  <2>2. A!mask(R1, us) = P
    BY MaskTwice
  <2> HIDE DEF P, R1
  <2>3. ASSUME NEW i \in Var
        PROVE  (m.guard[i] = "X" \/ P[i] = "X" \/ m.guard[i] = P[i]) <=>
               (r.guard[i] = "X" \/ R1[i] = "X" \/ r.guard[i] = R1[i])
    BY <1>1, <2>1 DEF P, R1
  <2>4. Fits(m, P) <=> Fits(r, R1)
    BY <2>3 DEF Fits
  <2>5. /\ Res(m, P) \in A!Pred /\ Res(r, R1) \in A!Pred
        /\ \A i \in Var : Res(m, P)[i] = IF m.assign[i] = "X" THEN P[i] ELSE m.assign[i]
        /\ \A i \in Var : Res(r, R1)[i] = IF r.assign[i] = "X" THEN R1[i] ELSE r.assign[i]
    BY <1>1, <1>2, <2>1, ResIs DEF P, R1
  <2>6. /\ A!mask(Res(r, R1), us) \in A!Pred
        /\ \A i \in Var : A!mask(Res(r, R1), us)[i] = IF i \in us THEN Res(r, R1)[i] ELSE "X"
    BY <2>5, MaskIs
  <2>7. ASSUME NEW i \in Var PROVE A!mask(Res(r, R1), us)[i] = Res(m, P)[i]
    <3>1. /\ P[i] = (IF i \in us THEN Q[i] ELSE "X")
          /\ R1[i] = (IF i \in vs THEN Q[i] ELSE "X")
          /\ m.assign[i] = (IF i \in us THEN r.assign[i] ELSE "X")
      BY <1>1, <2>1 DEF P, R1
    <3>2. CASE i \in us
      BY <2>5, <2>6, <3>1, <3>2
    <3>3. CASE i \notin us
      BY <2>5, <2>6, <3>1, <3>3
    <3> QED
      BY <3>2, <3>3
  <2>8. A!mask(Res(r, R1), us) = Res(m, P)
    BY <2>5, <2>6, <2>7, SamePred
  <2>9. StepOf(m, P) = MaskStep(StepOf(r, R1), us)
    BY <1>1, <2>2, <2>8 DEF StepOf, MaskStep
  <2> QED
    BY <2>4, <2>9 DEF P, R1
<1>4. ASSUME NEW x \in A!RuleSteps(m, us) PROVE x \in Seen(A!RuleSteps(r, vs), us)
  <2>1. PICK Q \in A!Concrete : Fits(m, A!mask(Q, us)) /\ x = StepOf(m, A!mask(Q, us))
    BY <1>1, <1>4, RuleStepsAre
  <2>2. StepOf(r, A!mask(Q, vs)) \in A!RuleSteps(r, vs)
    BY <1>2, <1>3, <2>1, RuleStepsAre
  <2>3. x = MaskStep(StepOf(r, A!mask(Q, vs)), us)
    BY <1>3, <2>1
  <2> QED
    BY <2>2, <2>3 DEF Seen
<1>5. ASSUME NEW x \in Seen(A!RuleSteps(r, vs), us) PROVE x \in A!RuleSteps(m, us)
  <2>1. PICK y \in A!RuleSteps(r, vs) : x = MaskStep(y, us)
    BY <1>5 DEF Seen
  <2>2. PICK Q \in A!Concrete : Fits(r, A!mask(Q, vs)) /\ y = StepOf(r, A!mask(Q, vs))
    BY <1>2, <2>1, RuleStepsAre
  <2>3. Fits(m, A!mask(Q, us)) /\ x = StepOf(m, A!mask(Q, us))
    BY <1>3, <2>1, <2>2
  <2> QED
    BY <1>1, <2>3, RuleStepsAre
<1>6. A!RuleSteps(m, us) = Seen(A!RuleSteps(r, vs), us)
  BY <1>4, <1>5
<1> QED
  BY <1>6 DEF m

\* masking variables no guard looks at keeps the invariant
LEMMA MaskStepKept ==
  ASSUME SilenceAssumption, AbstractInv, A!mask_irrelevant_vars PROVE AbstractInv'
<1> DEFINE unused == {v \in relevant : \A i \in DOMAIN rba : A!Generic(rba[i].guard[v])}
           S == A!StepsOfAll(rba, relevant)
           U == A!StepsOfAll(rba', relevant')
           G == PortSteps(A!StepsOfAll(original, Var))
<1>1. /\ stage = "mask" /\ relevant' = relevant \ unused
      /\ rba' = [i \in DOMAIN rba |-> Masked(rba[i], relevant')]
      /\ stage' \in {"mask", "final"} /\ original' = original /\ faithful' = faithful
  BY DEF A!mask_irrelevant_vars, Masked
<1>2. /\ AbstractType /\ AbstractKept /\ relevant \subseteq Var
      /\ \A i \in DOMAIN rba : rba[i].port # None /\ rba[i] \in AbstractRule
      /\ DOMAIN rba = 1 .. Len(rba) /\ Len(rba) \in Nat
  BY <1>1 DEF AbstractInv, AbstractType
<1>3. relevant' \subseteq relevant
  BY <1>1
<1>4. \A i \in DOMAIN rba : \A v \in relevant \ relevant' : rba[i].guard[v] = "X"
  BY <1>1 DEF A!Generic
<1>5. /\ DOMAIN rba' = DOMAIN rba
      /\ \A i \in DOMAIN rba : rba'[i] = Masked(rba[i], relevant')
  BY <1>1
<1>6. \A i \in DOMAIN rba : rba'[i] \in AbstractRule /\ rba'[i].port # None
  BY <1>2, <1>5, MaskedType
<1>7. rba' \in Seq(AbstractRule)
  <2>1. rba' = [i \in 1 .. Len(rba) |-> rba'[i]]
    BY <1>1, <1>2
  <2> QED
    BY <1>2, <1>6, <2>1
<1>8. AbstractType'
  BY <1>1, <1>2, <1>3, <1>5, <1>6, <1>7 DEF AbstractType
<1>9. \A i \in DOMAIN rba : A!RuleSteps(rba'[i], relevant') = Seen(A!RuleSteps(rba[i], relevant), relevant')
  BY <1>2, <1>3, <1>4, <1>5, MaskedSteps
<1>10. U = Seen(S, relevant')
  <2>1. ASSUME NEW x
        PROVE  x \in U <=> \E i \in DOMAIN rba : x \in Seen(A!RuleSteps(rba[i], relevant), relevant')
    BY <1>5, <1>9, StepsOfAllIs
  <2>2. ASSUME NEW x
        PROVE  x \in Seen(S, relevant') <=> \E i \in DOMAIN rba : x \in Seen(A!RuleSteps(rba[i], relevant), relevant')
    BY StepsOfAllIs DEF Seen
  <2> HIDE DEF U, S
  <2> QED
    BY <2>1, <2>2
<1>11. ASSUME NEW rs \in Seq(AbstractRule), NEW vs, \A i \in DOMAIN rs : rs[i].port # None
       PROVE  PortSteps(A!StepsOfAll(rs, vs)) = A!StepsOfAll(rs, vs)
  <2>1. ASSUME NEW x \in A!StepsOfAll(rs, vs) PROVE x[2] # None /\ x = <<x[1], x[2], x[3]>>
    <3>1. PICK i \in DOMAIN rs : x \in A!RuleSteps(rs[i], vs)
      BY StepsOfAllIs
    <3>2. rs[i] \in AbstractRule
      OBVIOUS
    <3> QED
      BY <1>11, <3>1, <3>2, RuleStepIs
  <2> QED
    BY <2>1, PortStepsLoud
<1>12. PortSteps(S) = S
  BY <1>2, <1>11 DEF AbstractType
<1>13. PortSteps(U) = U
  BY <1>5, <1>6, <1>7, <1>11
<1> HIDE DEF S, U, G
<1>14. ASSUME faithful PROVE PortSteps(U) = Seen(G, relevant')
  <2>1. S = Seen(G, relevant)
    BY <1>2, <1>12, <1>14 DEF S, G, AbstractKept
  <2>2. U = Seen(Seen(G, relevant), relevant')
    BY <1>10, <2>1
  <2> QED
    BY <1>3, <1>13, <2>2, SeenTwice
<1>15. faithful' => PortSteps(A!StepsOfAll(rba', relevant')) = Seen(PortSteps(A!StepsOfAll(original', Var)), relevant')
  BY <1>1, <1>14 DEF U, G
<1>16. AbstractKept'
  BY <1>15 DEF AbstractKept
<1> QED
  BY <1>8, <1>16 DEF AbstractInv

\* every step keeps it
LEMMA AbstractStep ==
  ASSUME SilenceAssumption, AbstractInv, A!Next PROVE AbstractInv'
<1> USE DEF AbstractInv
<1> DEFINE G == PortSteps(A!StepsOfAll(original, Var))
<1>1. AbstractType /\ (faithful => PortSteps(A!StepsOfAll(rba, relevant)) = Seen(G, relevant))
  BY DEF AbstractKept
<1>2. CASE A!RemoveSilentRule
  <2>1. /\ UNCHANGED <<original, linear, relevant, changed, faithful>>
        /\ stage = "silent" /\ stage' \in {"silent", "merge"} /\ relevant = Var
    BY <1>1, <1>2 DEF A!RemoveSilentRule, AbstractType
  <2>2. /\ rba' \in Seq(AbstractRule)
        /\ PortSteps(A!StepsOfAll(rba', Var)) = PortSteps(A!StepsOfAll(rba, Var))
    BY <1>1, <1>2, RemovedPorts
  <2>3. AbstractType'
    BY <1>1, <2>1, <2>2 DEF AbstractType
  <2>4. faithful' => PortSteps(A!StepsOfAll(rba', relevant')) = Seen(PortSteps(A!StepsOfAll(original', Var)), relevant')
    BY <1>1, <2>1, <2>2
  <2> QED
    BY <2>3, <2>4 DEF AbstractKept
<1>3. CASE A!NoSilentLeft
  <2>1. /\ UNCHANGED <<original, linear, rba, relevant, changed, faithful>>
        /\ stage' = "mask" /\ \A i \in DOMAIN rba : rba[i].port # None
    BY <1>3 DEF A!NoSilentLeft, A!SilentIdx, A!is_silent
  <2>2. AbstractType'
    BY <1>1, <2>1 DEF AbstractType
  <2> QED
    BY <1>1, <2>1, <2>2 DEF AbstractKept
<1>4. CASE A!MergePair
  <2>1. UNCHANGED <<original, linear, relevant, stage>>
    BY <1>4 DEF A!MergePair
  <2>2. /\ rba' \in Seq(AbstractRule)
        /\ (\A i \in DOMAIN rba : rba[i].port # None) => \A i \in DOMAIN rba' : rba'[i].port # None
        /\ faithful' => faithful /\ A!StepsOfAll(rba', relevant) = A!StepsOfAll(rba, relevant)
    BY <1>1, <1>4, MergedSteps
  <2>3. AbstractType'
    BY <1>1, <2>1, <2>2 DEF AbstractType
  <2>4. faithful' => PortSteps(A!StepsOfAll(rba', relevant')) = Seen(PortSteps(A!StepsOfAll(original', Var)), relevant')
    BY <1>1, <2>1, <2>2
  <2> QED
    BY <2>3, <2>4 DEF AbstractKept
<1>5. CASE A!Merged
  <2>1. /\ UNCHANGED <<original, linear, rba, relevant, faithful>>
        /\ \/ stage = "merge" /\ stage' = "silent"
           \/ stage = "final" /\ stage' \in {"mask", "done"}
    BY <1>5 DEF A!Merged
  <2>2. AbstractType'
    BY <1>1, <2>1 DEF AbstractType
  <2>3. faithful' => PortSteps(A!StepsOfAll(rba', relevant')) = Seen(PortSteps(A!StepsOfAll(original', Var)), relevant')
    BY <1>1, <2>1
  <2> QED
    BY <2>2, <2>3 DEF AbstractKept
<1>6. CASE A!mask_irrelevant_vars
  BY <1>6, MaskStepKept
<1> QED
  BY <1>2, <1>3, <1>4, <1>5, <1>6 DEF A!Next

-----------------------------------------------------------------------------
(* Exploration *)

Known == [Var -> {"T", "F", "?"}]
Outputs == [Var -> {"T", "F", "G", "U"}]
\* no command makes a variable unknown
KeepsValues == \A g \in program, i \in Var : g.output[i] # "U"
\* the values that are to be found
KnownValues == IF search = "build" THEN E!Reached \cup {start} ELSE E!Reached

(***************************************************************************)
(* Every state that has been looked at has its branches and where they     *)
(* lead; and if no command forgets a value, every state found is one that  *)
(* is reached.                                                             *)
(***************************************************************************)
ExploreInv ==
    /\ program \in Programs
    /\ start = [i \in Var |-> "F"]
    /\ search \in {"build", "close"}
    /\ states \subseteq Known /\ todo \subseteq Known
    /\ todo \subseteq states \cup {start}
    /\ search = "build" => start \in states
    /\ \A P \in (states \cup {start}) \ todo : E!Dests(P) \subseteq states
    /\ search = "build" => /\ {o.state : o \in opts} = states \ todo
                           /\ \A o \in opts : o.options = E!Branches(o.state)
    /\ KeepsValues => states \subseteq KnownValues

\* the parts of a command
LEMMA CommandIs ==
  ASSUME SilenceAssumption, program \in Programs, NEW g \in program
  PROVE  g.input \in Known /\ g.output \in Outputs
  BY DEF SilenceAssumption, E!WellFormed, Known, Outputs

\* what a command makes of a state
LEMMA ApplyToIs ==
  ASSUME NEW out \in Outputs, NEW P \in Known
  PROVE  /\ E!apply_to(out, P) \in Known
         /\ \A i \in Var : /\ out[i] = "G" => E!apply_to(out, P)[i] = P[i]
                           /\ out[i] = "U" => E!apply_to(out, P)[i] = "?"
                           /\ out[i] \in {"T", "F"} => E!apply_to(out, P)[i] = out[i]
<1> DEFINE d == E!apply_to(out, P)
<1>1. ASSUME NEW i \in Var
      PROVE  /\ d[i] \in {"T", "F", "?"}
             /\ out[i] = "G" => d[i] = P[i]
             /\ out[i] = "U" => d[i] = "?"
             /\ out[i] \in {"T", "F"} => d[i] = out[i]
  <2>1. d[i] = CASE out[i] = "G" -> P[i] [] out[i] = "U" -> "?" [] OTHER -> out[i]
    BY DEF E!apply_to
  <2>2. out[i] \in {"T", "F", "G", "U"} /\ P[i] \in {"T", "F", "?"}
    BY DEF Outputs, Known
  <2> HIDE DEF d
  <2>3. CASE out[i] = "G"
    BY <2>1, <2>2, <2>3
  <2>4. CASE out[i] = "U"
    BY <2>1, <2>2, <2>4
  <2>5. CASE out[i] \in {"T", "F"}
    BY <2>1, <2>2, <2>5
  <2> QED
    BY <2>2, <2>3, <2>4, <2>5
<1>2. d = [i \in Var |-> d[i]]
  BY DEF E!apply_to
<1>3. d \in Known
  <2> HIDE DEF d
  <2> QED
    BY <1>1, <1>2 DEF Known
<1> QED
  BY <1>1, <1>3

\* where the commands lead from a state
LEMMA DestsIs ==
  ASSUME NEW P, NEW d
  PROVE  d \in E!Dests(P) <=> \E g \in program : E!compatible(g.input, P) /\ d = E!apply_to(g.output, P)
<1>1. ASSUME NEW g \in program, E!compatible(g.input, P), d = E!apply_to(g.output, P)
      PROVE  d \in E!Dests(P)
  <2> DEFINE o == [port |-> g.involved, dest |-> E!apply_to(g.output, P)]
  <2>1. o \in E!Branches(P) /\ o.dest = d
    BY <1>1 DEF E!Branches, E!Applicable
  <2> QED
    BY <2>1 DEF E!Dests
<1>2. ASSUME d \in E!Dests(P)
      PROVE  \E g \in program : E!compatible(g.input, P) /\ d = E!apply_to(g.output, P)
  BY <1>2 DEF E!Dests, E!Branches, E!Applicable
<1> QED
  BY <1>1, <1>2

\* they lead to states
LEMMA DestsKnown ==
  ASSUME SilenceAssumption, program \in Programs, NEW P \in Known
  PROVE  E!Dests(P) \subseteq Known
<1> SUFFICES ASSUME NEW d \in E!Dests(P) PROVE d \in Known
  OBVIOUS
<1>1. PICK g \in program : d = E!apply_to(g.output, P)
  BY DestsIs
<1> QED
  BY <1>1, CommandIs, ApplyToIs

\* what the commands do with values
LEMMA StepsAre ==
  ASSUME NEW v, NEW x
  PROVE  x \in E!ValuedSteps(v) <=>
            \E g \in program, w \in E!Valued :
               /\ E!Covers(g.input, v) /\ x = <<g.involved, w>>
               /\ \A i \in Var : g.output[i] \in {w[i], "U"} \/ (g.output[i] = "G" /\ w[i] = v[i])
  BY DEF E!ValuedSteps, E!Outcomes

\* what a step from v leads to
Nexts(v) == {x[2] : x \in E!ValuedSteps(v)}

\* Reached is the least set of values no step leaves
LEMMA ReachedIs ==
  /\ E!Reached \subseteq E!Valued
  /\ \A v \in E!Reached \cup {start} : Nexts(v) \subseteq E!Reached
  /\ \A S \in SUBSET E!Valued : (\A v \in S \cup {start} : Nexts(v) \subseteq S) => E!Reached \subseteq S
<1> DEFINE closed == {S \in SUBSET E!Valued : \A v \in S \cup {start} : Nexts(v) \subseteq S}
<1>1. E!Reached = {w \in E!Valued : \A S \in closed : w \in S}
  BY DEF E!Reached, Nexts
<1>2. \A v : Nexts(v) \subseteq E!Valued
  BY StepsAre DEF Nexts
<1>3. ASSUME NEW v \in E!Reached \cup {start} PROVE Nexts(v) \subseteq E!Reached
  <2>1. \A S \in closed : Nexts(v) \subseteq S
    BY <1>1, <1>3
  <2> HIDE DEF closed
  <2> QED
    BY <1>1, <1>2, <2>1
<1> QED
  BY <1>1, <1>3

\* a command that is possible with certain values is possible in a state that
\* covers them, and the state it leads to covers what it makes of them
LEMMA Simulates ==
  ASSUME SilenceAssumption, program \in Programs, NEW P \in Known, NEW v \in E!Valued, E!Covers(P, v),
         NEW x \in E!ValuedSteps(v)
  PROVE  \E g \in program : /\ E!compatible(g.input, P) /\ x[1] = g.involved
                            /\ E!Covers(E!apply_to(g.output, P), x[2])
<1>1. PICK g \in program, w \in E!Valued :
               /\ E!Covers(g.input, v) /\ x = <<g.involved, w>>
               /\ \A i \in Var : g.output[i] \in {w[i], "U"} \/ (g.output[i] = "G" /\ w[i] = v[i])
  BY StepsAre
<1>2. g.input \in Known /\ g.output \in Outputs
  BY CommandIs
<1>3. E!compatible(g.input, P)
  <2>1. ASSUME NEW i \in Var PROVE "?" \in {g.input[i], P[i]} \/ g.input[i] = P[i]
    <3>1. g.input[i] \in {"?", v[i]} /\ P[i] \in {"?", v[i]}
      BY <1>1 DEF E!Covers
    <3> QED
      BY <3>1
  <2> QED
    BY <2>1 DEF E!compatible
<1> DEFINE d == E!apply_to(g.output, P)
<1>4. E!Covers(d, w)
  <2>1. ASSUME NEW i \in Var PROVE d[i] \in {"?", w[i]}
    <3>1. /\ g.output[i] = "G" => d[i] = P[i]
          /\ g.output[i] = "U" => d[i] = "?"
          /\ g.output[i] \in {"T", "F"} => d[i] = g.output[i]
      BY <1>2, ApplyToIs
    <3>2. w[i] \in {"T", "F"} /\ g.output[i] \in {"T", "F", "G", "U"} /\ P[i] \in {"?", v[i]}
      BY <1>2 DEF E!Valued, Outputs, E!Covers
    <3>3. g.output[i] \in {w[i], "U"} \/ (g.output[i] = "G" /\ w[i] = v[i])
      BY <1>1
    <3> HIDE DEF d
    <3> QED
      BY <3>1, <3>2, <3>3
  <2> HIDE DEF d
  <2> QED
    BY <2>1 DEF E!Covers
<1>5. x[1] = g.involved /\ x[2] = w
  BY <1>1
<1> QED
  BY <1>3, <1>4, <1>5

\* without forgetting, what a command does with values is a step of them
LEMMA Precise ==
  ASSUME SilenceAssumption, program \in Programs, KeepsValues, NEW P \in E!Valued, NEW d \in E!Dests(P)
  PROVE  d \in Nexts(P)
<1>1. PICK g \in program : E!compatible(g.input, P) /\ d = E!apply_to(g.output, P)
  BY DestsIs
<1>2. g.input \in Known /\ g.output \in Outputs /\ P \in Known
  BY CommandIs DEF E!Valued, Known
<1>3. E!Covers(g.input, P)
  <2>1. \A i \in Var : P[i] # "?"
    BY DEF E!Valued
  <2> QED
    BY <1>1, <2>1 DEF E!compatible, E!Covers
<1>4. d \in Known
  BY <1>1, <1>2, ApplyToIs
<1>5. ASSUME NEW i \in Var
      PROVE  /\ d[i] \in {"T", "F"}
             /\ g.output[i] \in {d[i], "U"} \/ (g.output[i] = "G" /\ d[i] = P[i])
  <2>1. g.output[i] \in {"T", "F", "G"} /\ P[i] \in {"T", "F"}
    BY <1>2 DEF Outputs, KeepsValues, E!Valued
  <2>2. /\ g.output[i] = "G" => d[i] = P[i]
        /\ g.output[i] \in {"T", "F"} => d[i] = g.output[i]
    BY <1>1, <1>2, ApplyToIs
  <2> QED
    BY <2>1, <2>2
<1>6. d \in E!Valued
  BY <1>4, <1>5 DEF E!Valued, Known
<1>7. <<g.involved, d>> \in E!ValuedSteps(P)
  BY <1>3, <1>5, <1>6, StepsAre
<1> DEFINE x == <<g.involved, d>>
<1>8. x \in E!ValuedSteps(P) /\ x[2] = d
  BY <1>7
<1> HIDE DEF x
<1> QED
  BY <1>8 DEF Nexts

\* the inductive invariant holds when the search begins
LEMMA ExploreInit == ASSUME SilenceAssumption, E!Init PROVE ExploreInv
<1>1. /\ program \in Programs /\ start = [i \in Var |-> "F"] /\ search \in {"build", "close"}
      /\ states = (IF search = "build" THEN {start} ELSE {}) /\ todo = {start} /\ opts = {}
  BY DEF E!Init
<1>2. start \in Known
  BY <1>1 DEF Known
<1>3. states \subseteq Known /\ todo \subseteq Known
  BY <1>1, <1>2
<1>4. (states \cup {start}) \ todo = {}
  BY <1>1
<1>5. search = "build" => {o.state : o \in opts} = states \ todo
  BY <1>1
<1>6. states \subseteq KnownValues
  BY <1>1 DEF KnownValues
<1> QED
  BY <1>1, <1>3, <1>4, <1>5, <1>6 DEF ExploreInv

\* looking at a state keeps it
LEMMA ExploreStep == ASSUME SilenceAssumption, ExploreInv, E!Next PROVE ExploreInv'
<1>1. PICK P \in todo :
        /\ todo' = (todo \ {P}) \cup (E!Dests(P) \ states)
        /\ states' = states \cup E!Dests(P)
        /\ opts' = IF search = "build" THEN opts \cup {[state |-> P, options |-> E!Branches(P)]}
                   ELSE opts
        /\ UNCHANGED <<program, start, search>>
  BY DEF E!Next, E!Explore
<1>2. /\ program \in Programs /\ start = [i \in Var |-> "F"]
      /\ search \in {"build", "close"}
      /\ states \subseteq Known /\ todo \subseteq Known /\ todo \subseteq states \cup {start}
      /\ search = "build" => start \in states
  BY DEF ExploreInv
<1>3. /\ \A Q : E!Branches(Q)' = E!Branches(Q) /\ E!Dests(Q)' = E!Dests(Q)
      /\ E!Reached' = E!Reached
      /\ KeepsValues' = KeepsValues
      /\ KnownValues' = KnownValues
  <2>1. program' = program /\ start' = start /\ search' = search
    BY <1>1
  <2>2. \A Q : E!Branches(Q)' = E!Branches(Q) /\ E!Dests(Q)' = E!Dests(Q)
    BY <2>1 DEF E!Branches, E!Dests, E!Applicable
  <2>3. E!Reached' = E!Reached
    BY <2>1 DEF E!Reached, E!ValuedSteps, E!Outcomes
  <2>4. KeepsValues' = KeepsValues
    BY <2>1 DEF KeepsValues
  <2> QED
    BY <2>1, <2>2, <2>3, <2>4 DEF KnownValues
<1>4. E!Dests(P) \subseteq Known
  BY <1>2, DestsKnown
<1>5. states' \subseteq Known /\ todo' \subseteq Known /\ todo' \subseteq states' \cup {start'}
  BY <1>1, <1>2, <1>4
<1>6. ASSUME NEW Q \in (states' \cup {start'}) \ todo' PROVE E!Dests(Q)' \subseteq states'
  <2>1. CASE Q = P
    BY <1>1, <1>3, <2>1
  <2>2. CASE Q # P
    <3>1. Q \in (states \cup {start}) \ todo
      BY <1>1, <2>2
    <3>2. E!Dests(Q) \subseteq states
      BY <3>1 DEF ExploreInv
    <3> QED
      BY <1>1, <1>3, <3>2
  <2> QED
    BY <2>1, <2>2
<1>7. ASSUME search' = "build"
      PROVE  /\ {o.state : o \in opts'} = states' \ todo'
             /\ \A o \in opts' : o.options = E!Branches(o.state)'
  <2>1. /\ {o.state : o \in opts} = states \ todo
        /\ \A o \in opts : o.options = E!Branches(o.state)
        /\ start \in states
    BY <1>1, <1>7 DEF ExploreInv
  <2> DEFINE new == [state |-> P, options |-> E!Branches(P)]
  <2>2. opts' = opts \cup {new} /\ new.state = P /\ new.options = E!Branches(P)
    BY <1>1, <1>7
  <2> HIDE DEF new
  <2>3. {o.state : o \in opts'} = (states \ todo) \cup {P}
    BY <2>1, <2>2
  <2>4. (states \ todo) \cup {P} = states' \ todo'
    BY <1>1, <1>2, <2>1
  <2>5. \A o \in opts' : o.options = E!Branches(o.state)
    BY <2>1, <2>2
  <2> QED
    BY <1>3, <2>3, <2>4, <2>5
<1>8. ASSUME KeepsValues' PROVE states' \subseteq KnownValues'
  <2>1. KeepsValues /\ states \subseteq KnownValues
    BY <1>3, <1>8 DEF ExploreInv
  <2>2. P \in E!Reached \cup {start}
    BY <1>2, <2>1 DEF KnownValues
  <2>3. P \in E!Valued
    <3>1. start \in E!Valued
      BY <1>2 DEF E!Valued
    <3> QED
      BY <2>2, <3>1, ReachedIs
  <2>4. E!Dests(P) \subseteq E!Reached
    <3>1. E!Dests(P) \subseteq Nexts(P)
      BY <1>2, <2>1, <2>3, Precise
    <3> QED
      BY <2>2, <3>1, ReachedIs
  <2>5. E!Dests(P) \subseteq KnownValues
    BY <2>4 DEF KnownValues
  <2> QED
    BY <1>1, <1>3, <2>1, <2>5
<1>9. program' \in Programs /\ start' = [i \in Var |-> "F"] /\ search' \in {"build", "close"}
      /\ (search' = "build" => start' \in states')
  BY <1>1, <1>2
<1> QED
  BY <1>5, <1>6, <1>7, <1>8, <1>9 DEF ExploreInv

\* at the end it says that all has been found, and without forgetting nothing else
LEMMA ExploreInvGives == ASSUME SilenceAssumption, ExploreInv PROVE E!FoundAll
<1> SUFFICES ASSUME todo = {}
             PROVE  /\ \A v \in KnownValues : \E P \in states : E!Covers(P, v)
                    /\ search = "build" =>
                        /\ {o.state : o \in opts} = states
                        /\ \A o \in opts, v \in E!Valued : E!Covers(o.state, v) =>
                               \A x \in E!ValuedSteps(v) :
                                  \E br \in o.options : br.port = x[1] /\ E!Covers(br.dest, x[2])
                    /\ KeepsValues => states = KnownValues
  BY DEF E!FoundAll, E!Finished, KnownValues, KeepsValues
<1>1. /\ program \in Programs /\ start = [i \in Var |-> "F"]
      /\ states \subseteq Known
      /\ search = "build" => start \in states
      /\ \A P \in states \cup {start} : E!Dests(P) \subseteq states
      /\ search = "build" => /\ {o.state : o \in opts} = states
                             /\ \A o \in opts : o.options = E!Branches(o.state)
      /\ KeepsValues => states \subseteq KnownValues
  BY DEF ExploreInv
<1>2. start \in E!Valued /\ start \in Known /\ E!Covers(start, start)
  BY <1>1 DEF E!Valued, Known, E!Covers
<1> DEFINE S == {v \in E!Valued : \E P \in states : E!Covers(P, v)}
<1>3. ASSUME NEW v \in S \cup {start} PROVE Nexts(v) \subseteq S
  <2>1. PICK P \in states \cup {start} : E!Covers(P, v) /\ P \in Known /\ v \in E!Valued
    BY <1>1, <1>2
  <2> SUFFICES ASSUME NEW x \in E!ValuedSteps(v) PROVE x[2] \in S
    BY DEF Nexts
  <2>2. PICK g \in program : E!compatible(g.input, P) /\ E!Covers(E!apply_to(g.output, P), x[2])
    BY <1>1, <2>1, Simulates
  <2>3. E!apply_to(g.output, P) \in states
    BY <1>1, <2>2, DestsIs
  <2>4. x[2] \in E!Valued
    BY StepsAre
  <2> QED
    BY <2>2, <2>3, <2>4
<1>4. E!Reached \subseteq S
  <2>1. S \in SUBSET E!Valued
    OBVIOUS
  <2> HIDE DEF S
  <2> QED
    BY <1>3, <2>1, ReachedIs
<1>5. ASSUME NEW v \in KnownValues PROVE \E P \in states : E!Covers(P, v)
  <2>1. CASE v \in E!Reached
    BY <1>4, <2>1
  <2>2. CASE v \notin E!Reached
    <3>1. v = start /\ start \in states
      BY <1>1, <2>2 DEF KnownValues
    <3> QED
      BY <1>2, <3>1
  <2> QED
    BY <2>1, <2>2
<1>6. ASSUME search = "build", NEW o \in opts, NEW v \in E!Valued, E!Covers(o.state, v), NEW x \in E!ValuedSteps(v)
      PROVE  \E br \in o.options : br.port = x[1] /\ E!Covers(br.dest, x[2])
  <2>1. o.state \in Known /\ o.options = E!Branches(o.state)
    BY <1>1, <1>6
  <2>2. PICK g \in program : /\ E!compatible(g.input, o.state) /\ x[1] = g.involved
                             /\ E!Covers(E!apply_to(g.output, o.state), x[2])
    BY <1>1, <1>6, <2>1, Simulates
  <2> DEFINE br == [port |-> g.involved, dest |-> E!apply_to(g.output, o.state)]
  <2>3. br \in E!Branches(o.state)
    BY <2>2 DEF E!Branches, E!Applicable
  <2> QED
    BY <2>1, <2>2, <2>3
<1>7. ASSUME KeepsValues PROVE states = KnownValues
  <2>1. states \subseteq E!Valued
    BY <1>1, <1>2, <1>7, ReachedIs DEF KnownValues
  <2>2. ASSUME NEW v \in KnownValues PROVE v \in states
    <3>1. PICK P \in states : E!Covers(P, v)
      BY <1>5
    <3>2. P \in E!Valued /\ v \in E!Valued
      BY <1>2, <2>1, <3>1, ReachedIs DEF KnownValues
    <3>3. \A i \in Var : P[i] = v[i]
      BY <3>1, <3>2 DEF E!Covers, E!Valued
    <3>4. P = v
      BY <3>2, <3>3 DEF E!Valued
    <3> QED
      BY <3>4
  <2> QED
    BY <1>1, <1>7, <2>2
<1> QED
  BY <1>1, <1>5, <1>6, <1>7

-----------------------------------------------------------------------------
(* The three versions *)

SilenceInv ==
    /\ version = "rbpa" => RbpaInv
    /\ version = "abstract" => AbstractInv
    /\ version = "explored" => ExploreInv

\* each version begins with its invariant
LEMMA SilenceInit == ASSUME Init PROVE SilenceInv
<1>0. SilenceAssumption
  BY SilenceAssumption
<1>1. CASE version = "rbpa" /\ R!Init
  BY <1>0, <1>1, InitKept DEF SilenceInv
<1>2. CASE version = "abstract" /\ A!Init
  BY <1>0, <1>2, AbstractInit DEF SilenceInv
<1>3. CASE version = "explored" /\ E!Init
  BY <1>0, <1>3, ExploreInit DEF SilenceInv
<1> QED
  BY <1>1, <1>2, <1>3 DEF Init

\* and keeps it
LEMMA SilenceStep == ASSUME SilenceInv, [Next]_vars PROVE SilenceInv'
<1>0. SilenceAssumption
  BY SilenceAssumption
<1>1. CASE version = "rbpa" /\ R!Next /\ version' = version
  BY <1>0, <1>1, RbpaStep DEF SilenceInv
<1>2. CASE version = "abstract" /\ A!Next /\ version' = version
  BY <1>0, <1>2, AbstractStep DEF SilenceInv
<1>3. CASE version = "explored" /\ E!Next /\ version' = version
  BY <1>0, <1>3, ExploreStep DEF SilenceInv
<1>4. CASE UNCHANGED vars
  <2>1. /\ UNCHANGED version
        /\ UNCHANGED <<given, acyclic, rules, silent, next, buf, phase, exact>>
        /\ UNCHANGED <<original, linear, rba, relevant, stage, changed, faithful>>
        /\ UNCHANGED <<program, start, search, states, todo, opts>>
    BY <1>4 DEF vars, rbpaVars, abstractVars, exploreVars
  <2>2. RbpaInv' = RbpaInv
    BY <2>1 DEF RbpaInv, RbpaType, RbpaKept, All, Rho, Given
  <2>3. AbstractInv' = AbstractInv
    BY <2>1 DEF AbstractInv, AbstractType, AbstractKept
  <2>4. ExploreInv' = ExploreInv
    <3>1. /\ \A Q : E!Branches(Q)' = E!Branches(Q) /\ E!Dests(Q)' = E!Dests(Q)
          /\ E!Reached' = E!Reached
      BY <2>1 DEF E!Branches, E!Dests, E!Applicable, E!Reached, E!ValuedSteps, E!Outcomes
    <3> QED
      BY <2>1, <3>1 DEF ExploreInv, KeepsValues, KnownValues
  <2> QED
    BY <2>1, <2>2, <2>3, <2>4 DEF SilenceInv
<1> QED
  BY <1>1, <1>2, <1>3, <1>4 DEF Next

\* which says what the run checks
LEMMA SilenceInvGives == ASSUME SilenceInv PROVE PortStepsKept /\ CombinationsExact
<1>0. SilenceAssumption
  BY SilenceAssumption
<1>1. version = "rbpa" => R!PortStepsKept /\ R!CombinationsExact
  BY <1>0, InvGivesKept, TypeGivesExact DEF SilenceInv, RbpaInv
<1>2. version = "abstract" => A!SimulatesOriginal
  BY AbstractInvGives DEF SilenceInv
<1>3. version = "explored" => E!FoundAll
  BY <1>0, ExploreInvGives DEF SilenceInv
<1> QED
  BY <1>1, <1>2, <1>3 DEF PortStepsKept, CombinationsExact

(***************************************************************************)
(* The inductive invariants of the three versions hold throughout.         *)
(***************************************************************************)
THEOREM SilenceInvariant == FairSpec => []SilenceInv
<1>1. Init => SilenceInv
  BY SilenceInit
<1>2. SilenceInv /\ [Next]_vars => SilenceInv'
  BY SilenceStep
<1> QED
  BY <1>1, <1>2, PTL DEF FairSpec

(***************************************************************************)
(* For any automata and programs: normalization keeps the port steps of    *)
(* its automaton, in rbpa.rs and in the version before it, as long as what *)
(* it combined was combined exactly; exploration finds every step from     *)
(* every state that is reached, and no more if no command forgets a value. *)
(***************************************************************************)
THEOREM PortStepsAreKept == FairSpec => []PortStepsKept
<1>1. SilenceInv => PortStepsKept
  BY SilenceInvGives
<1> QED
  BY <1>1, SilenceInvariant, PTL

(***************************************************************************)
(* compose, constrain_guard and is_mutex_with mean what they should on any *)
(* two rules normalization ever has, for any definitions.                  *)
(***************************************************************************)
THEOREM CombinationsAreExact == FairSpec => []CombinationsExact
<1>1. SilenceInv => CombinationsExact
  BY SilenceInvGives
<1> QED
  BY <1>1, SilenceInvariant, PTL
=============================================================================
