----------------------------- MODULE SequenceFolds -----------------------------
(***************************************************************************)
(* FoldLeft of the community modules by one element at a time, and by      *)
(* induction.  The operator that is folded and what is to be shown of it   *)
(* are constants: a module that proves about a fold instantiates this one  *)
(* with its own, and cites the theorems of the instance.                   *)
(*                                                                         *)
(* FoldLeft chooses a function on the sets of places of its sequence; that *)
(* there is one is shown here by the least length without (FoldsExists).   *)
(***************************************************************************)
EXTENDS SequencesExt, Integers, SequenceTheorems, WellFoundedInduction, TLAPS

CONSTANTS
    Op(_, _, _),   \* what is folded: Op(c, a, x) takes x into a, in context c
    P(_, _, _)     \* what is to be shown of it

Fold(c, base, seq) == FoldLeft(LAMBDA a, x : Op(c, a, x), base, seq)

\* g is the function by which FoldLeft is defined, on the sets of places up to n.
Folds(c, base, seq, n, g) ==
    g = [t \in SUBSET (1 .. n) |->
            IF t = {} THEN base ELSE Op(c, g[t \ {Max(t)}], seq[Max(t)])]

\* Every set of natural numbers that has a member has a least one.
LEMMA Least ==
  ASSUME NEW T \in SUBSET Nat, T # {}
  PROVE  \E m \in T : \A k \in T : m <= k
<1> DEFINE R == OpToRel(<, Nat)
<1>1. IsWellFoundedOn(R, Nat)
  BY NatLessThanWellFounded
<1>2. PICK x \in T : \A y \in T : ~(<<y, x>> \in R)
  <2> HIDE DEF R
  <2> QED BY <1>1, WFMin
<1>3. \A y \in T : ~(y < x)
  BY <1>2 DEF OpToRel
<1> QED BY <1>3

\* FoldLeft by the function it chooses.
LEMMA FoldIs ==
  ASSUME NEW c, NEW base, NEW S, NEW seq \in Seq(S)
  PROVE  Fold(c, base, seq) = (CHOOSE g : Folds(c, base, seq, Len(seq), g))[1 .. Len(seq)]
<1>1. DOMAIN seq = 1 .. Len(seq) OBVIOUS
<1> QED BY <1>1 DEF Fold, FoldLeft, MapThenFoldSet, Folds

\* The greatest of the places up to n + 1, with n + 1 among them.
LEMMA MaxIs ==
  ASSUME NEW n \in Nat, NEW t \in SUBSET (1 .. n + 1), n + 1 \in t
  PROVE  Max(t) = n + 1
<1>1. \A y \in t : n + 1 >= y OBVIOUS
<1>2. \A x \in t : (\A y \in t : x >= y) => x = n + 1 OBVIOUS
<1> QED BY <1>1, <1>2 DEF Max

\* There is such a function, for every length.
LEMMA FoldsExists ==
  ASSUME NEW c, NEW base, NEW seq
  PROVE  \A n \in Nat : \E g : Folds(c, base, seq, n, g)
<1> DEFINE T == {n \in Nat : ~\E g : Folds(c, base, seq, n, g)}
<1> SUFFICES ASSUME T # {} PROVE FALSE OBVIOUS
<1>1. PICK m \in T : \A k \in T : m <= k
  <2>1. T \in SUBSET Nat OBVIOUS
  <2> HIDE DEF T
  <2> QED BY <2>1, Least
<1>2. m # 0
  <2> SUFFICES ASSUME m = 0 PROVE \E g : Folds(c, base, seq, 0, g) OBVIOUS
  <2> DEFINE g == [t \in SUBSET (1 .. 0) |-> base]
  <2>1. \A t \in SUBSET (1 .. 0) : t = {} OBVIOUS
  <2>2. g = [t \in SUBSET (1 .. 0) |->
               IF t = {} THEN base ELSE Op(c, g[t \ {Max(t)}], seq[Max(t)])]
    BY <2>1, Zenon
  <2> QED BY <2>2 DEF Folds
<1>3. PICK n \in Nat : m = n + 1
  <2>1. m \in Nat /\ m - 1 \in Nat /\ m = (m - 1) + 1 BY <1>2
  <2> QED BY <2>1
<1>4. PICK f : Folds(c, base, seq, n, f)
  <2>1. n \notin T BY <1>1, <1>3
  <2> QED BY <2>1
<1> DEFINE g == [t \in SUBSET (1 .. n + 1) |->
                   IF n + 1 \in t THEN Op(c, f[t \ {n + 1}], seq[n + 1]) ELSE f[t]]
<1>5. ASSUME NEW t \in SUBSET (1 .. n + 1)
      PROVE  g[t] = IF t = {} THEN base ELSE Op(c, g[t \ {Max(t)}], seq[Max(t)])
  <2>1. CASE n + 1 \in t
    <3>1. Max(t) = n + 1 BY <2>1, MaxIs
    <3>2. t \ {n + 1} \in SUBSET (1 .. n) OBVIOUS
    <3>3. t \ {n + 1} \in SUBSET (1 .. n + 1) /\ n + 1 \notin t \ {n + 1} OBVIOUS
    <3>4. g[t \ {n + 1}] = f[t \ {n + 1}] BY <3>3
    <3>5. g[t] = Op(c, f[t \ {n + 1}], seq[n + 1]) BY <2>1
    <3> HIDE DEF g
    <3> QED BY <2>1, <3>1, <3>4, <3>5
  <2>2. CASE n + 1 \notin t
    <3>1. t \in SUBSET (1 .. n) BY <2>2
    <3>2. f[t] = IF t = {} THEN base ELSE Op(c, f[t \ {Max(t)}], seq[Max(t)])
      BY <1>4, <3>1 DEF Folds
    <3>3. t \ {Max(t)} \in SUBSET (1 .. n + 1) /\ n + 1 \notin t \ {Max(t)} BY <2>2
    <3>4. g[t \ {Max(t)}] = f[t \ {Max(t)}] BY <3>3
    <3>5. g[t] = f[t] BY <2>2
    <3> HIDE DEF g
    <3> QED BY <3>2, <3>4, <3>5
  <2> QED BY <2>1, <2>2
<1>6. Folds(c, base, seq, n + 1, g)
  <2> DEFINE h == [t \in SUBSET (1 .. n + 1) |->
                     IF t = {} THEN base ELSE Op(c, g[t \ {Max(t)}], seq[Max(t)])]
  <2>1. \A t \in SUBSET (1 .. n + 1) : g[t] = h[t] BY <1>5, Zenon
  <2>2. g = h
    <3>1. DOMAIN g = DOMAIN h OBVIOUS
    <3> QED BY <2>1, <3>1
  <2> QED BY <2>2 DEF Folds
<1> QED BY <1>3, <1>6

\* The fold of the first k places.
Reach(c, base, seq, n, k) == (CHOOSE g : Folds(c, base, seq, n, g))[1 .. k]

\* The fold of no place, and of one place more.
LEMMA ReachIs ==
  \A c, base, seq : \A n \in Nat :
    /\ Reach(c, base, seq, n, 0) = base
    /\ \A k \in 1 .. n :
         Reach(c, base, seq, n, k) = Op(c, Reach(c, base, seq, n, k - 1), seq[k])
<1> SUFFICES ASSUME NEW c, NEW base, NEW seq, NEW n \in Nat
             PROVE  /\ Reach(c, base, seq, n, 0) = base
                    /\ \A k \in 1 .. n :
                         Reach(c, base, seq, n, k) = Op(c, Reach(c, base, seq, n, k - 1), seq[k])
  OBVIOUS
<1> DEFINE g == CHOOSE f : Folds(c, base, seq, n, f)
<1>1. Folds(c, base, seq, n, g) BY FoldsExists
<1> HIDE DEF g
<1>2. \A t \in SUBSET (1 .. n) :
        g[t] = IF t = {} THEN base ELSE Op(c, g[t \ {Max(t)}], seq[Max(t)])
  BY <1>1 DEF Folds
<1>3. \A k \in 0 .. n : Reach(c, base, seq, n, k) = g[1 .. k] BY DEF Reach, g
<1>4. 1 .. 0 = {} OBVIOUS
<1>5. ASSUME NEW k \in 1 .. n
      PROVE  g[1 .. k] = Op(c, g[1 .. k - 1], seq[k])
  <2>1. 1 .. k \in SUBSET (1 .. n) /\ 1 .. k # {} OBVIOUS
  <2>2. Max(1 .. k) = k
    <3>1. k - 1 \in Nat /\ 1 .. k \in SUBSET (1 .. (k - 1) + 1)
          /\ (k - 1) + 1 \in 1 .. k /\ (k - 1) + 1 = k OBVIOUS
    <3> QED BY <3>1, MaxIs
  <2>3. (1 .. k) \ {k} = 1 .. k - 1 OBVIOUS
  <2> QED BY <1>2, <2>1, <2>2, <2>3
<1>6. \A k \in 1 .. n : k \in 0 .. n /\ k - 1 \in 0 .. n OBVIOUS
<1>7. 0 \in 0 .. n OBVIOUS
<1> QED BY <1>2, <1>3, <1>4, <1>5, <1>6, <1>7

\* The second of these, to cite.
LEMMA ReachNext ==
  \A c, base, seq, n, k : n \in Nat /\ k \in 1 .. n =>
    Reach(c, base, seq, n, k) = Op(c, Reach(c, base, seq, n, k - 1), seq[k])
<1> TAKE c, base, seq, n, k
<1> HAVE n \in Nat /\ k \in 1 .. n
<1>1. Reach(c, base, seq, n, 0) = base BY ReachIs
<1> QED BY <1>1, ReachIs

\* Two folds agree as far as what they fold with does.
LEMMA ReachAgrees ==
  \A c, d, base, s, t : \A n, m, top \in Nat :
    top <= n /\ top <= m /\ (\A k \in 1 .. top : \A a : Op(c, a, s[k]) = Op(d, a, t[k]))
    => Reach(c, base, s, n, top) = Reach(d, base, t, m, top)
<1> SUFFICES ASSUME NEW c, NEW d, NEW base, NEW s, NEW t,
                    NEW n \in Nat, NEW m \in Nat, NEW top \in Nat, top <= n, top <= m,
                    \A k \in 1 .. top : \A a : Op(c, a, s[k]) = Op(d, a, t[k])
             PROVE  Reach(c, base, s, n, top) = Reach(d, base, t, m, top)
  OBVIOUS
<1> DEFINE T == {k \in 0 .. top : Reach(c, base, s, n, k) # Reach(d, base, t, m, k)}
<1> SUFFICES ASSUME T # {} PROVE FALSE OBVIOUS
<1>1. PICK z \in T : \A k \in T : z <= k
  <2>1. T \in SUBSET Nat OBVIOUS
  <2> HIDE DEF T
  <2> QED BY <2>1, Least
<1>2. z # 0 BY ReachIs
<1>3. z \in 1 .. top /\ z - 1 \in 0 .. top /\ z - 1 \notin T BY <1>1, <1>2
<1>4. Reach(c, base, s, n, z - 1) = Reach(d, base, t, m, z - 1) BY <1>3
<1>5. Reach(c, base, s, n, z) = Op(c, Reach(c, base, s, n, z - 1), s[z])
  <2>1. z \in 1 .. n BY <1>3
  <2>2. n \in Nat OBVIOUS
  <2> HIDE DEF T
  <2> QED BY ONLY <2>1, <2>2, ReachNext
<1>6. Reach(d, base, t, m, z) = Op(d, Reach(d, base, t, m, z - 1), t[z])
  <2>1. z \in 1 .. m BY <1>3
  <2>2. m \in Nat OBVIOUS
  <2> HIDE DEF T
  <2> QED BY ONLY <2>1, <2>2, ReachNext
<1> QED BY <1>3, <1>4, <1>5, <1>6

-----------------------------------------------------------------------------
\* FoldLeft of no element is its base.
THEOREM FoldEmpty == ASSUME NEW c, NEW base PROVE Fold(c, base, <<>>) = base
<1>1. <<>> \in Seq({}) /\ Len(<<>>) = 0 /\ 0 \in Nat OBVIOUS
<1>2. Fold(c, base, <<>>) = Reach(c, base, <<>>, 0, 0) BY <1>1, FoldIs DEF Reach
<1>3. Reach(c, base, <<>>, 0, 0) = base BY <1>1, ReachIs
<1> QED BY <1>2, <1>3

\* FoldLeft of a sequence and one more element.
THEOREM FoldAppend ==
  ASSUME NEW c, NEW base, NEW S, NEW seq \in Seq(S), NEW e \in S
  PROVE  Fold(c, base, Append(seq, e)) = Op(c, Fold(c, base, seq), e)
<1> DEFINE n == Len(seq)
           s == Append(seq, e)
<1>1. /\ s \in Seq(S) /\ Len(s) = n + 1 /\ s[n + 1] = e /\ n \in Nat
      /\ \A k \in 1 .. n : s[k] = seq[k]
  OBVIOUS
<1> HIDE DEF s
<1>2. Reach(c, base, s, n + 1, n) = Reach(c, base, seq, n, n)
  <2>1. n <= n + 1 /\ n <= n /\ n + 1 \in Nat BY <1>1
  <2>2. \A k \in 1 .. n : \A a : Op(c, a, s[k]) = Op(c, a, seq[k]) BY <1>1
  <2> HIDE DEF n
  <2> QED BY <1>1, <2>1, <2>2, ReachAgrees
<1>3. Reach(c, base, s, n + 1, n + 1) = Op(c, Reach(c, base, s, n + 1, n), s[n + 1])
  <2>1. n + 1 \in 1 .. n + 1 /\ n + 1 \in Nat /\ (n + 1) - 1 = n BY <1>1
  <2>2. \A k \in 1 .. n + 1 :
          Reach(c, base, s, n + 1, k) = Op(c, Reach(c, base, s, n + 1, k - 1), s[k])
    BY <2>1, ReachNext
  <2>3. Reach(c, base, s, n + 1, n + 1)
          = Op(c, Reach(c, base, s, n + 1, (n + 1) - 1), s[n + 1])
    BY <2>1, <2>2, Zenon
  <2> QED BY <2>1, <2>3
<1>4. Fold(c, base, s) = Reach(c, base, s, n + 1, n + 1) BY <1>1, FoldIs DEF Reach
<1>5. Fold(c, base, seq) = Reach(c, base, seq, n, n) BY FoldIs DEF Reach
<1> QED BY <1>1, <1>2, <1>3, <1>4, <1>5 DEF s

\* FoldLeft of one element.
THEOREM FoldOne == ASSUME NEW c, NEW base, NEW x PROVE Fold(c, base, <<x>>) = Op(c, base, x)
<1>1. <<x>> \in Seq({x}) /\ Len(<<x>>) = 1 /\ <<x>>[1] = x OBVIOUS
<1>2. 1 \in Nat /\ 1 \in 1 .. 1 /\ 1 - 1 = 0 OBVIOUS
<1> DEFINE s == <<x>>
<1> HIDE DEF s
<1>3. Fold(c, base, s) = Reach(c, base, s, 1, 1) BY <1>1, FoldIs DEF Reach, s
<1>4. Reach(c, base, s, 1, 0) = base BY <1>2, ReachIs
<1>5. Reach(c, base, s, 1, 1) = Op(c, Reach(c, base, s, 1, 0), s[1])
  BY ONLY <1>2, ReachNext
<1> QED BY <1>1, <1>3, <1>4, <1>5 DEF s

\* Folds agree where what they fold with agrees.
THEOREM FoldAgrees ==
  ASSUME NEW c, NEW d, NEW base, NEW S, NEW seq \in Seq(S),
         \A x \in S : \A a : Op(c, a, x) = Op(d, a, x)
  PROVE  Fold(c, base, seq) = Fold(d, base, seq)
<1> DEFINE n == Len(seq)
<1>1. n \in Nat /\ n \in 0 .. n /\ \A k \in 1 .. n : seq[k] \in S OBVIOUS
<1>2. Reach(c, base, seq, n, n) = Reach(d, base, seq, n, n)
  <2>1. \A k \in 1 .. n : \A a : Op(c, a, seq[k]) = Op(d, a, seq[k]) BY <1>1
  <2> HIDE DEF n
  <2> QED BY <1>1, <2>1, ReachAgrees
<1> QED BY <1>2, FoldIs DEF Reach

\* What holds of the base and is kept by each element holds of the fold.
THEOREM FoldInduction ==
  ASSUME NEW c, NEW base, NEW S, P(c, <<>>, base),
         \A s \in Seq(S), x \in S : \A a : P(c, s, a) => P(c, Append(s, x), Op(c, a, x))
  PROVE  \A seq \in Seq(S) : P(c, seq, Fold(c, base, seq))
<1> DEFINE T == {n \in Nat : \E s \in Seq(S) : Len(s) = n /\ ~P(c, s, Fold(c, base, s))}
<1> SUFFICES ASSUME T # {} PROVE FALSE
  <2>1. \A s \in Seq(S) : Len(s) \in Nat OBVIOUS
  <2> QED BY <2>1
<1>1. PICK z \in T : \A k \in T : z <= k
  <2>1. T \in SUBSET Nat OBVIOUS
  <2> HIDE DEF T
  <2> QED BY <2>1, Least
<1>2. PICK s \in Seq(S) : Len(s) = z /\ ~P(c, s, Fold(c, base, s)) OBVIOUS
<1>3. s # <<>> BY <1>2, FoldEmpty
<1> DEFINE r == SubSeq(s, 1, Len(s) - 1)
           e == s[Len(s)]
<1>4. r \in Seq(S) /\ e \in S /\ s = Append(r, e) /\ Len(r) = Len(s) - 1 /\ Len(s) \in Nat
  <2>1. Len(s) \in Nat \ {0} BY <1>3
  <2>2. r \in Seq(S) /\ Len(r) = Len(s) - 1
    <3> DEFINE m == Len(s) - 1
    <3>1. m \in Nat /\ m + 1 = Len(s) BY <2>1
    <3>2. r = SubSeq(s, 1, m) OBVIOUS
    <3> HIDE DEF m, r
    <3> QED BY <3>1, <3>2
  <2>3. e \in S BY <2>1
  <2>4. /\ Append(r, e) \in Seq(S) /\ Len(Append(r, e)) = Len(s)
        /\ \A k \in 1 .. Len(s) : Append(r, e)[k] = s[k]
    BY <2>1, <2>2, <2>3
  <2>5. s = Append(r, e)
    <3> HIDE DEF r, e
    <3> QED BY <2>4
  <2> QED BY <2>1, <2>2, <2>3, <2>5
<1> HIDE DEF r, e
<1>5. P(c, r, Fold(c, base, r))
  <2>1. Len(r) \in Nat /\ Len(r) < z BY <1>2, <1>3, <1>4
  <2>2. Len(r) \notin T BY <1>1, <2>1
  <2> QED BY <1>4, <2>1, <2>2
<1>6. P(c, Append(r, e), Op(c, Fold(c, base, r), e)) BY <1>4, <1>5
<1> QED BY <1>2, <1>4, <1>6, FoldAppend
=============================================================================
