------------------------ MODULE HTTPRepository_proofs ------------------------
(***************************************************************************)
(* Theorems about HTTPRepository, for every tree of directories and files, *)
(* every pair of versions of it and every limit: the types, the throttled  *)
(* queue, tasks that find their directory, the agreement of the repository *)
(* with its client, the refinement of RepositorySync, and that a sync that *)
(* ends without a failure has made the tree what its indices say.          *)
(*                                                                         *)
(* The call stack is what makes it hard: a callback may be interrupted by  *)
(* any other, at every depth.  The inductive invariant IInv says           *)
(*   Typed     which calls can be above which on the stack (Shape),        *)
(*   Lists     that nothing is listed twice,                               *)
(*   Order     that an entry is asked for, waits, is under way or is       *)
(*             looked into, one of these, and nothing is to be done inside *)
(*             it meanwhile, so that no orphan that is removed has work    *)
(*             pending inside,                                             *)
(*   Accounts, Quiet, Cancels  what becomes of a request that is finished, *)
(*   Content   that a directory is in step with its index but for what is  *)
(*             still to be done, or has failed.                            *)
(* First come lemmas about paths, lists and the stack, for any state; then *)
(* IInv, one lemma for each step that can disturb it, and the theorems.    *)
(***************************************************************************)
EXTENDS HTTPRepository, TLAPS, FiniteSetTheorems, SequenceTheorems

-----------------------------------------------------------------------------
(* Paths.                                                                  *)

(* A set that has, with an entry, the directory of the entry.              *)
LEMMA AboveLeast ==
    ASSUME NEW e \in Entries, NEW S \in SUBSET Entries, e \in S,
           \A x \in S \ {Root} : Parent[x] \in S
    PROVE  Above[e] \subseteq S
  BY DEF Above

LEMMA AboveSelf == ASSUME NEW e \in Entries PROVE e \in Above[e] /\ Above[e] \subseteq Entries
  BY DEF Above

LEMMA AboveUp ==
    ASSUME NEW e \in Entries, NEW x \in Above[e] \ {Root}
    PROVE  Parent[x] \in Above[e]
  BY RepositoryAssumption DEF Above, Entries

LEMMA AboveTransitive ==
    ASSUME NEW e \in Entries, NEW f \in Above[e]
    PROVE  Above[f] \subseteq Above[e]
<1>1. f \in Entries /\ Above[e] \in SUBSET Entries
  BY AboveSelf
<1> QED BY <1>1, AboveLeast, AboveUp

LEMMA AboveRoot == Above[Root] = {Root}
<1>1. Root \in Entries /\ {Root} \in SUBSET Entries
  BY RepositoryAssumption DEF Entries
<1> QED BY <1>1, AboveLeast, AboveSelf

(* The path of a child is the path of its directory and the child.         *)
LEMMA AboveChild ==
    ASSUME NEW c \in Entries \ {Root}
    PROVE  /\ Parent[c] \in Dirs /\ Parent[c] \in Entries
           /\ Above[c] = {c} \cup Above[Parent[c]]
<1>1. Parent[c] \in Dirs /\ Parent[c] \in Entries
  BY RepositoryAssumption DEF Entries
<1>2. {c} \cup Above[Parent[c]] \in SUBSET Entries
  BY <1>1, AboveSelf
<1>3. \A x \in ({c} \cup Above[Parent[c]]) \ {Root} : Parent[x] \in {c} \cup Above[Parent[c]]
  BY <1>1, AboveSelf, AboveUp
<1>4. Above[c] \subseteq {c} \cup Above[Parent[c]]
  BY <1>2, <1>3, AboveLeast
<1>5. Parent[c] \in Above[c]
  BY AboveSelf, AboveUp
<1> QED BY <1>1, <1>4, <1>5, AboveSelf, AboveTransitive

(* Only a directory has anything inside it.                                *)
LEMMA AboveDirs == ASSUME NEW d \in Dirs PROVE Above[d] \subseteq Dirs /\ d \in Entries
<1>1. d \in Entries /\ Dirs \in SUBSET Entries /\ \A x \in Dirs \ {Root} : Parent[x] \in Dirs
  BY RepositoryAssumption DEF Entries
<1> QED BY <1>1, AboveLeast

(* The path of what is inside a directory leads through a child of it.     *)
LEMMA AboveThrough ==
    ASSUME NEW e \in Entries, NEW d \in Above[e], d # e
    PROVE  \E c \in Inside(d) : c \in Above[e]
<1> SUFFICES ASSUME \A c \in Inside(d) : c \notin Above[e] PROVE FALSE
  OBVIOUS
<1> DEFINE S == Above[e] \ {d}
<1>1. S \in SUBSET Entries /\ e \in S
  BY AboveSelf
<1>2. \A x \in S \ {Root} : Parent[x] \in S
  BY <1>1, AboveUp DEF Inside
<1>3. Above[e] \subseteq S
  BY <1>1, <1>2, AboveLeast
<1> QED BY <1>3

(* No entry is inside itself, and no child is inside another.              *)
LEMMA ChildrenApart ==
    ASSUME NEW d \in Entries, NEW c \in Inside(d)
    PROVE  /\ c # d /\ c \notin Above[d] /\ d \in Above[c]
           /\ \A b \in Inside(d) : b \in Above[c] => b = c
<1>1. c \in Entries \ {Root} /\ Parent[c] = d
  BY DEF Inside
<1>2. c \notin Above[d]
  BY <1>1, RepositoryAssumption
<1>3. ASSUME NEW b \in Inside(d), b \in Above[c], b # c PROVE FALSE
  <2>1. b \in Entries \ {Root} /\ Parent[b] = d /\ b \in Above[d]
    BY <1>1, <1>3, AboveChild DEF Inside
  <2> QED BY <2>1, RepositoryAssumption
<1> QED BY <1>1, <1>2, <1>3, AboveSelf, AboveChild
-----------------------------------------------------------------------------
(* Lists.  What a list of calls or tasks says of ops is the set of the     *)
(* entries they are said of.                                               *)

OfAll(s, op) == {s[i].of : i \in {j \in DOMAIN s : s[j].op = op}}

Once(s, op) ==
    \A i, j \in DOMAIN s :
        s[i].op = op /\ s[j].op = op /\ s[i].of = s[j].of => i = j

LEMMA OfAllEmpty == ASSUME NEW op PROVE OfAll(<<>>, op) = {} /\ Once(<<>>, op)
  BY DEF OfAll, Once

LEMMA OfAllOne ==
    ASSUME NEW X, NEW f \in X, NEW op
    PROVE  /\ <<f>> \in Seq(X)
           /\ f.op = op => OfAll(<<f>>, op) = {f.of}
           /\ f.op # op => OfAll(<<f>>, op) = {}
           /\ Once(<<f>>, op)
<1>1. <<f>> \in Seq(X) /\ DOMAIN <<f>> = {1} /\ <<f>>[1] = f
  OBVIOUS
<1> QED BY <1>1 DEF OfAll, Once

LEMMA OfAllConcat ==
    ASSUME NEW X, NEW s \in Seq(X), NEW t \in Seq(X), NEW op
    PROVE  /\ s \o t \in Seq(X)
           /\ OfAll(s \o t, op) = OfAll(s, op) \cup OfAll(t, op)
           /\ Once(s, op) /\ Once(t, op) /\ OfAll(s, op) \cap OfAll(t, op) = {} =>
                Once(s \o t, op)
<1> DEFINE u == s \o t
<1>1. /\ u \in Seq(X) /\ Len(u) = Len(s) + Len(t)
      /\ DOMAIN u = 1 .. Len(u) /\ DOMAIN s = 1 .. Len(s) /\ DOMAIN t = 1 .. Len(t)
      /\ Len(s) \in Nat /\ Len(t) \in Nat
      /\ \A i \in DOMAIN u : u[i] = IF i <= Len(s) THEN s[i] ELSE t[i - Len(s)]
  BY ConcatProperties, LenProperties
<1>2. \A i \in DOMAIN s : i \in DOMAIN u /\ u[i] = s[i]
  BY <1>1
<1>3. \A i \in DOMAIN t : i + Len(s) \in DOMAIN u /\ u[i + Len(s)] = t[i]
  BY <1>1
<1>4. \A i \in DOMAIN u : \/ i \in DOMAIN s /\ u[i] = s[i]
                          \/ i - Len(s) \in DOMAIN t /\ u[i] = t[i - Len(s)] /\ i > Len(s)
  BY <1>1
<1> HIDE DEF u
<1>5. OfAll(u, op) \subseteq OfAll(s, op) \cup OfAll(t, op)
  BY <1>4 DEF OfAll
<1>6. OfAll(s, op) \subseteq OfAll(u, op)
  BY <1>2 DEF OfAll
<1>7. OfAll(t, op) \subseteq OfAll(u, op)
  BY <1>3 DEF OfAll
<1>8. ASSUME Once(s, op), Once(t, op), OfAll(s, op) \cap OfAll(t, op) = {}
      PROVE  Once(u, op)
  <2>1. \A i \in DOMAIN s, j \in DOMAIN t : ~(s[i].op = op /\ t[j].op = op /\ s[i].of = t[j].of)
    BY <1>8 DEF OfAll
  <2>2. SUFFICES ASSUME NEW i \in DOMAIN u, NEW j \in DOMAIN u,
                        u[i].op = op, u[j].op = op, u[i].of = u[j].of
                 PROVE  i = j
    BY DEF Once
  <2>3. CASE i \in DOMAIN s /\ u[i] = s[i] /\ j \in DOMAIN s /\ u[j] = s[j]
    BY <2>2, <2>3, <1>8 DEF Once
  <2>4. CASE /\ i - Len(s) \in DOMAIN t /\ u[i] = t[i - Len(s)]
             /\ j - Len(s) \in DOMAIN t /\ u[j] = t[j - Len(s)]
    <3>1. i - Len(s) = j - Len(s)
      BY <2>2, <2>4, <1>8 DEF Once
    <3> QED BY <3>1, <1>1
  <2> QED BY <1>4, <2>1, <2>2, <2>3, <2>4
<1> QED BY <1>1, <1>5, <1>6, <1>7, <1>8 DEF u

LEMMA OfAllHead ==
    ASSUME NEW X, NEW s \in Seq(X), s # <<>>, NEW op
    PROVE  /\ Head(s) \in X /\ Tail(s) \in Seq(X)
           /\ Head(s).op = op => OfAll(s, op) = {Head(s).of} \cup OfAll(Tail(s), op)
           /\ Head(s).op # op => OfAll(s, op) = OfAll(Tail(s), op)
<1> DEFINE t == Tail(s)
<1>1. /\ Head(s) \in X /\ t \in Seq(X) /\ Len(t) = Len(s) - 1 /\ Len(s) \in Nat
      /\ DOMAIN t = 1 .. Len(t) /\ DOMAIN s = 1 .. Len(s)
      /\ \A i \in DOMAIN t : i + 1 \in DOMAIN s /\ t[i] = s[i + 1]
  BY HeadTailProperties, LenProperties
<1>2. 1 \in DOMAIN s /\ s[1] = Head(s)
  BY <1>1, EmptySeq
<1>3. \A i \in DOMAIN s : i # 1 => i - 1 \in DOMAIN t /\ s[i] = t[i - 1]
  BY <1>1
<1> HIDE DEF t
<1>5. OfAll(s, op) \subseteq (IF Head(s).op = op THEN {Head(s).of} ELSE {}) \cup OfAll(t, op)
  BY <1>2, <1>3 DEF OfAll
<1>6. (IF Head(s).op = op THEN {Head(s).of} ELSE {}) \cup OfAll(t, op) \subseteq OfAll(s, op)
  BY <1>1, <1>2 DEF OfAll
<1>7. Head(s).op = op => OfAll(s, op) = {Head(s).of} \cup OfAll(t, op)
  BY <1>5, <1>6
<1>8. Head(s).op # op => OfAll(s, op) = OfAll(t, op)
  BY <1>5, <1>6
<1> QED BY <1>1, <1>7, <1>8 DEF t

LEMMA OnceHead ==
    ASSUME NEW X, NEW s \in Seq(X), s # <<>>, NEW op, Once(s, op)
    PROVE  /\ Once(Tail(s), op)
           /\ Head(s).op = op => Head(s).of \notin OfAll(Tail(s), op)
<1> DEFINE t == Tail(s)
<1>1. /\ Head(s) \in X /\ t \in Seq(X) /\ Len(t) = Len(s) - 1 /\ Len(s) \in Nat
      /\ DOMAIN t = 1 .. Len(t) /\ DOMAIN s = 1 .. Len(s)
      /\ \A i \in DOMAIN t : i + 1 \in DOMAIN s /\ t[i] = s[i + 1]
  BY HeadTailProperties, LenProperties
<1>2. 1 \in DOMAIN s /\ s[1] = Head(s)
  BY <1>1, EmptySeq
<1> HIDE DEF t
<1>3. Once(t, op)
  <2> SUFFICES ASSUME NEW i \in DOMAIN t, NEW j \in DOMAIN t,
                      t[i].op = op, t[j].op = op, t[i].of = t[j].of
               PROVE  i = j
    BY DEF Once
  <2>1. i + 1 = j + 1
    BY <1>1 DEF Once
  <2> QED BY <2>1, <1>1
<1>4. ASSUME Head(s).op = op, NEW i \in DOMAIN t, t[i].op = op, t[i].of = Head(s).of
      PROVE  FALSE
  <2>1. i + 1 = 1
    BY <1>1, <1>2, <1>4 DEF Once
  <2> QED BY <2>1, <1>1
<1> QED BY <1>3, <1>4 DEF OfAll, t

-----------------------------------------------------------------------------
(* Lists of requests.                                                      *)

LEMMA InjectiveAppend ==
    ASSUME NEW X, NEW s \in Seq(X), NEW e \in X
    PROVE  /\ Append(s, e) \in Seq(X) /\ Len(Append(s, e)) = Len(s) + 1
           /\ ToSet(Append(s, e)) = ToSet(s) \cup {e}
           /\ IsInjective(s) /\ e \notin ToSet(s) => IsInjective(Append(s, e))
<1> DEFINE u == Append(s, e)
<1>1. /\ u \in Seq(X) /\ Len(u) = Len(s) + 1 /\ Len(s) \in Nat
      /\ DOMAIN u = 1 .. Len(u) /\ DOMAIN s = 1 .. Len(s)
      /\ \A i \in DOMAIN s : u[i] = s[i]
      /\ u[Len(s) + 1] = e
  BY AppendProperties, LenProperties
<1>2. \A i \in DOMAIN u : i \in DOMAIN s \/ i = Len(s) + 1
  BY <1>1
<1>3. DOMAIN s \subseteq DOMAIN u /\ Len(s) + 1 \in DOMAIN u
  BY <1>1
<1> HIDE DEF u
<1> QED BY <1>1, <1>2, <1>3 DEF ToSet, IsInjective, u

LEMMA InjectiveTail ==
    ASSUME NEW X, NEW s \in Seq(X), s # <<>>
    PROVE  /\ Head(s) \in X /\ Tail(s) \in Seq(X) /\ Len(Tail(s)) = Len(s) - 1
           /\ ToSet(s) = {Head(s)} \cup ToSet(Tail(s))
           /\ IsInjective(s) => IsInjective(Tail(s)) /\ Head(s) \notin ToSet(Tail(s))
<1> DEFINE t == Tail(s)
<1>1. /\ Head(s) \in X /\ t \in Seq(X) /\ Len(t) = Len(s) - 1 /\ Len(s) \in Nat
      /\ DOMAIN t = 1 .. Len(t) /\ DOMAIN s = 1 .. Len(s)
      /\ \A i \in DOMAIN t : i + 1 \in DOMAIN s /\ t[i] = s[i + 1]
  BY HeadTailProperties, LenProperties
<1>2. 1 \in DOMAIN s /\ s[1] = Head(s)
  BY <1>1, EmptySeq
<1>3. \A i \in DOMAIN s : i # 1 => i - 1 \in DOMAIN t /\ s[i] = t[i - 1]
  BY <1>1
<1> HIDE DEF t
<1>4. ToSet(s) = {Head(s)} \cup ToSet(t)
  <2>1. ToSet(s) \subseteq {Head(s)} \cup ToSet(t)
    BY <1>2, <1>3 DEF ToSet
  <2>2. {Head(s)} \cup ToSet(t) \subseteq ToSet(s)
    BY <1>1, <1>2 DEF ToSet
  <2> QED BY <2>1, <2>2
<1>5. ASSUME IsInjective(s) PROVE IsInjective(t) /\ Head(s) \notin ToSet(t)
  <2>1. ASSUME NEW i \in DOMAIN t, NEW j \in DOMAIN t, t[i] = t[j] PROVE i = j
    <3>1. i + 1 = j + 1
      BY <1>1, <1>5, <2>1 DEF IsInjective
    <3> QED BY <3>1, <1>1
  <2>2. ASSUME NEW i \in DOMAIN t, t[i] = Head(s) PROVE FALSE
    <3>1. i + 1 = 1
      BY <1>1, <1>2, <1>5, <2>2 DEF IsInjective
    <3> QED BY <3>1, <1>1
  <2> QED BY <2>1, <2>2 DEF IsInjective, ToSet
<1> QED BY <1>1, <1>4, <1>5 DEF t

LEMMA InjectiveConcat ==
    ASSUME NEW X, NEW s \in Seq(X), NEW t \in Seq(X),
           IsInjective(s), IsInjective(t), ToSet(s) \cap ToSet(t) = {}
    PROVE  IsInjective(s \o t)
<1> DEFINE u == s \o t
<1>1. /\ DOMAIN u = 1 .. Len(u) /\ DOMAIN s = 1 .. Len(s) /\ DOMAIN t = 1 .. Len(t)
      /\ Len(s) \in Nat /\ Len(t) \in Nat /\ Len(u) = Len(s) + Len(t)
      /\ \A i \in DOMAIN u : u[i] = IF i <= Len(s) THEN s[i] ELSE t[i - Len(s)]
  BY ConcatProperties, LenProperties
<1>2. \A i \in DOMAIN u : \/ i \in DOMAIN s /\ u[i] = s[i]
                          \/ i - Len(s) \in DOMAIN t /\ u[i] = t[i - Len(s)] /\ i > Len(s)
  BY <1>1
<1>3. \A i \in DOMAIN s, j \in DOMAIN t : s[i] # t[j]
  BY DEF ToSet
<1> HIDE DEF u
<1>4. SUFFICES ASSUME NEW i \in DOMAIN u, NEW j \in DOMAIN u, u[i] = u[j] PROVE i = j
  BY DEF IsInjective, u
<1>5. CASE i \in DOMAIN s /\ u[i] = s[i] /\ j \in DOMAIN s /\ u[j] = s[j]
  BY <1>4, <1>5 DEF IsInjective
<1>6. CASE /\ i - Len(s) \in DOMAIN t /\ u[i] = t[i - Len(s)]
           /\ j - Len(s) \in DOMAIN t /\ u[j] = t[j - Len(s)]
  <2>1. i - Len(s) = j - Len(s)
    BY <1>4, <1>6 DEF IsInjective
  <2> QED BY <2>1, <1>1
<1> QED BY <1>2, <1>3, <1>4, <1>5, <1>6

(* Where the first e of a list is found, if there is one.                  *)
LEMMA FirstPosition ==
    ASSUME NEW X, NEW s \in Seq(X), IsInjective(s), NEW e, e \in ToSet(s)
    PROVE  \E k \in DOMAIN s : s[k] = e /\ RemoveFirst(s, e) = RemoveAt(s, k)
<1> DEFINE I == {i \in 1 .. Len(s) : s[i] = e}
<1>1. DOMAIN s = 1 .. Len(s) /\ Len(s) \in Nat
  BY LenProperties
<1>2. PICK k \in DOMAIN s : s[k] = e
  BY DEF ToSet
<1>3. I = {k} /\ k \in Nat
  BY <1>1, <1>2 DEF IsInjective
<1>4. Min(I) = k
  BY <1>3 DEF Min
<1>5. RemoveFirst(s, e) = RemoveAt(s, Min(I))
  BY <1>2, <1>3 DEF RemoveFirst, SelectInSeq
<1> QED BY <1>2, <1>4, <1>5

(* A list without one of its requests, as erase of what find has found.    *)
LEMMA InjectiveRemove ==
    ASSUME NEW X, NEW s \in Seq(X), IsInjective(s), NEW e \in ToSet(s)
    PROVE  /\ RemoveFirst(s, e) \in Seq(X)
           /\ Len(RemoveFirst(s, e)) = Len(s) - 1 /\ Len(s) \in Nat
           /\ ToSet(RemoveFirst(s, e)) = ToSet(s) \ {e}
           /\ IsInjective(RemoveFirst(s, e))
<1>1. PICK k \in DOMAIN s : s[k] = e /\ RemoveFirst(s, e) = RemoveAt(s, k)
  BY FirstPosition
<1> DEFINE a == SubSeq(s, 1, k - 1)
           b == SubSeq(s, k + 1, Len(s))
           u == a \o b
<1>2. DOMAIN s = 1 .. Len(s) /\ Len(s) \in Nat /\ k \in 1 .. Len(s) /\ \A i \in DOMAIN s : s[i] \in X
  BY LenProperties
<1>3. a \in Seq(X) /\ Len(a) = k - 1 /\ \A i \in 1 .. k - 1 : a[i] = s[i]
  BY <1>2, SubSeqProperties
<1>4. /\ b \in Seq(X) /\ Len(b) = Len(s) - k
      /\ \A i \in 1 .. Len(s) - k : b[i] = s[k + i]
  BY <1>2, SubSeqProperties
<1>7. u = RemoveFirst(s, e)
  BY <1>1 DEF RemoveAt
<1> HIDE DEF a, b
<1>5. /\ u \in Seq(X) /\ Len(u) = Len(s) - 1 /\ DOMAIN u = 1 .. Len(s) - 1
      /\ \A i \in 1 .. Len(s) - 1 : u[i] = IF i <= k - 1 THEN a[i] ELSE b[i - (k - 1)]
  <2>1. /\ u \in Seq(X) /\ Len(u) = Len(a) + Len(b)
        /\ \A i \in 1 .. Len(a) + Len(b) : u[i] = IF i <= Len(a) THEN a[i] ELSE b[i - Len(a)]
    BY <1>3, <1>4, ConcatProperties
  <2>2. Len(a) + Len(b) = Len(s) - 1 /\ Len(a) = k - 1
    BY <1>2, <1>3, <1>4
  <2> QED BY <2>1, <2>2, LenProperties
<1> HIDE DEF u
<1>6. \A i \in 1 .. Len(s) - 1 : u[i] = IF i < k THEN s[i] ELSE s[i + 1]
  <2> SUFFICES ASSUME NEW i \in 1 .. Len(s) - 1 PROVE u[i] = IF i < k THEN s[i] ELSE s[i + 1]
    OBVIOUS
  <2>1. CASE i < k
    <3>1. i \in 1 .. k - 1
      BY <1>2, <2>1
    <3> QED BY <1>2, <1>3, <1>5, <2>1, <3>1
  <2>2. CASE i >= k
    <3>1. i - (k - 1) \in 1 .. Len(s) - k /\ k + (i - (k - 1)) = i + 1 /\ ~(i <= k - 1)
      BY <1>2, <2>2
    <3>2. b[i - (k - 1)] = s[k + (i - (k - 1))]
      BY <1>4, <3>1
    <3> QED BY <1>5, <2>2, <3>1, <3>2
  <2> QED BY <1>2, <2>1, <2>2
<1>8. ToSet(u) = ToSet(s) \ {e} /\ IsInjective(u)
  <2>1. \A i \in DOMAIN s : i # k => s[i] # e
    BY <1>1 DEF IsInjective
  <2>2. \A i \in DOMAIN u : \E j \in DOMAIN s : j # k /\ u[i] = s[j] /\ j = IF i < k THEN i ELSE i + 1
    BY <1>2, <1>5, <1>6
  <2>3. \A j \in DOMAIN s : j # k => \E i \in DOMAIN u : u[i] = s[j]
    <3> SUFFICES ASSUME NEW j \in DOMAIN s, j # k PROVE \E i \in DOMAIN u : u[i] = s[j]
      OBVIOUS
    <3>1. CASE j < k
      BY <1>2, <1>5, <1>6, <3>1
    <3>2. CASE j > k
      <4>1. j - 1 \in 1 .. Len(s) - 1 /\ ~(j - 1 < k) /\ (j - 1) + 1 = j
        BY <1>2, <3>2
      <4> QED BY <1>5, <1>6, <4>1
    <3> QED BY <1>2, <3>1, <3>2
  <2>4. ToSet(u) = ToSet(s) \ {e}
    <3>1. ToSet(u) \subseteq ToSet(s) \ {e}
      BY <2>1, <2>2 DEF ToSet
    <3>2. ToSet(s) \ {e} \subseteq ToSet(u)
      BY <1>1, <2>3 DEF ToSet
    <3> QED BY <3>1, <3>2
  <2>5. ASSUME NEW i \in DOMAIN u, NEW j \in DOMAIN u, u[i] = u[j] PROVE i = j
    <3>1. (IF i < k THEN i ELSE i + 1) = (IF j < k THEN j ELSE j + 1)
      BY <2>2, <2>5 DEF IsInjective
    <3> QED BY <3>1, <1>2, <1>5
  <2> QED BY <2>4, <2>5 DEF IsInjective
<1> QED BY <1>2, <1>5, <1>7, <1>8

-----------------------------------------------------------------------------
(* The calls that stand for a set or for a list of entries.                *)

LEMMA EachOfSet ==
    ASSUME NEW op, NEW S, IsFiniteSet(S), NEW X, \A e \in S : Do(op, e) \in X
    PROVE  /\ Each(op, S) \in Seq(X)
           /\ \A i \in DOMAIN Each(op, S) : Each(op, S)[i].op = op
           /\ OfAll(Each(op, S), op) = S
           /\ Once(Each(op, S), op)
<1> DEFINE n == Cardinality(S)
           f == SetToSeq(S)
<1>1. n \in Nat /\ ExistsBijection(1 .. n, S)
  BY FS_CardinalityType
<1>2. \E g \in [1 .. n -> S] : IsInjective(g)
  BY <1>1 DEF ExistsBijection, Bijection, Injection
<1>3. f \in [1 .. n -> S] /\ IsInjective(f)
  BY <1>2 DEF SetToSeq
<1>4. IsFiniteSet(1 .. n) /\ Cardinality(1 .. n) = n
  BY <1>1, FS_Interval
<1>5. f \in Surjection(1 .. n, S)
  <2>1. f \in Injection(1 .. n, S)
    BY <1>3 DEF Injection
  <2> QED BY <2>1, <1>4, FS_Injection
<1>6. \A e \in S : \E i \in 1 .. n : f[i] = e
  BY <1>5 DEF Surjection
<1> DEFINE u == Each(op, S)
<1>7. u = [i \in 1 .. n |-> Do(op, f[i])]
  BY DEF Each
<1> HIDE DEF n, f, u
<1>8. /\ DOMAIN u = 1 .. n
      /\ \A i \in 1 .. n : u[i] = Do(op, f[i]) /\ u[i].op = op /\ u[i].of = f[i] /\ u[i] \in X
  BY <1>3, <1>7 DEF Do
<1>9. u \in Seq(X)
  BY <1>1, <1>7, <1>8
<1>10. OfAll(u, op) = S
  <2>1. OfAll(u, op) \subseteq S
    BY <1>3, <1>8 DEF OfAll
  <2>2. S \subseteq OfAll(u, op)
    BY <1>6, <1>8 DEF OfAll
  <2> QED BY <2>1, <2>2
<1>11. Once(u, op)
  BY <1>3, <1>8 DEF Once, IsInjective
<1> QED BY <1>8, <1>9, <1>10, <1>11 DEF u

LEMMA CancelsOfList ==
    ASSUME NEW X, NEW s \in Seq(X)
    PROVE  LET u == [i \in DOMAIN s |-> Do("cancel", s[i])]
           IN  /\ u \in Seq([op : {"cancel"}, of : X]) /\ Len(u) = Len(s)
               /\ \A i \in DOMAIN u : u[i].op = "cancel"
               /\ OfAll(u, "cancel") = ToSet(s)
               /\ IsInjective(s) => Once(u, "cancel")
<1> DEFINE u == [i \in DOMAIN s |-> Do("cancel", s[i])]
<1>1. DOMAIN s = 1 .. Len(s) /\ Len(s) \in Nat /\ \A i \in DOMAIN s : s[i] \in X
  BY LenProperties
<1>2. \A i \in DOMAIN s : u[i] \in [op : {"cancel"}, of : X] /\ u[i].op = "cancel" /\ u[i].of = s[i]
  BY <1>1 DEF Do
<1>3. u \in Seq([op : {"cancel"}, of : X]) /\ Len(u) = Len(s) /\ DOMAIN u = DOMAIN s
  BY <1>1, <1>2
<1> HIDE DEF u
<1>4. OfAll(u, "cancel") = ToSet(s)
  BY <1>2, <1>3 DEF OfAll, ToSet
<1>5. IsInjective(s) => Once(u, "cancel")
  BY <1>2, <1>3 DEF Once, IsInjective
<1>6. /\ u \in Seq([op : {"cancel"}, of : X]) /\ Len(u) = Len(s)
      /\ \A i \in DOMAIN u : u[i].op = "cancel"
      /\ OfAll(u, "cancel") = ToSet(s)
      /\ IsInjective(s) => Once(u, "cancel")
  BY <1>2, <1>3, <1>4, <1>5
<1> QED BY <1>6 DEF u

(* What a call that does not appear in a list is said of.                  *)
LEMMA OfAllOther ==
    ASSUME NEW s, NEW op, \A i \in DOMAIN s : s[i].op # op
    PROVE  OfAll(s, op) = {} /\ Once(s, op)
  BY DEF OfAll, Once

(* The head of a list of calls is replaced by those it leads to.           *)
LEMMA Replaced ==
    ASSUME NEW X, NEW st \in Seq(X), st # <<>>, NEW s \in Seq(X), NEW op
    PROVE  /\ s \o Tail(st) \in Seq(X)
           /\ OfAll(s \o Tail(st), op) = OfAll(s, op) \cup OfAll(Tail(st), op)
<1> DEFINE t == Tail(st)
<1>1. t \in Seq(X)
  BY HeadTailProperties
<1> HIDE DEF t
<1>2. s \o t \in Seq(X) /\ OfAll(s \o t, op) = OfAll(s, op) \cup OfAll(t, op)
  BY <1>1, OfAllConcat
<1> QED BY <1>2 DEF t

LEMMA ReplacedOnce ==
    ASSUME NEW X, NEW st \in Seq(X), st # <<>>, NEW s \in Seq(X), NEW op,
           Once(st, op), Once(s, op), OfAll(s, op) \cap OfAll(Tail(st), op) = {}
    PROVE  Once(s \o Tail(st), op)
<1> DEFINE t == Tail(st)
<1>1. t \in Seq(X)
  BY HeadTailProperties
<1>2. Once(t, op)
  BY OnceHead
<1> HIDE DEF t
<1>3. Once(s, op) /\ OfAll(s, op) \cap OfAll(t, op) = {}
  BY DEF t
<1>4. Once(s \o t, op)
  BY <1>1, <1>2, <1>3, OfAllConcat
<1> QED BY <1>4 DEF t

-----------------------------------------------------------------------------
(* The shape of the call stack.                                            *)

Frames == [op : {"get", "fail", "cancel", "finished"}, of : Entries]
            \cup [op : {"refresh"}, of : Dirs]
            \cup [op : {"failRoot", "delete"}, of : {Root}]
            \cup [op : {"process"}, of : 0 .. MaxToProcess]
            \cup [op : {"pop"}, of : 1 .. MaxToProcess]

Jobs == [op : {"refresh"}, of : Dirs] \cup [op : {"extract"}, of : Tarballs]

Inner == {"get", "refresh", "fail", "failRoot"}
Ending == {"cancel", "finished"}

(* process() and the destructor are the outermost of what runs; a task is  *)
(* taken out when all that it does is done; requests are cancelled by the  *)
(* destructor or by a sync that is abandoned, otherwise to finish one is   *)
(* the last thing a call does.                                             *)
Shape(s, verdict) ==
    \A i \in DOMAIN s :
        /\ s[i].op \in {"process", "delete"} => i = Len(s)
        /\ s[i].op = "pop" => i = Len(s) - 1 /\ s[Len(s)].op = "process"
        /\ s[Len(s)].op = "process" /\ i = Len(s) - 1 => s[i].op = "pop"
        /\ s[Len(s)].op = "delete" => s[i].op \in Ending \cup {"delete"}
        /\ verdict = "ok" /\ s[Len(s)].op # "delete" =>
              s[i].op # "cancel" /\ (s[i].op = "finished" => i = Len(s))

LEMMA FrameTypes ==
    ASSUME NEW f \in Frames
    PROVE  /\ f.op \in Ops
           /\ f.op \in {"get", "fail", "cancel", "finished"} => f.of \in Entries
           /\ f.op = "refresh" => f.of \in Dirs
           /\ f.op \in {"failRoot", "delete"} => f.of = Root
           /\ f.op = "process" => f.of \in 0 .. MaxToProcess
           /\ f.op = "pop" => f.of \in 1 .. MaxToProcess
  BY DEF Frames, Ops

LEMMA FrameOf ==
    /\ \A e \in Entries, op \in {"get", "fail", "cancel", "finished"} : Do(op, e) \in Frames
    /\ \A d \in Dirs : Do("refresh", d) \in Frames
    /\ Do("failRoot", Root) \in Frames /\ Do("delete", Root) \in Frames
    /\ \A n \in 0 .. MaxToProcess : Do("process", n) \in Frames
    /\ \A n \in 1 .. MaxToProcess : Do("pop", n) \in Frames
  BY DEF Frames, Do

LEMMA OfAllTypes ==
    ASSUME NEW s \in Seq(Frames)
    PROVE  /\ OfAll(s, "get") \subseteq Entries /\ OfAll(s, "finished") \subseteq Entries
           /\ OfAll(s, "cancel") \subseteq Entries /\ OfAll(s, "fail") \subseteq Entries
           /\ OfAll(s, "refresh") \subseteq Dirs /\ OfAll(s, "failRoot") \subseteq {Root}
<1>1. \A i \in DOMAIN s : s[i] \in Frames
  BY LenProperties
<1> QED BY <1>1, FrameTypes DEF OfAll

(* One of the inner calls is replaced by what it leads to.                 *)
LEMMA ShapeReplaced ==
    ASSUME NEW X, NEW st \in Seq(X), st # <<>>, NEW verdict, Shape(st, verdict),
           NEW s \in Seq(X), NEW after,
           Head(st).op \in Inner \cup Ending,
           \A i \in DOMAIN s : s[i].op \in Inner \cup Ending,
           Head(st).op \in Ending => \A i \in DOMAIN s : s[i].op \in Ending,
           after = "ok" =>
             /\ verdict = "ok"
             /\ \/ st[Len(st)].op = "delete" /\ Len(st) > 1
                \/ \A i \in DOMAIN s : s[i].op \in Inner
    PROVE  Shape(s \o Tail(st), after)
<1> DEFINE t == Tail(st)
           u == s \o t
<1>1. /\ t \in Seq(X) /\ Len(t) = Len(st) - 1 /\ Len(st) \in Nat /\ Len(st) > 0
      /\ DOMAIN t = 1 .. Len(t) /\ DOMAIN st = 1 .. Len(st)
      /\ \A i \in DOMAIN t : i + 1 \in DOMAIN st /\ t[i] = st[i + 1]
  BY HeadTailProperties, LenProperties, EmptySeq
<1>2. st[1] = Head(st)
  BY <1>1
<1> HIDE DEF t
<1>3. /\ Len(u) = Len(s) + Len(t) /\ DOMAIN u = 1 .. Len(s) + Len(t)
      /\ DOMAIN s = 1 .. Len(s) /\ Len(s) \in Nat
      /\ \A i \in DOMAIN u : u[i] = IF i <= Len(s) THEN s[i] ELSE t[i - Len(s)]
  <2>1. /\ u \in Seq(X) /\ Len(u) = Len(s) + Len(t)
        /\ \A i \in 1 .. Len(s) + Len(t) : u[i] = IF i <= Len(s) THEN s[i] ELSE t[i - Len(s)]
    BY <1>1, ConcatProperties
  <2>2. DOMAIN u = 1 .. Len(u) /\ DOMAIN s = 1 .. Len(s) /\ Len(s) \in Nat
    BY <2>1, LenProperties
  <2> QED BY <2>1, <2>2
<1> HIDE DEF u
<1>4. SUFFICES ASSUME NEW i \in DOMAIN u
               PROVE  /\ u[i].op \in {"process", "delete"} => i = Len(u)
                      /\ u[i].op = "pop" => i = Len(u) - 1 /\ u[Len(u)].op = "process"
                      /\ u[Len(u)].op = "process" /\ i = Len(u) - 1 => u[i].op = "pop"
                      /\ u[Len(u)].op = "delete" => u[i].op \in Ending \cup {"delete"}
                      /\ after = "ok" /\ u[Len(u)].op # "delete" =>
                            u[i].op # "cancel" /\ (u[i].op = "finished" => i = Len(u))
  BY DEF Shape, u, t
<1>5. CASE Len(st) > 1
  <2>1. u[Len(u)] = st[Len(st)] /\ Len(st) \in DOMAIN st
    BY <1>1, <1>3, <1>5
  <2>2. CASE i > Len(s)
    <3>0. i \in Int /\ i <= Len(s) + Len(t) /\ i - Len(s) \in DOMAIN t /\ u[i] = t[i - Len(s)]
      BY <1>1, <1>3, <2>2
    <3>1. PICK j \in DOMAIN st : u[i] = st[j] /\ j = (i - Len(s)) + 1
      BY <1>1, <3>0
    <3>a. /\ Len(u) = Len(s) + Len(st) - 1 /\ Len(s) \in Nat /\ Len(st) \in Nat
          /\ i \in Int /\ j = (i - Len(s)) + 1
      BY <1>1, <1>3, <3>0, <3>1
    <3>2. i = Len(u) <=> j = Len(st)
      BY <3>a
    <3>3. i = Len(u) - 1 <=> j = Len(st) - 1
      <4>1. ASSUME i = Len(u) - 1 PROVE j = Len(st) - 1
        BY <3>a, <4>1
      <4>2. ASSUME j = Len(st) - 1 PROVE i = Len(u) - 1
        BY <3>a, <4>2
      <4> QED BY <4>1, <4>2
    <3> QED BY <2>1, <3>1, <3>2, <3>3 DEF Shape
  <2>3. CASE i <= Len(s)
    <3>1. i \in DOMAIN s /\ u[i] = s[i] /\ s[i].op \in Inner \cup Ending
      BY <1>3, <2>3
    <3>2. st[Len(st)].op # "process" \/ Len(st) > 2
      BY <1>1, <1>2, <1>5 DEF Shape, Inner, Ending
    <3>3. u[Len(u)].op = "process" => i # Len(u) - 1
      BY <1>1, <1>3, <2>1, <2>3, <3>2
    <3>4. u[Len(u)].op = "delete" => u[i].op \in Ending
      BY <1>1, <1>2, <2>1, <3>1 DEF Shape, Inner, Ending
    <3>5. after = "ok" /\ u[Len(u)].op # "delete" => s[i].op \in Inner
      BY <2>1, <3>1
    <3> QED BY <3>1, <3>3, <3>4, <3>5 DEF Inner, Ending
  <2> QED BY <1>3, <2>2, <2>3
<1>6. CASE Len(st) = 1
  <2>1. i \in DOMAIN s /\ u[i] = s[i] /\ Len(u) \in DOMAIN s /\ u[Len(u)] = s[Len(u)]
    BY <1>1, <1>3, <1>6
  <2>2. u[i].op \in Inner \cup Ending /\ u[Len(u)].op \in Inner \cup Ending
    BY <2>1
  <2>3. after = "ok" => u[i].op \in Inner
    BY <2>1, <1>6
  <2> QED BY <2>2, <2>3 DEF Inner, Ending
<1> QED BY <1>1, <1>5, <1>6

(* What the outermost calls leave behind.                                  *)
LEMMA ShapeHead ==
    ASSUME NEW X, NEW st \in Seq(X), st # <<>>, NEW verdict, Shape(st, verdict)
    PROVE  /\ Head(st).op \in {"process", "delete"} => Tail(st) = <<>>
           /\ Head(st).op = "pop" =>
                Len(Tail(st)) = 1 /\ \A i \in DOMAIN Tail(st) : Tail(st)[i].op = "process"
           /\ Head(st).op # "delete" /\ (\E i \in DOMAIN st : st[i].op = "delete") =>
                Len(st) > 1 /\ st[Len(st)].op = "delete"
           /\ verdict = "ok" /\ (\A i \in DOMAIN st : st[i].op # "delete") =>
                /\ \A i \in DOMAIN st : st[i].op # "cancel"
                /\ Head(st).op = "finished" => Tail(st) = <<>>
<1> DEFINE t == Tail(st)
<1>1. /\ Len(t) = Len(st) - 1 /\ Len(st) \in Nat /\ Len(st) > 0 /\ t \in Seq(X)
      /\ DOMAIN st = 1 .. Len(st) /\ st[1] = Head(st) /\ DOMAIN t = 1 .. Len(t)
      /\ \A i \in DOMAIN t : t[i] = st[i + 1]
  BY HeadTailProperties, LenProperties, EmptySeq
<1> HIDE DEF t
<1>2. ASSUME 1 = Len(st) PROVE t = <<>>
  BY <1>1, <1>2, EmptySeq
<1>3. 1 \in DOMAIN st /\ Len(st) \in DOMAIN st
  BY <1>1
<1>4. Head(st).op \in {"process", "delete"} => t = <<>>
  BY <1>1, <1>2, <1>3 DEF Shape
<1>5. Head(st).op = "pop" => Len(t) = 1 /\ \A i \in DOMAIN t : t[i].op = "process"
  <2> SUFFICES ASSUME Head(st).op = "pop"
               PROVE  Len(t) = 1 /\ \A i \in DOMAIN t : t[i].op = "process"
    OBVIOUS
  <2>1. 1 = Len(st) - 1 /\ st[Len(st)].op = "process"
    BY <1>1, <1>3 DEF Shape
  <2>2. Len(st) = 2
    BY <2>1, <1>1
  <2>3. \A i \in 1 .. 1 : i = 1 /\ i + 1 = 2
    OBVIOUS
  <2>4. Len(t) = 1 /\ DOMAIN t = 1 .. 1
    BY <1>1, <2>2
  <2>5. \A i \in DOMAIN t : t[i] = st[2]
    BY <1>1, <2>3, <2>4
  <2> QED BY <2>1, <2>2, <2>4, <2>5
<1>6. Head(st).op # "delete" /\ (\E i \in DOMAIN st : st[i].op = "delete") =>
        Len(st) > 1 /\ st[Len(st)].op = "delete"
  BY <1>1, <1>3 DEF Shape
<1>7. verdict = "ok" /\ (\A i \in DOMAIN st : st[i].op # "delete") =>
        /\ \A i \in DOMAIN st : st[i].op # "cancel"
        /\ Head(st).op = "finished" => t = <<>>
  BY <1>1, <1>2, <1>3 DEF Shape
<1> QED BY <1>4, <1>5, <1>6, <1>7 DEF t

-----------------------------------------------------------------------------
(* Where the entries of a sync are.                                        *)

(* What is still to be done for: entries to be asked for, directories to   *)
(* be looked into, directories that wait for a task, requests that wait in *)
(* the queue and those that are under way ...                              *)
Gets == OfAll(stack, "get")
Refreshes == OfAll(stack, "refresh")
InHand == {d \in Dirs : OfAll(stack, "pop") # {} /\ Head(tasks) = Do("refresh", d)}
TaskDirs == OfAll(tasks, "refresh") \ InHand
Queue == ToSet(queued)

(* ... and what leaves a trace when it has been done: a request that has   *)
(* been answered and is still listed, a task that is running.              *)
Dead == (ToSet(active) \ requests) \cup InHand

Disjoint(G, R, T, Q, U) ==
    /\ G \cap R = {} /\ G \cap T = {} /\ G \cap Q = {} /\ G \cap U = {}
    /\ R \cap T = {} /\ R \cap Q = {} /\ R \cap U = {}
    /\ T \cap Q = {} /\ T \cap U = {} /\ Q \cap U = {}

(* An entry is in one place at a time, and while anything is to be done    *)
(* for it nothing is for what is inside it.  Of what has been done, only   *)
(* what is being looked into has anything left to do inside it.            *)
Apart(G, R, T, Q, U, D) ==
    LET live == G \cup R \cup T \cup Q \cup U
    IN  /\ live \subseteq Entries /\ D \subseteq Entries
        /\ Disjoint(G, R, T, Q, U)
        /\ \A e, f \in live : e \in Above[f] => e = f
        /\ \A e \in live, f \in D : e \in Above[f] => e = f /\ e \in R

(* Entries move from one place to another, or away.                        *)
LEMMA ApartMove ==
    ASSUME NEW G, NEW R, NEW T, NEW Q, NEW U, NEW D, Apart(G, R, T, Q, U, D),
           NEW G2, NEW R2, NEW T2, NEW Q2, NEW U2, NEW D2, Disjoint(G2, R2, T2, Q2, U2),
           G2 \cup R2 \cup T2 \cup Q2 \cup U2 \subseteq G \cup R \cup T \cup Q \cup U,
           D2 \subseteq D \cup (G \cup R \cup T \cup Q \cup U),
           D2 \cap (G2 \cup R2 \cup T2 \cup Q2 \cup U2) \subseteq R2
    PROVE  Apart(G2, R2, T2, Q2, U2, D2)
<1> DEFINE live == G \cup R \cup T \cup Q \cup U
           live2 == G2 \cup R2 \cup T2 \cup Q2 \cup U2
<1>1. /\ live \subseteq Entries /\ D \subseteq Entries
      /\ \A e, f \in live : e \in Above[f] => e = f
      /\ \A e \in live, f \in D : e \in Above[f] => e = f
  BY DEF Apart
<1>2. live2 \subseteq live /\ D2 \subseteq D \cup live /\ D2 \cap live2 \subseteq R2
  OBVIOUS
<1>3. live2 \subseteq Entries /\ D2 \subseteq Entries
  BY <1>1, <1>2
<1>4. \A e, f \in live2 : e \in Above[f] => e = f
  BY <1>1, <1>2
<1>5. \A e \in live2, f \in D2 : e \in Above[f] => e = f /\ e \in R2
  BY <1>1, <1>2
<1> QED BY <1>3, <1>4, <1>5 DEF Apart

(* Nothing is to be done inside a directory that is to be looked into.     *)
LEMMA ApartInside ==
    ASSUME NEW G, NEW R, NEW T, NEW Q, NEW U, NEW D, Apart(G, R, T, Q, U, D), NEW d, d \in R
    PROVE  Inside(d) \cap (G \cup R \cup T \cup Q \cup U \cup D) = {}
<1> DEFINE live == G \cup R \cup T \cup Q \cup U
<1>1. /\ live \subseteq Entries /\ d \in live
      /\ \A e, f \in live : e \in Above[f] => e = f
      /\ \A e \in live, f \in D : e \in Above[f] => e = f
  BY DEF Apart
<1>2. \A c \in Inside(d) : c # d /\ d \in Above[c]
  BY <1>1, ChildrenApart
<1> QED BY <1>1, <1>2

(* A directory is looked into: its children take its place.                *)
LEMMA ApartChildren ==
    ASSUME NEW G, NEW R, NEW T, NEW Q, NEW U, NEW D, Apart(G, R, T, Q, U, D),
           NEW d, d \in R, NEW C1, C1 \subseteq Inside(d), NEW C2, C2 \subseteq Inside(d),
           C1 \cap C2 = {}
    PROVE  Apart(G \cup C1, R \ {d}, T \cup C2, Q, U, D)
<1> DEFINE live == G \cup R \cup T \cup Q \cup U
           live2 == (G \cup C1) \cup (R \ {d}) \cup (T \cup C2) \cup Q \cup U
<1>1. /\ live \subseteq Entries /\ D \subseteq Entries
      /\ \A e, f \in live : e \in Above[f] => e = f
      /\ \A e \in live, f \in D : e \in Above[f] => e = f /\ e \in R
  BY DEF Apart
<1>2. d \in live /\ d \in Entries /\ Inside(d) \subseteq Entries
  BY <1>1 DEF Inside
<1>3. \A c \in Inside(d) : /\ c # d /\ c \notin Above[d] /\ d \in Above[c]
                           /\ \A b \in Inside(d) : b \in Above[c] => b = c
  BY <1>2, ChildrenApart
<1>4. Inside(d) \cap live = {} /\ Inside(d) \cap D = {}
  BY ApartInside
<1>5. Disjoint(G \cup C1, R \ {d}, T \cup C2, Q, U)
  BY <1>4 DEF Apart, Disjoint
<1>6. live2 \subseteq (live \ {d}) \cup Inside(d) /\ live2 \subseteq Entries
  <2>1. d \notin G /\ d \notin T /\ d \notin Q /\ d \notin U
    BY DEF Apart, Disjoint
  <2> QED BY <1>1, <1>2, <2>1
<1>7. \A c \in Inside(d) : Above[c] = {c} \cup Above[d]
  BY AboveChild DEF Inside
<1>8. \A c \in Inside(d), f \in live \cup D : c \notin Above[f]
  <2>1. ASSUME NEW c \in Inside(d), NEW f \in live \cup D, c \in Above[f] PROVE FALSE
    <3>1. d \in Above[f]
      BY <1>1, <1>3, <2>1, AboveTransitive
    <3>2. d = f
      BY <1>1, <1>2, <2>1, <3>1
    <3> QED BY <1>3, <2>1, <3>2
  <2> QED BY <2>1
<1>9. \A e, f \in live2 : e \in Above[f] => e = f
  <2>1. SUFFICES ASSUME NEW e \in live2, NEW f \in live2, e \in Above[f] PROVE e = f
    OBVIOUS
  <2>2. CASE e \in live \ {d} /\ f \in live \ {d}
    BY <1>1, <2>1, <2>2
  <2>3. CASE e \in live \ {d} /\ f \in Inside(d)
    BY <1>1, <1>2, <1>7, <2>1, <2>3
  <2>4. CASE e \in Inside(d) /\ f \in live \ {d}
    BY <1>8, <2>1, <2>4
  <2>5. CASE e \in Inside(d) /\ f \in Inside(d)
    BY <1>3, <2>1, <2>5
  <2> QED BY <1>6, <2>2, <2>3, <2>4, <2>5
<1>10. \A e \in live2, f \in D : e \in Above[f] => e = f /\ e \in R \ {d}
  BY <1>1, <1>6, <1>8
<1> QED BY <1>1, <1>5, <1>6, <1>9, <1>10 DEF Apart

-----------------------------------------------------------------------------
(* The inductive invariant.                                                *)

Finishing == OfAll(stack, "finished")

Typed ==
    /\ TypeOK
    /\ stack \in Seq(Frames) /\ Shape(stack, status)
    /\ OfAll(stack, "pop") # {} => tasks # <<>>
    /\ stack # <<>> => alive

(* Nothing is listed twice; a request that is being finished is listed and *)
(* has been answered.                                                      *)
Lists ==
    /\ Once(stack, "get") /\ Once(stack, "refresh") /\ Once(stack, "finished")
    /\ Once(tasks, "refresh")
    /\ IsInjective(active) /\ IsInjective(queued)
    /\ requests \subseteq ToSet(active)
    /\ Finishing \subseteq ToSet(active) \ requests

Order == Apart(Gets, Refreshes, TaskDirs, Queue, requests, Dead)

(* A request is under way or being finished, but for that of an exception. *)
Accounts ==
    /\ ~threw => ToSet(active) \subseteq requests \cup Finishing
    /\ threw => \E e \in ToSet(active) : e \notin requests \cup Finishing

(* When no sync is going on and none has failed nothing is left of any.    *)
Quiet ==
    status = "ok" /\ ~isUpdating =>
        /\ active = <<>> /\ queued = <<>> /\ tasks = <<>>
        /\ \A i \in DOMAIN stack : stack[i].op \in {"process", "delete"}

(* The destructor cancels each request once and before it is finished.     *)
Cancels ==
    status = "ok" =>
        Once(stack, "cancel") /\ OfAll(stack, "cancel") \subseteq ToSet(active) \ Finishing

(* What is asked for, what anything is still to be done for, what has      *)
(* failed.                                                                 *)
Asked == Gets \cup Queue \cup requests
Live == Asked \cup Refreshes \cup TaskDirs
Failed == DOMAIN failures \cup OfAll(stack, "fail") \cup OfAll(stack, "failRoot")

Tree == \A e \in Entries \ {Root} : disk[e] # "none" => disk[Parent[e]] # "none"

(* What is asked for is in the index of its directory, which is the new    *)
(* one when no directory is skipped.                                       *)
Grounds ==
    /\ \A c \in Asked \ {Root} : c \in Listed(disk[Parent[c]])
    /\ ~RecheckTimeout =>
          /\ \A d \in Refreshes \cup TaskDirs : disk[d] = "new"
          /\ \A c \in Asked \ {Root} : disk[Parent[c]] = "new"

(* A sync that nothing has taken apart.                                    *)
Unharmed == alive /\ status = "ok" /\ isUpdating /\ ~threw /\ OfAll(stack, "delete") = {}

Excused(d) == \E a \in Above[d] : a \in Live \/ a \in Failed

Settled(d) ==
    /\ Orphans(d) = {}
    /\ \A c \in Children(d) : \/ Current(c, disk[d]) \/ (RecheckTimeout /\ c \in recent)
                              \/ c \in Asked \/ c \in Failed

(* In such a sync a directory is in step with its index, but for what is   *)
(* still to be done or has failed, for it, for one it is in or for a child *)
(* that has been asked for.                                                *)
Clean == Unharmed => \A d \in Dirs : disk[d] # "none" => Excused(d) \/ Settled(d)

Content == Tree /\ Grounds /\ Clean

IInv ==
    /\ Typed /\ Lists /\ Order /\ Accounts /\ Quiet /\ Cancels /\ Content
    /\ QueueIsThrottled /\ TasksHaveTheirDirectory

-----------------------------------------------------------------------------
(* What a step does to the stack.                                          *)

LEMMA FramesTyped ==
    ASSUME NEW s \in Seq(Frames) PROVE s \in Seq([op : Ops, of : Entries \cup 0 .. MaxToProcess])
<1>1. Frames \subseteq [op : Ops, of : Entries \cup 0 .. MaxToProcess]
  <2>1. Root \in Entries /\ Dirs \subseteq Entries /\ 1 .. MaxToProcess \subseteq 0 .. MaxToProcess
    BY RepositoryAssumption DEF Entries
  <2> QED BY <2>1 DEF Frames, Ops
<1> QED BY <1>1, SeqMonotonic

LEMMA Continues ==
    ASSUME stack \in Seq(Frames), stack # <<>>, NEW s \in Seq(Frames), Becomes(s), NEW op
    PROVE  /\ stack' \in Seq(Frames)
           /\ OfAll(stack', op) = OfAll(s, op) \cup OfAll(Tail(stack), op)
  BY Replaced DEF Becomes

LEMMA Kept ==
    ASSUME stack \in Seq(Frames), stack # <<>>, NEW s \in Seq(Frames), Becomes(s), NEW op,
           Head(stack).op # op, \A i \in DOMAIN s : s[i].op # op
    PROVE  /\ OfAll(stack', op) = OfAll(stack, op)
           /\ Once(stack, op) => Once(stack', op)
<1>1. OfAll(s, op) = {} /\ Once(s, op)
  BY OfAllOther
<1>2. OfAll(stack', op) = OfAll(s, op) \cup OfAll(Tail(stack), op)
  BY Continues
<1>3. OfAll(stack, op) = OfAll(Tail(stack), op)
  BY OfAllHead
<1>4. Once(stack, op) => Once(s \o Tail(stack), op)
  BY <1>1, ReplacedOnce
<1>5. Once(stack, op) => Once(stack', op)
  BY <1>4 DEF Becomes
<1> QED BY <1>1, <1>2, <1>3, <1>5

LEMMA Dropped ==
    ASSUME stack \in Seq(Frames), stack # <<>>, NEW s \in Seq(Frames), Becomes(s), NEW op,
           Head(stack).op = op, \A i \in DOMAIN s : s[i].op # op, Once(stack, op)
    PROVE  /\ Of \in OfAll(stack, op)
           /\ OfAll(stack', op) = OfAll(stack, op) \ {Of}
           /\ Once(stack', op)
<1>1. OfAll(s, op) = {} /\ Once(s, op)
  BY OfAllOther
<1>2. OfAll(stack', op) = OfAll(s, op) \cup OfAll(Tail(stack), op)
  BY Continues
<1>3. OfAll(stack, op) = {Of} \cup OfAll(Tail(stack), op)
  BY OfAllHead DEF Of
<1>4. Of \notin OfAll(Tail(stack), op)
  BY OnceHead DEF Of
<1>5. Once(s \o Tail(stack), op)
  BY <1>1, ReplacedOnce
<1>6. Once(stack', op)
  BY <1>5 DEF Becomes
<1> QED BY <1>1, <1>2, <1>3, <1>4, <1>6

LEMMA Gained ==
    ASSUME stack \in Seq(Frames), stack # <<>>, NEW s \in Seq(Frames), Becomes(s), NEW op,
           Head(stack).op # op, Once(s, op), OfAll(s, op) \cap OfAll(stack, op) = {},
           Once(stack, op)
    PROVE  /\ OfAll(stack', op) = OfAll(stack, op) \cup OfAll(s, op)
           /\ Once(stack', op)
<1>1. OfAll(stack', op) = OfAll(s, op) \cup OfAll(Tail(stack), op)
  BY Continues
<1>2. OfAll(stack, op) = OfAll(Tail(stack), op)
  BY OfAllHead
<1>3. Once(s \o Tail(stack), op)
  BY <1>2, ReplacedOnce
<1>4. Once(stack', op)
  BY <1>3 DEF Becomes
<1> QED BY <1>1, <1>2, <1>4

(* The destructor stays what it is, as long as it is not what ends.        *)
LEMMA ContinuesShape ==
    ASSUME Typed, stack # <<>>, NEW s \in Seq(Frames), Becomes(s),
           Head(stack).op \in Inner \cup Ending,
           \A i \in DOMAIN s : s[i].op \in Inner \cup Ending,
           Head(stack).op \in Ending => \A i \in DOMAIN s : s[i].op \in Ending,
           status' = "ok" =>
             /\ status = "ok"
             /\ BeingDeleted \/ \A i \in DOMAIN s : s[i].op \in Inner
    PROVE  /\ stack' \in Seq(Frames) /\ Shape(stack', status')
           /\ OfAll(stack', "pop") = OfAll(stack, "pop")
<1>1. stack \in Seq(Frames) /\ Shape(stack, status)
  BY DEF Typed
<1>2. Head(stack).op # "pop" /\ \A i \in DOMAIN s : s[i].op # "pop"
  BY DEF Inner, Ending
<1>3. BeingDeleted => stack[Len(stack)].op = "delete" /\ Len(stack) > 1
  <2>1. Head(stack).op # "delete"
    BY DEF Inner, Ending
  <2> QED BY <1>1, <2>1, ShapeHead DEF BeingDeleted
<1>4. Shape(s \o Tail(stack), status')
  BY <1>1, <1>3, ShapeReplaced
<1>5. Shape(stack', status')
  BY <1>4 DEF Becomes
<1> QED BY <1>1, <1>2, <1>5, Kept, Continues

(* What the invariant says of the places of entries.                       *)
LEMMA LiveAndDead ==
    ASSUME IInv
    PROVE  /\ Apart(Gets, Refreshes, TaskDirs, Queue, requests, Dead)
           /\ Disjoint(Gets, Refreshes, TaskDirs, Queue, requests)
           /\ Gets \cup Refreshes \cup TaskDirs \cup Queue \cup requests \subseteq Entries
           /\ Dead \cap (Gets \cup Refreshes \cup TaskDirs \cup Queue \cup requests) \subseteq Refreshes
<1>1. Apart(Gets, Refreshes, TaskDirs, Queue, requests, Dead)
  BY DEF IInv, Order
<1> QED BY <1>1, AboveSelf DEF Apart

(* An inner call is only made while a sync goes on or after one has failed.*)
LEMMA Busy ==
    ASSUME IInv, stack # <<>>, Head(stack).op \notin {"process", "delete"}
    PROVE  ~(status = "ok" /\ ~isUpdating)
<1>1. stack \in Seq(Frames)
  BY DEF IInv, Typed
<1>2. \E i \in DOMAIN stack : stack[i].op \notin {"process", "delete"}
  BY <1>1
<1> QED BY <1>2 DEF IInv, Quiet

-----------------------------------------------------------------------------
(* What a step does to the content of the disk.                            *)

LEMMA LiveApart ==
    ASSUME IInv
    PROVE  /\ Live \subseteq Entries /\ \A e, f \in Live : e \in Above[f] => e = f
           /\ requests \subseteq Asked /\ Asked \subseteq Live
<1>1. Apart(Gets, Refreshes, TaskDirs, Queue, requests, Dead)
  BY LiveAndDead
<1>2. Live = Gets \cup Refreshes \cup TaskDirs \cup Queue \cup requests
  BY DEF Live, Asked
<1>3. requests \subseteq Asked /\ Asked \subseteq Live
  BY DEF Live, Asked
<1> QED BY <1>1, <1>2, <1>3 DEF Apart

(* A step inside a call harms a sync or leaves it as it is.                *)
LEMMA UnharmedBefore ==
    ASSUME stack \in Seq(Frames), stack # <<>>, NEW s \in Seq(Frames), Becomes(s),
           Head(stack).op # "delete", \A i \in DOMAIN s : s[i].op # "delete",
           alive' = alive, threw' = threw, status' = "ok" => status = "ok", isUpdating' => isUpdating
    PROVE  Unharmed' => Unharmed
<1>1. OfAll(stack', "delete") = OfAll(stack, "delete")
  BY Kept
<1> QED BY <1>1 DEF Unharmed

(* A failure is forgotten only when it is counted.                         *)
LEMMA FailedStays ==
    ASSUME stack \in Seq(Frames), stack # <<>>, NEW s \in Seq(Frames), Becomes(s),
           Head(stack).op # "fail", Head(stack).op # "failRoot", failures' = failures
    PROVE  /\ Failed \subseteq Failed'
           /\ OfAll(s, "fail") \subseteq Failed' /\ OfAll(s, "failRoot") \subseteq Failed'
<1>1. /\ OfAll(stack', "fail") = OfAll(s, "fail") \cup OfAll(Tail(stack), "fail")
      /\ OfAll(stack, "fail") = OfAll(Tail(stack), "fail")
  BY Continues, OfAllHead
<1>2. /\ OfAll(stack', "failRoot") = OfAll(s, "failRoot") \cup OfAll(Tail(stack), "failRoot")
      /\ OfAll(stack, "failRoot") = OfAll(Tail(stack), "failRoot")
  BY Continues, OfAllHead
<1> QED BY <1>1, <1>2 DEF Failed

(* Nothing on the disk changes; what was asked for and is not any more has *)
(* failed or is current.                                                   *)
LEMMA ContentStands ==
    ASSUME IInv, disk' = disk, Asked' \subseteq Asked,
           RecheckTimeout \/ Refreshes' \cup TaskDirs' \subseteq Refreshes \cup TaskDirs,
           Unharmed' => /\ Unharmed /\ recent \subseteq recent' /\ Failed \subseteq Failed'
                        /\ Live \subseteq Live'
                        /\ \A c \in Asked : c \in Asked' \/ (RecheckTimeout /\ c \in recent')
    PROVE  Content'
<1>1. Tree /\ Grounds /\ Clean
  BY DEF IInv, Content
<1>2. Tree'
  BY <1>1 DEF Tree
<1>3. Grounds'
  <2>1. \A c \in Asked' \ {Root} : c \in Asked \ {Root}
    OBVIOUS
  <2>2. \A c \in Asked' \ {Root} : c \in Listed(disk[Parent[c]])
    BY <1>1, <2>1 DEF Grounds
  <2>3. ASSUME ~RecheckTimeout PROVE \A d \in Refreshes' \cup TaskDirs' : disk[d] = "new"
    BY <1>1, <2>3 DEF Grounds
  <2>4. ASSUME ~RecheckTimeout PROVE \A c \in Asked' \ {Root} : disk[Parent[c]] = "new"
    BY <1>1, <2>1, <2>4 DEF Grounds
  <2> QED BY <2>2, <2>3, <2>4 DEF Grounds
<1>4. Clean'
  <2> SUFFICES ASSUME Unharmed', NEW d \in Dirs, disk[d] # "none" PROVE (Excused(d) \/ Settled(d))'
    BY DEF Clean
  <2>1. Excused(d) \/ Settled(d)
    BY <1>1 DEF Clean
  <2>2. CASE Excused(d)
    BY <2>2 DEF Excused
  <2>3. CASE Settled(d)
    <3>1. Orphans(d)' = Orphans(d) /\ Children(d)' = Children(d)
      BY DEF Orphans, Children
    <3>2. \A c \in Children(d) : \/ Current(c, disk[d])' \/ (RecheckTimeout /\ c \in recent')
                                 \/ c \in Asked' \/ c \in Failed'
      BY <2>3 DEF Settled, Current
    <3> QED BY <2>3, <3>1, <3>2 DEF Settled, Current
  <2> QED BY <2>1, <2>2, <2>3
<1> QED BY <1>2, <1>3, <1>4 DEF Content

(* A request ends: the entry is as its index wants it, or has failed.      *)
LEMMA ContentOfAnswer ==
    ASSUME IInv, NEW e \in requests, disk' \in [Entries -> Versions],
           \A x \in Entries \ {e} : disk'[x] = disk[x],
           disk'[e] = disk[e] \/ disk'[e] = "new" \/ e \in Files,
           Asked' \subseteq Asked \ {e},
           Refreshes' \cup TaskDirs' \subseteq Refreshes \cup TaskDirs \cup {e},
           e \in Refreshes' \cup TaskDirs' => disk'[e] = "new",
           Unharmed' => /\ Unharmed /\ recent \subseteq recent' /\ Failed \ {e} \subseteq Failed'
                        /\ Asked \ {e} \subseteq Asked' /\ Live \ {e} \subseteq Live'
                        /\ e \in Files \/ e \in Live' \/ e \in Failed'
                        /\ e = Root \/ e \in Failed' \/ disk'[e] = disk[Parent[e]]
                              \/ (RecheckTimeout /\ e \in recent')
    PROVE  Content'
<1>1. Tree /\ Grounds /\ Clean
  BY DEF IInv, Content
<1>2. /\ e \in Entries /\ e \in Live /\ e \in Asked
      /\ \A c \in Asked : c \in Live /\ c \in Entries
      /\ Root \notin Files /\ Files \cap Dirs = {}
  BY LiveApart, RepositoryAssumption
<1>3. \A x \in Entries \ {Root} : Parent[x] \in Dirs /\ Parent[x] \in Entries
  BY AboveChild
<1>4. e # Root => /\ e \in Listed(disk[Parent[e]]) /\ disk[Parent[e]] # "none"
                  /\ Parent[e] # e /\ disk'[Parent[e]] = disk[Parent[e]]
  <2> SUFFICES ASSUME e # Root
               PROVE  /\ e \in Listed(disk[Parent[e]]) /\ disk[Parent[e]] # "none"
                      /\ Parent[e] # e /\ disk'[Parent[e]] = disk[Parent[e]]
    OBVIOUS
  <2>1. e \in Listed(disk[Parent[e]])
    BY <1>1, <1>2 DEF Grounds
  <2>2. disk[Parent[e]] # "none"
    BY <2>1 DEF Listed
  <2>3. Parent[e] # e
    BY <1>2, <1>3, RepositoryAssumption, AboveSelf
  <2> QED BY <1>2, <1>3, <2>1, <2>2, <2>3
<1>5. Tree'
  <2> SUFFICES ASSUME NEW x \in Entries \ {Root}, disk'[x] # "none" PROVE disk'[Parent[x]] # "none"
    BY DEF Tree
  <2>1. CASE x = e
    BY <1>4, <2>1
  <2>2. CASE x # e /\ Parent[x] # e
    BY <1>1, <1>3, <2>2 DEF Tree
  <2>3. CASE x # e /\ Parent[x] = e
    <3>1. disk[e] # "none" /\ e \notin Files
      BY <1>1, <1>2, <1>3, <2>3 DEF Tree
    <3> QED BY <2>3, <3>1
  <2> QED BY <2>1, <2>2, <2>3
<1>6. \A c \in Asked' \ {Root} : c \in Asked \ {Root} /\ disk'[Parent[c]] = disk[Parent[c]]
  <2> SUFFICES ASSUME NEW c \in Asked' \ {Root}
               PROVE  c \in Asked \ {Root} /\ disk'[Parent[c]] = disk[Parent[c]]
    OBVIOUS
  <2>1. c \in Asked \ {Root} /\ c # e /\ c \in Live /\ c \in Entries
    BY <1>2
  <2>2. Parent[c] \in Above[c]
    BY <2>1, AboveSelf, AboveUp
  <2>3. Parent[c] # e
    BY <1>2, <2>1, <2>2, LiveApart
  <2> QED BY <1>3, <2>1, <2>3
<1>7. Grounds'
  <2>1. \A c \in Asked' \ {Root} : c \in Listed(disk'[Parent[c]])
    BY <1>1, <1>6 DEF Grounds
  <2>2. ASSUME ~RecheckTimeout PROVE \A d \in Refreshes' \cup TaskDirs' : disk'[d] = "new"
    <3> SUFFICES ASSUME NEW d \in Refreshes' \cup TaskDirs', d # e PROVE disk'[d] = "new"
      OBVIOUS
    <3>1. d \in Refreshes \cup TaskDirs /\ d \in Entries
      BY LiveApart DEF Live
    <3> QED BY <1>1, <2>2, <3>1 DEF Grounds
  <2>3. ASSUME ~RecheckTimeout PROVE \A c \in Asked' \ {Root} : disk'[Parent[c]] = "new"
    BY <1>1, <1>6, <2>3 DEF Grounds
  <2> QED BY <2>1, <2>2, <2>3 DEF Grounds
<1>8. Clean'
  <2> SUFFICES ASSUME Unharmed', NEW d \in Dirs, disk'[d] # "none" PROVE (Excused(d) \/ Settled(d))'
    BY DEF Clean
  <2>1. d \in Entries /\ d \in Above[d] /\ Above[d] \subseteq Dirs
    BY AboveDirs, AboveSelf
  <2>2. CASE d = e
    BY <1>2, <2>1, <2>2 DEF Excused
  <2>3. CASE d # e /\ Excused(d)
    <3>1. PICK a \in Above[d] : a \in Live \/ a \in Failed
      BY <2>3 DEF Excused
    <3>2. a \notin Files
      BY <1>2, <2>1
    <3> QED BY <3>1, <3>2 DEF Excused
  <2>4. CASE d # e /\ Settled(d)
    <3>1. disk'[d] = disk[d] /\ Children(d)' = Children(d)
      BY <2>1, <2>4 DEF Children
    <3>2. Orphans(d)' = {}
      <4> SUFFICES ASSUME NEW x \in Inside(d), disk'[x] # "none", x \notin Children(d) PROVE FALSE
        BY <3>1 DEF Orphans
      <4>1. x \in Entries \ {Root} /\ Parent[x] = d
        BY DEF Inside
      <4>2. x # e
        BY <1>4, <4>1 DEF Children
      <4> QED BY <2>4, <4>1, <4>2 DEF Settled, Orphans
    <3>3. ASSUME NEW c \in Children(d)
          PROVE  \/ disk'[c] = disk'[d] \/ (RecheckTimeout /\ c \in recent')
                 \/ c \in Asked' \/ c \in Failed'
      <4>1. c \in Entries \ {Root} /\ Parent[c] = d
        BY <3>3 DEF Children, Inside
      <4>2. CASE c = e
        BY <3>1, <4>1, <4>2
      <4>3. CASE c # e
        <5>1. \/ disk[c] = disk[d] \/ (RecheckTimeout /\ c \in recent) \/ c \in Asked \/ c \in Failed
          BY <2>4, <3>3 DEF Settled, Current
        <5> QED BY <3>1, <4>1, <4>3, <5>1
      <4> QED BY <4>2, <4>3
    <3> QED BY <3>1, <3>2, <3>3 DEF Settled, Current
  <2>5. d # e => Excused(d) \/ Settled(d)
    BY <1>1, <2>1 DEF Clean
  <2> QED BY <2>2, <2>3, <2>4, <2>5
<1> QED BY <1>5, <1>7, <1>8 DEF Content

(* A directory is looked into: what could be removed of its orphans is no  *)
(* longer there, nor what is inside them, and its children are asked for   *)
(* or looked into, unless it has failed.                                   *)
LEMMA ContentOfChildren ==
    ASSUME IInv, NEW d \in Dirs, d \in Live,
           NEW removed, removed \subseteq Inside(d), removed \cap Children(d) = {},
           disk' = [e \in Entries |-> IF Above[e] \cap removed # {} THEN "none" ELSE disk[e]],
           NEW C1, C1 \subseteq Children(d), NEW C2, C2 \subseteq Children(d),
           \A c \in C2 : disk[c] = disk[d],
           \/ d \in Failed'
           \/ /\ removed = Orphans(d)
              /\ \A c \in Children(d) : c \in C1 \/ (disk[c] = disk[d] /\ (c \in Dirs => c \in C2)),
           Asked' = Asked \cup C1,
           Refreshes' \cup TaskDirs' \subseteq Refreshes \cup TaskDirs \cup C2, d \in Refreshes,
           Live \ {d} \subseteq Live', C1 \subseteq Live', C2 \subseteq Live', recent' = recent,
           Unharmed' => Unharmed, Failed \subseteq Failed'
    PROVE  Content'
<1>1. Tree /\ Grounds /\ Clean
  BY DEF IInv, Content
<1>2. /\ d \in Entries /\ Inside(d) \subseteq Entries \ {Root} /\ Children(d) \subseteq Inside(d)
      /\ Live \subseteq Entries /\ Asked \subseteq Live
      /\ \A c \in Children(d) : c \in Listed(disk[d]) /\ Parent[c] = d
  BY LiveApart DEF Inside, Children, Entries
<1>3. \A x \in Entries : /\ Above[x] \cap removed = {} => disk'[x] = disk[x]
                         /\ disk'[x] # "none" => Above[x] \cap removed = {} /\ disk'[x] = disk[x]
  OBVIOUS
<1>4. Above[d] \cap removed = {}
  BY <1>2, ChildrenApart
<1>5. \A x \in Live : Above[x] \cap removed = {}
  <2> SUFFICES ASSUME NEW x \in Live, NEW c \in Above[x], c \in removed PROVE FALSE
    OBVIOUS
  <2>1. d \in Above[c] /\ Above[c] \subseteq Above[x]
    BY <1>2, ChildrenApart, AboveTransitive
  <2>2. d = x
    BY <2>1, LiveApart
  <2> QED BY <1>4, <2>2
<1>6. \A c \in Children(d) : Above[c] \cap removed = {}
  BY <1>2, <1>4, AboveChild
<1>7. disk'[d] = disk[d] /\ \A x \in Live \cup Children(d) : disk'[x] = disk[x]
  BY <1>2, <1>3, <1>4, <1>5, <1>6
<1>8. Tree'
  <2> SUFFICES ASSUME NEW x \in Entries \ {Root}, disk'[x] # "none" PROVE disk'[Parent[x]] # "none"
    BY DEF Tree
  <2>1. Parent[x] \in Entries /\ Above[Parent[x]] \subseteq Above[x]
    BY AboveChild
  <2> QED BY <1>1, <1>3, <2>1 DEF Tree
<1>9. \A c \in Asked \ {Root} : disk'[Parent[c]] = disk[Parent[c]]
  <2> SUFFICES ASSUME NEW c \in Asked \ {Root} PROVE disk'[Parent[c]] = disk[Parent[c]]
    OBVIOUS
  <2>1. c \in Live /\ c \in Entries \ {Root}
    BY <1>2
  <2>2. Parent[c] \in Entries /\ Above[Parent[c]] \subseteq Above[c]
    BY <2>1, AboveChild
  <2> QED BY <1>3, <1>5, <2>1, <2>2
<1>10. Grounds'
  <2>1. \A c \in Asked' \ {Root} : c \in Listed(disk'[Parent[c]])
    BY <1>1, <1>2, <1>7, <1>9 DEF Grounds
  <2>2. ASSUME ~RecheckTimeout PROVE \A x \in Refreshes' \cup TaskDirs' : disk'[x] = "new"
    <3>1. disk[d] = "new" /\ \A x \in Refreshes \cup TaskDirs : disk[x] = "new"
      BY <1>1, <2>2 DEF Grounds
    <3>2. \A x \in Refreshes \cup TaskDirs : disk'[x] = "new"
      BY <1>7, <3>1 DEF Live
    <3> QED BY <1>7, <3>1, <3>2
  <2>3. ASSUME ~RecheckTimeout PROVE \A c \in Asked' \ {Root} : disk'[Parent[c]] = "new"
    BY <1>1, <1>2, <1>7, <1>9, <2>3 DEF Grounds
  <2> QED BY <2>1, <2>2, <2>3 DEF Grounds
<1>11. Clean'
  <2> SUFFICES ASSUME Unharmed', NEW x \in Dirs, disk'[x] # "none" PROVE (Excused(x) \/ Settled(x))'
    BY DEF Clean
  <2>1. x \in Entries /\ x \in Above[x] /\ Above[x] \subseteq Dirs /\ Above[x] \subseteq Entries
    BY AboveDirs, AboveSelf
  <2>2. Above[x] \cap removed = {} /\ disk'[x] = disk[x] /\ disk[x] # "none"
    BY <1>3, <2>1
  <2>3. Children(x)' = Children(x)
    BY <2>2 DEF Children
  <2>4. d \in Failed' /\ d \in Above[x] => Excused(x)'
    BY DEF Excused
  <2>5. CASE x = d /\ d \notin Failed'
    <3>1. Orphans(x)' = {}
      <4> SUFFICES ASSUME NEW c \in Inside(d), disk'[c] # "none", c \notin Children(d) PROVE FALSE
        BY <2>3, <2>5 DEF Orphans
      <4>1. c \in Entries /\ c \in Above[c]
        BY <1>2, AboveSelf
      <4>2. c \in Orphans(d)
        BY <1>3, <4>1 DEF Orphans
      <4> QED BY <1>3, <2>5, <4>1, <4>2
    <3>2. \A c \in Children(d) : disk'[c] = disk'[d] \/ c \in Asked'
      BY <1>7, <2>5
    <3> QED BY <2>3, <2>5, <3>1, <3>2 DEF Settled, Current
  <2>6. CASE x # d /\ d \in Above[x]
    <3>1. PICK c \in Inside(d) : c \in Above[x]
      BY <2>1, <2>6, AboveThrough
    <3>2. c \in Children(d) => Excused(x)'
      <4>1. CASE d \in Failed'
        BY <2>4, <2>6, <4>1
      <4>2. CASE d \notin Failed' /\ c \in Children(d)
        <5>1. c \in C1 \/ c \in C2
          BY <2>1, <3>1, <4>2
        <5>2. c \in Live'
          BY <5>1
        <5> QED BY <3>1, <5>2 DEF Excused
      <4> QED BY <4>1, <4>2
    <3>3. disk[c] # "none"
      <4> DEFINE S == {y \in Entries : disk[y] # "none"}
      <4>1. S \in SUBSET Entries /\ x \in S /\ \A y \in S \ {Root} : Parent[y] \in S
        BY <1>1, <2>1, <2>2, AboveChild DEF Tree
      <4>2. Above[x] \subseteq S
        BY <2>1, <4>1, AboveLeast
      <4> QED BY <3>1, <4>2
    <3>4. c \notin Children(d) => c \in Orphans(d) \ removed
      BY <2>2, <3>1, <3>3 DEF Orphans
    <3> QED BY <2>4, <2>6, <3>2, <3>4
  <2>7. CASE d \notin Above[x] /\ Excused(x)
    <3>1. PICK a \in Above[x] : a \in Live \/ a \in Failed
      BY <2>7 DEF Excused
    <3> QED BY <2>7, <3>1 DEF Excused
  <2>8. CASE d \notin Above[x] /\ Settled(x)
    <3>1. \A c \in Inside(x) : c \in Entries /\ disk'[c] = disk[c]
      <4> SUFFICES ASSUME NEW c \in Inside(x) PROVE c \in Entries /\ Above[c] \cap removed = {}
        BY <1>3
      <4>1. c \in Entries \ {Root} /\ Parent[c] = x
        BY DEF Inside
      <4>2. c \notin removed
        BY <2>1, <2>8, <4>1 DEF Inside
      <4> QED BY <2>2, <4>1, <4>2, AboveChild
    <3>2. Orphans(x)' = {}
      BY <2>3, <2>8, <3>1 DEF Settled, Orphans
    <3>3. ASSUME NEW c \in Children(x)
          PROVE  \/ disk'[c] = disk'[x] \/ (RecheckTimeout /\ c \in recent')
                 \/ c \in Asked' \/ c \in Failed'
      <4>1. disk'[c] = disk[c]
        BY <3>1, <3>3 DEF Children
      <4> QED BY <2>2, <2>8, <3>3, <4>1 DEF Settled, Current
    <3> QED BY <2>3, <3>2, <3>3 DEF Settled, Current
  <2>9. Excused(x) \/ Settled(x)
    BY <1>1, <2>2 DEF Clean
  <2> QED BY <2>1, <2>4, <2>5, <2>6, <2>7, <2>8, <2>9
<1> QED BY <1>8, <1>10, <1>11 DEF Content

-----------------------------------------------------------------------------
(* The steps inside calls keep the invariant.                              *)

LEMMA SkipUpdateDirKeeps == ASSUME IInv, SkipUpdateDir PROVE IInv'
<1> DEFINE s == <<Do("refresh", Of)>>
<1>1. /\ stack \in Seq(Frames) /\ stack # <<>> /\ Head(stack).op = "get"
      /\ Of \in recent /\ recent \subseteq Dirs /\ Becomes(s)
      /\ UNCHANGED <<requests, active, queued, tasks, failures, status, isUpdating, disk, recent,
                     alive, threw>>
      /\ directories' = directories \cup ({Of} \ {Root})
  BY DEF IInv, Typed, TypeOK, SkipUpdateDir, Running
<1>2. /\ s \in Seq(Frames) /\ OfAll(s, "refresh") = {Of} /\ Once(s, "refresh")
      /\ \A i \in DOMAIN s : s[i].op = "refresh"
  <2>1. Do("refresh", Of) \in Frames
    BY <1>1, FrameOf
  <2>2. Do("refresh", Of).op = "refresh" /\ Do("refresh", Of).of = Of
    BY DEF Do
  <2> QED BY <2>1, <2>2, OfAllOne
<1> HIDE DEF s
<1>3. /\ stack' \in Seq(Frames) /\ Shape(stack', status')
      /\ OfAll(stack', "pop") = OfAll(stack, "pop")
  BY <1>1, <1>2, ContinuesShape DEF IInv, Inner, Ending
<1>4. Of \in Gets /\ Gets' = Gets \ {Of} /\ Once(stack', "get")
  BY <1>1, <1>2, Dropped DEF IInv, Lists, Gets
<1>5. /\ OfAll(stack', "finished") = Finishing /\ Once(stack', "finished")
      /\ OfAll(stack', "cancel") = OfAll(stack, "cancel")
      /\ Once(stack, "cancel") => Once(stack', "cancel")
  BY <1>1, <1>2, Kept DEF IInv, Lists, Finishing
<1>6. Of \notin Refreshes
  BY <1>4 DEF IInv, Order, Apart, Disjoint
<1>7. Refreshes' = Refreshes \cup {Of} /\ Once(stack', "refresh")
  BY <1>1, <1>2, <1>6, Gained DEF IInv, Lists, Refreshes
<1>8. InHand' = InHand /\ TaskDirs' = TaskDirs /\ Queue' = Queue /\ Dead' = Dead
  BY <1>1, <1>3 DEF InHand, TaskDirs, Queue, Dead
<1>9. Typed'
  <2>1. TypeOK'
    BY <1>1, <1>3, FramesTyped DEF IInv, Typed, TypeOK, ClientTypeOK
  <2> QED BY <1>1, <1>3, <2>1 DEF IInv, Typed
<1>10. Lists'
  BY <1>1, <1>4, <1>5, <1>7 DEF IInv, Lists, Finishing
<1>11. Order'
  <2>1. Apart(Gets \ {Of}, Refreshes \cup {Of}, TaskDirs, Queue, requests, Dead)
    BY <1>4, ApartMove DEF IInv, Order, Apart, Disjoint
  <2> QED BY <1>1, <1>4, <1>7, <1>8, <2>1 DEF Order
<1>12. Accounts' /\ Cancels'
  BY <1>1, <1>5 DEF IInv, Accounts, Cancels, Finishing
<1>13. Quiet'
  BY <1>1 DEF IInv, Quiet
<1>14. QueueIsThrottled' /\ TasksHaveTheirDirectory'
  BY <1>1 DEF IInv, QueueIsThrottled, TasksHaveTheirDirectory
<1>15. Content'
  <2>1. Asked' = Asked \ {Of} /\ Live \subseteq Live' /\ RecheckTimeout
    <3>1. Of \notin Queue /\ Of \notin requests
      BY <1>4, LiveAndDead DEF Disjoint
    <3>2. Asked' = Asked \ {Of}
      BY <1>1, <1>4, <1>8, <3>1 DEF Asked
    <3>3. Live \subseteq Live'
      BY <1>7, <1>8, <3>2 DEF Live
    <3>4. RecheckTimeout
      BY DEF SkipUpdateDir
    <3> QED BY <3>2, <3>3, <3>4
  <2>2. Unharmed' => Unharmed
    BY <1>1, <1>2, UnharmedBefore
  <2>3. Failed \subseteq Failed'
    BY <1>1, <1>2, FailedStays
  <2> QED BY <1>1, <2>1, <2>2, <2>3, ContentStands
<1> QED BY <1>9, <1>10, <1>11, <1>12, <1>13, <1>14, <1>15 DEF IInv

LEMMA StartRequestKeeps == ASSUME IInv, StartRequest PROVE IInv'
<1>1. /\ stack \in Seq(Frames) /\ stack # <<>> /\ Head(stack).op = "get" /\ Becomes(<<>>)
      /\ UNCHANGED <<tasks, failures, status, isUpdating, disk, recent, alive, threw>>
      /\ directories' = directories \cup ((Dirs \ {Root}) \cap {Of})
      /\ active \in Seq(Entries) /\ queued \in Seq(Entries)
  BY DEF IInv, Typed, TypeOK, StartRequest, Running
<1>2. <<>> \in Seq(Frames) /\ \A i \in DOMAIN <<>> : <<>>[i].op \in Inner /\ <<>>[i].op = "none"
  OBVIOUS
<1>3. /\ stack' \in Seq(Frames) /\ Shape(stack', status')
      /\ OfAll(stack', "pop") = OfAll(stack, "pop")
  BY <1>1, <1>2, ContinuesShape DEF IInv, Inner, Ending
<1>4. Of \in Gets /\ Gets' = Gets \ {Of} /\ Once(stack', "get")
  BY <1>1, <1>2, Dropped DEF IInv, Lists, Gets
<1>5. /\ OfAll(stack', "finished") = Finishing /\ Once(stack', "finished")
      /\ Refreshes' = Refreshes /\ Once(stack', "refresh")
      /\ OfAll(stack', "cancel") = OfAll(stack, "cancel")
      /\ Once(stack, "cancel") => Once(stack', "cancel")
  BY <1>1, <1>2, Kept DEF IInv, Lists, Finishing, Refreshes
<1>6. /\ Of \in Entries /\ Of \notin Refreshes /\ Of \notin TaskDirs /\ Of \notin Queue
      /\ Of \notin requests /\ Of \notin Dead /\ Of \notin ToSet(active)
  <2>1. /\ Of \in Entries /\ Of \notin Refreshes /\ Of \notin TaskDirs /\ Of \notin Queue
        /\ Of \notin requests
    BY <1>4 DEF IInv, Order, Apart, Disjoint
  <2>2. Of \notin Dead
    BY <1>4, <2>1, AboveSelf DEF IInv, Order, Apart
  <2> QED BY <2>1, <2>2 DEF Dead
<1>7. InHand' = InHand /\ TaskDirs' = TaskDirs
  BY <1>1, <1>3 DEF InHand, TaskDirs
<1>8. \/ /\ Len(active) < MaxActive
         /\ active' = Append(active, Of) /\ requests' = requests \cup {Of} /\ queued' = queued
      \/ /\ Len(active) >= MaxActive
         /\ queued' = Append(queued, Of) /\ requests' = requests /\ active' = active
  BY DEF StartRequest, MakeRequest
<1>9. /\ active' \in Seq(Entries) /\ queued' \in Seq(Entries)
      /\ IsInjective(active') /\ IsInjective(queued')
      /\ ToSet(active') \ requests' = ToSet(active) \ requests
      /\ requests' \subseteq ToSet(active') /\ requests' \subseteq Requests
      /\ ToSet(active) \subseteq ToSet(active') /\ ToSet(active') \subseteq ToSet(active) \cup {Of}
      /\ requests' \subseteq requests \cup {Of} /\ requests \subseteq requests'
      /\ ToSet(queued') \cup requests' = ToSet(queued) \cup requests \cup {Of}
      /\ ToSet(queued') \cap requests' = {}
  <2>1. /\ IsInjective(active) /\ IsInjective(queued) /\ requests \subseteq ToSet(active)
        /\ requests \subseteq Requests /\ Requests = Entries /\ ToSet(queued) \cap requests = {}
    BY RepositoryAssumption DEF IInv, Lists, Typed, TypeOK, ClientTypeOK, Order, Apart, Disjoint, Queue
  <2>2. CASE active' = Append(active, Of) /\ requests' = requests \cup {Of} /\ queued' = queued
    <3>1. /\ active' \in Seq(Entries) /\ ToSet(active') = ToSet(active) \cup {Of} /\ IsInjective(active')
      BY <1>1, <1>6, <2>1, <2>2, InjectiveAppend
    <3> QED BY <1>1, <1>6, <2>1, <2>2, <3>1 DEF Queue
  <2>3. CASE queued' = Append(queued, Of) /\ requests' = requests /\ active' = active
    <3>1. /\ queued' \in Seq(Entries) /\ ToSet(queued') = ToSet(queued) \cup {Of} /\ IsInjective(queued')
      BY <1>1, <1>6, <2>1, <2>3, InjectiveAppend DEF Queue
    <3> QED BY <1>1, <1>6, <2>1, <2>3, <3>1
  <2> QED BY <1>8, <2>2, <2>3
<1>10. Typed'
  <2>1. TypeOK'
    BY <1>1, <1>3, <1>9, FramesTyped DEF IInv, Typed, TypeOK, ClientTypeOK
  <2> QED BY <1>1, <1>3, <2>1 DEF IInv, Typed
<1>11. Lists'
  BY <1>1, <1>4, <1>5, <1>6, <1>9 DEF IInv, Lists, Finishing
<1>12. Order'
  <2>1. Dead' = Dead /\ Queue' \cup requests' = Queue \cup requests \cup {Of}
    BY <1>7, <1>9 DEF Dead, Queue
  <2>2. Disjoint(Gets \ {Of}, Refreshes, TaskDirs, Queue', requests')
    BY <1>6, <1>9, <2>1 DEF IInv, Order, Apart, Disjoint, Queue
  <2>4. /\ (Gets \ {Of}) \cup Refreshes \cup TaskDirs \cup Queue' \cup requests'
             \subseteq Gets \cup Refreshes \cup TaskDirs \cup Queue \cup requests
        /\ Dead \cap ((Gets \ {Of}) \cup Refreshes \cup TaskDirs \cup Queue' \cup requests')
             \subseteq Refreshes
    BY <1>4, <2>1, LiveAndDead
  <2>5. Apart(Gets \ {Of}, Refreshes, TaskDirs, Queue', requests', Dead)
    BY <2>2, <2>4, LiveAndDead, ApartMove
  <2> QED BY <1>4, <1>5, <1>7, <2>1, <2>5 DEF Order
<1>13. Accounts' /\ Cancels'
  <2>1. Accounts'
    BY <1>1, <1>5, <1>6, <1>9 DEF IInv, Accounts, Finishing
  <2> QED BY <1>1, <1>5, <1>9, <2>1 DEF IInv, Cancels, Finishing
<1>14. Quiet'
  BY <1>1, Busy DEF Quiet
<1>15. QueueIsThrottled'
  <2>1. active' = Append(active, Of) => Len(active') = Len(active) + 1
    BY <1>1, <1>6, InjectiveAppend
  <2>2. MaxActive \in Nat /\ Len(active) \in Nat
    BY <1>1, RepositoryAssumption
  <2> QED BY <1>8, <2>1, <2>2 DEF IInv, QueueIsThrottled
<1>16. TasksHaveTheirDirectory'
  BY <1>1 DEF IInv, TasksHaveTheirDirectory
<1>17. Content'
  <2>1. Asked' = Asked
    <3>1. Queue' \cup requests' = Queue \cup requests \cup {Of}
      BY <1>9 DEF Queue
    <3> QED BY <1>4, <3>1 DEF Asked
  <2>2. Live' = Live
    BY <1>5, <1>7, <2>1 DEF Live
  <2>3. Unharmed' => Unharmed
    BY <1>1, <1>2, UnharmedBefore
  <2>4. Failed \subseteq Failed'
    BY <1>1, <1>2, FailedStays
  <2> QED BY <1>1, <1>5, <1>7, <2>1, <2>2, <2>3, <2>4, ContentStands
<1> QED BY <1>10, <1>11, <1>12, <1>13, <1>14, <1>15, <1>16, <1>17 DEF IInv

(* What is scheduled for a directory that is looked into.                  *)
LEMMA Scheduled ==
    ASSUME NEW C \in SUBSET Entries, NEW f \in Frames, f.op \in {"fail", "failRoot"},
           NEW F, F = <<>> \/ F = <<f>>
    PROVE  LET s == F \o Each("get", C)
           IN  /\ s \in Seq(Frames)
               /\ \A i \in DOMAIN s : s[i].op \in {"get", "fail", "failRoot"}
               /\ OfAll(s, "get") = C /\ Once(s, "get")
               /\ F = <<f>> => f.of \in OfAll(s, f.op)
<1> DEFINE X == {g \in Frames : g.op \in {"get", "fail", "failRoot"}}
           G == Each("get", C)
           s == F \o G
<1>1. IsFiniteSet(C)
  BY RepositoryAssumption, FS_Subset
<1>2. (\A e \in C : Do("get", e) \in X) /\ f \in X
  <2>1. \A e \in C : Do("get", e) \in Frames /\ Do("get", e).op = "get"
    BY FrameOf DEF Do
  <2> QED BY <2>1
<1>3. /\ G \in Seq(X) /\ \A i \in DOMAIN G : G[i].op = "get"
      /\ OfAll(G, "get") = C /\ Once(G, "get")
  <2> HIDE DEF X
  <2> QED BY <1>1, <1>2, EachOfSet
<1>4. /\ F \in Seq(X) /\ \A i \in DOMAIN F : F[i].op \in {"fail", "failRoot"}
      /\ F = <<f>> => f.of \in OfAll(F, f.op)
  <2> HIDE DEF X
  <2>2. CASE F = <<>>
    BY <2>2
  <2>3. CASE F = <<f>>
    BY <1>2, <2>3, OfAllOne
  <2> QED BY <2>2, <2>3
<1> HIDE DEF G, X
<1>5. OfAll(F, "get") = {} /\ Once(F, "get")
  BY <1>4, OfAllOther
<1>6. /\ s \in Seq(X) /\ OfAll(s, "get") = C /\ Once(s, "get")
      /\ F = <<f>> => f.of \in OfAll(s, f.op)
  <2>1. s \in Seq(X) /\ OfAll(s, "get") = OfAll(F, "get") \cup OfAll(G, "get")
    BY <1>3, <1>4, OfAllConcat
  <2>2. OfAll(s, f.op) = OfAll(F, f.op) \cup OfAll(G, f.op)
    BY <1>3, <1>4, OfAllConcat
  <2>3. Once(s, "get")
    BY <1>3, <1>4, <1>5, OfAllConcat
  <2> QED BY <1>3, <1>4, <1>5, <2>1, <2>2, <2>3
<1> HIDE DEF s
<1>7. X \subseteq Frames /\ \A g \in X : g.op \in {"get", "fail", "failRoot"}
  BY DEF X
<1>8. s \in Seq(Frames) /\ \A i \in DOMAIN s : s[i].op \in {"get", "fail", "failRoot"}
  <2>1. \A i \in DOMAIN s : s[i] \in X
    BY <1>6, LenProperties
  <2> QED BY <1>6, <1>7, <2>1, SeqMonotonic
<1> QED BY <1>6, <1>8 DEF s, G

(* Tasks are added behind those there are.                                 *)
LEMMA TasksAdded ==
    ASSUME NEW t \in Seq(Jobs), NEW C \in SUBSET Dirs, Once(t, "refresh"),
           OfAll(t, "refresh") \cap C = {}
    PROVE  LET u == t \o Each("refresh", C)
           IN  /\ u \in Seq(Jobs)
               /\ OfAll(u, "refresh") = OfAll(t, "refresh") \cup C /\ Once(u, "refresh")
               /\ t # <<>> => u # <<>> /\ Head(u) = Head(t)
<1> DEFINE G == Each("refresh", C)
           u == t \o G
<1>1. IsFiniteSet(C)
  BY RepositoryAssumption, FS_Subset DEF Entries
<1>2. \A e \in C : Do("refresh", e) \in Jobs
  BY DEF Do, Jobs
<1>3. G \in Seq(Jobs) /\ OfAll(G, "refresh") = C /\ Once(G, "refresh")
  BY <1>1, <1>2, EachOfSet
<1> HIDE DEF G
<1>4. u \in Seq(Jobs) /\ OfAll(u, "refresh") = OfAll(t, "refresh") \cup OfAll(G, "refresh")
  BY <1>3, OfAllConcat
<1>5. Once(u, "refresh")
  BY <1>3, OfAllConcat
<1>6. t # <<>> => u # <<>> /\ Head(u) = Head(t)
  BY <1>3
<1> QED BY <1>3, <1>4, <1>5, <1>6 DEF u, G

(* Whichever way it ends: all is done, or what is not done has failed.     *)
LEMMA ChildrenScheduled ==
    ASSUME IInv, UpdateChildren, Of \in Dirs
    PROVE  \E removed \in SUBSET Orphans(Of), C1 \in SUBSET ToBeUpdated(Of),
              C2 \in SUBSET Recurse(Of), f \in Frames : \E F \in {<<>>, <<f>>} :
             /\ disk' = [e \in Entries |-> IF Above[e] \cap removed # {} THEN "none" ELSE disk[e]]
             /\ tasks' = tasks \o Each("refresh", C2)
             /\ directories' = (directories \ (IF Of = Root THEN {} ELSE removed)) \cup C2
             /\ Becomes(F \o Each("get", C1))
             /\ f.op \in {"fail", "failRoot"} /\ f.of = Of
             /\ \/ F = <<f>>
                \/ removed = Orphans(Of) /\ C1 = ToBeUpdated(Of) /\ C2 = Recurse(Of)
<1>1. Of \in Entries
  BY DEF Entries
<1>2. CASE UpdateAllChildren(Of)
  <2> DEFINE f == Do("fail", Of)
  <2>1. f \in Frames /\ f.op = "fail" /\ f.of = Of
    BY <1>1, FrameOf DEF Do
  <2>2. PICK removed \in SUBSET Orphans(Of) :
           /\ disk' = [e \in Entries |-> IF Above[e] \cap removed # {} THEN "none" ELSE disk[e]]
           /\ tasks' = tasks \o Each("refresh", Recurse(Of))
           /\ directories' = (directories \ (IF Of = Root THEN {} ELSE removed)) \cup Recurse(Of)
           /\ Becomes((IF removed # Orphans(Of) THEN <<f>> ELSE <<>>)
                         \o Each("get", ToBeUpdated(Of)))
    BY <1>2 DEF UpdateAllChildren
  <2> HIDE DEF f
  <2>3. PICK F \in {<<>>, <<f>>} : /\ Becomes(F \o Each("get", ToBeUpdated(Of)))
                                   /\ F = <<f>> \/ removed = Orphans(Of)
    BY <2>2
  <2> QED BY <2>1, <2>2, <2>3
<1>3. CASE CannotHashChild(Of)
  <2> DEFINE f == FailedToUpdate(Of)
  <2>1. f \in Frames /\ f.op \in {"fail", "failRoot"} /\ f.of = Of
    <3>1. CASE Of = Root
      BY <3>1, FrameOf DEF FailedToUpdate, Do
    <3>2. CASE Of # Root
      BY <1>1, <3>2, FrameOf DEF FailedToUpdate, Do
    <3> QED BY <3>1, <3>2
  <2>2. PICK before \in SUBSET Recurse(Of) :
           /\ tasks' = tasks \o Each("refresh", before)
           /\ directories' = directories \cup before
           /\ Becomes(<<f>>) /\ disk' = disk
    BY <1>3 DEF CannotHashChild
  <2> HIDE DEF f
  <2>3. Each("get", {}) = <<>>
    BY FS_EmptySet DEF Each
  <2>4. Becomes(<<f>> \o Each("get", {}))
    <3>1. <<f>> \o <<>> = <<f>>
      BY <2>1, ConcatEmptySeq
    <3> QED BY <2>2, <2>3, <3>1
  <2>5. disk' = [e \in Entries |-> IF Above[e] \cap {} # {} THEN "none" ELSE disk[e]]
    BY <2>2 DEF IInv, Typed, TypeOK
  <2>6. directories' = (directories \ (IF Of = Root THEN {} ELSE {})) \cup before
    BY <2>2
  <2>7. {} \in SUBSET Orphans(Of) /\ {} \in SUBSET ToBeUpdated(Of) /\ <<f>> \in {<<>>, <<f>>}
    OBVIOUS
  <2> QED BY <2>1, <2>2, <2>4, <2>5, <2>6, <2>7
<1> QED BY <1>2, <1>3 DEF UpdateChildren

LEMMA UpdateChildrenKeeps == ASSUME IInv, UpdateChildren PROVE IInv'
<1>1. /\ stack \in Seq(Frames) /\ stack # <<>> /\ Head(stack).op = "refresh" /\ Of \in Dirs
      /\ UNCHANGED <<requests, active, queued, failures, status, isUpdating, recent, alive, threw>>
  BY FrameTypes DEF IInv, Typed, UpdateChildren, Running, Of
<1>2. PICK removed \in SUBSET Orphans(Of), C1 \in SUBSET ToBeUpdated(Of),
           C2 \in SUBSET Recurse(Of), f \in Frames : \E F \in {<<>>, <<f>>} :
             /\ disk' = [e \in Entries |-> IF Above[e] \cap removed # {} THEN "none" ELSE disk[e]]
             /\ tasks' = tasks \o Each("refresh", C2)
             /\ directories' = (directories \ (IF Of = Root THEN {} ELSE removed)) \cup C2
             /\ Becomes(F \o Each("get", C1))
             /\ f.op \in {"fail", "failRoot"} /\ f.of = Of
             /\ \/ F = <<f>>
                \/ removed = Orphans(Of) /\ C1 = ToBeUpdated(Of) /\ C2 = Recurse(Of)
  BY <1>1, ChildrenScheduled
<1>3. PICK F \in {<<>>, <<f>>} :
             /\ Becomes(F \o Each("get", C1))
             /\ f.op \in {"fail", "failRoot"} /\ f.of = Of
             /\ \/ F = <<f>>
                \/ removed = Orphans(Of) /\ C1 = ToBeUpdated(Of) /\ C2 = Recurse(Of)
  BY <1>2
<1>4. /\ C1 \in SUBSET Inside(Of) /\ C2 \in SUBSET Inside(Of) /\ C1 \cap C2 = {}
      /\ C2 \subseteq Dirs \ {Root} /\ Inside(Of) \subseteq Entries \ {Root}
      /\ removed \subseteq Inside(Of) /\ Of \in Entries
      /\ C1 \subseteq Children(Of) /\ C2 \subseteq Children(Of) /\ removed \cap Children(Of) = {}
      /\ \A c \in C2 : disk[c] = disk[Of]
      /\ \/ F = <<f>>
         \/ /\ removed = Orphans(Of)
            /\ \A c \in Children(Of) : c \in C1 \/ (disk[c] = disk[Of] /\ (c \in Dirs => c \in C2))
  BY <1>1, <1>3 DEF Children, Inside, Orphans, Entries, Current, ToBeUpdated, Recurse
<1> DEFINE s == F \o Each("get", C1)
<1>5. /\ s \in Seq(Frames) /\ \A i \in DOMAIN s : s[i].op \in {"get", "fail", "failRoot"}
      /\ OfAll(s, "get") = C1 /\ Once(s, "get") /\ Becomes(s)
      /\ F = <<f>> => Of \in OfAll(s, "fail") \cup OfAll(s, "failRoot")
  BY <1>3, <1>4, Scheduled
<1> HIDE DEF s
<1>6. /\ stack' \in Seq(Frames) /\ Shape(stack', status')
      /\ OfAll(stack', "pop") = OfAll(stack, "pop")
  BY <1>1, <1>5, ContinuesShape DEF IInv, Inner, Ending
<1>7. Of \in Refreshes /\ Refreshes' = Refreshes \ {Of} /\ Once(stack', "refresh")
  BY <1>1, <1>5, Dropped DEF IInv, Lists, Refreshes
<1>8. /\ Apart(Gets \cup C1, Refreshes \ {Of}, TaskDirs \cup C2, Queue, requests, Dead)
      /\ Inside(Of) \cap (Gets \cup Refreshes \cup TaskDirs \cup Queue \cup requests \cup Dead) = {}
  <2>1. Apart(Gets, Refreshes, TaskDirs, Queue, requests, Dead)
    BY LiveAndDead
  <2>2. C1 \subseteq Inside(Of) /\ C2 \subseteq Inside(Of) /\ C1 \cap C2 = {}
    BY <1>4
  <2>3. Apart(Gets \cup C1, Refreshes \ {Of}, TaskDirs \cup C2, Queue, requests, Dead)
    BY <1>7, <2>1, <2>2, ApartChildren
  <2>4. Inside(Of) \cap (Gets \cup Refreshes \cup TaskDirs \cup Queue \cup requests \cup Dead) = {}
    BY <1>7, <2>1, ApartInside
  <2> QED BY <2>3, <2>4
<1>9. Gets' = Gets \cup C1 /\ Once(stack', "get")
  <2>1. OfAll(s, "get") \cap OfAll(stack, "get") = {}
    BY <1>4, <1>5, <1>8 DEF Gets
  <2> QED BY <1>1, <1>5, <2>1, Gained DEF IInv, Lists, Gets
<1>10. /\ OfAll(stack', "finished") = Finishing /\ Once(stack', "finished")
       /\ OfAll(stack', "cancel") = OfAll(stack, "cancel")
       /\ Once(stack, "cancel") => Once(stack', "cancel")
  BY <1>1, <1>5, Kept DEF IInv, Lists, Finishing
<1>11. /\ tasks \in Seq(Jobs) /\ Once(tasks, "refresh")
       /\ OfAll(tasks, "refresh") \subseteq TaskDirs \cup InHand
       /\ InHand \subseteq Dead
  BY DEF IInv, Typed, TypeOK, Lists, Jobs, TaskDirs, Dead
<1>12. /\ tasks' \in Seq(Jobs)
       /\ OfAll(tasks', "refresh") = OfAll(tasks, "refresh") \cup C2 /\ Once(tasks', "refresh")
       /\ tasks # <<>> => tasks' # <<>> /\ Head(tasks') = Head(tasks)
  <2>1. OfAll(tasks, "refresh") \cap C2 = {}
    BY <1>4, <1>8, <1>11
  <2> QED BY <1>2, <1>4, <1>11, <2>1, TasksAdded
<1>13. InHand' = InHand /\ TaskDirs' = TaskDirs \cup C2 /\ Queue' = Queue /\ Dead' = Dead
  <2>1. InHand' = InHand
    BY <1>6, <1>12 DEF InHand, IInv, Typed
  <2>2. C2 \cap InHand = {}
    BY <1>4, <1>8, <1>11
  <2> QED BY <1>1, <1>12, <2>1, <2>2 DEF TaskDirs, Queue, Dead
<1>14. Typed'
  <2>1. disk' \in [Entries -> Versions]
    BY <1>2 DEF IInv, Typed, TypeOK, Versions
  <2>2. directories' \subseteq Dirs \ {Root}
    BY <1>2, <1>4 DEF IInv, Typed, TypeOK
  <2>3. TypeOK'
    BY <1>1, <1>6, <1>12, <2>1, <2>2, FramesTyped DEF IInv, Typed, TypeOK, ClientTypeOK, Jobs
  <2> QED BY <1>1, <1>6, <1>12, <2>3 DEF IInv, Typed
<1>15. Lists'
  BY <1>1, <1>7, <1>9, <1>10, <1>12 DEF IInv, Lists, Finishing
<1>16. Order'
  BY <1>1, <1>7, <1>8, <1>9, <1>13 DEF Order
<1>17. Accounts' /\ Cancels'
  BY <1>1, <1>10 DEF IInv, Accounts, Cancels, Finishing
<1>18. Quiet'
  BY <1>1, Busy DEF Quiet
<1>19. QueueIsThrottled'
  BY <1>1 DEF IInv, QueueIsThrottled
<1>20. TasksHaveTheirDirectory'
  <2>1. alive => OfAll(tasks, "refresh") \subseteq directories
    BY DEF IInv, TasksHaveTheirDirectory, OfAll
  <2>2. OfAll(tasks, "refresh") \cap removed = {}
    BY <1>4, <1>8, <1>11
  <2>3. alive => OfAll(tasks', "refresh") \subseteq directories'
    BY <1>2, <1>12, <2>1, <2>2
  <2> QED BY <1>1, <2>3 DEF TasksHaveTheirDirectory, OfAll
<1>21. Content'
  <2>1. /\ Asked' = Asked \cup C1 /\ Refreshes' \cup TaskDirs' \subseteq Refreshes \cup TaskDirs \cup C2
        /\ Live \ {Of} \subseteq Live' /\ C1 \subseteq Live' /\ C2 \subseteq Live'
    <3>1. Asked' = Asked \cup C1
      BY <1>1, <1>9, <1>13 DEF Asked
    <3> QED BY <1>7, <1>13, <3>1 DEF Live
  <2>2. Unharmed' => Unharmed
    BY <1>1, <1>5, UnharmedBefore
  <2>3. Failed \subseteq Failed' /\ (F = <<f>> => Of \in Failed')
    BY <1>1, <1>5, FailedStays
  <2>4. Of \in Live
    BY <1>7 DEF Live
  <2>5. \/ Of \in Failed'
        \/ /\ removed = Orphans(Of)
           /\ \A c \in Children(Of) : c \in C1 \/ (disk[c] = disk[Of] /\ (c \in Dirs => c \in C2))
    BY <1>4, <2>3
  <2>6. disk' = [e \in Entries |-> IF Above[e] \cap removed # {} THEN "none" ELSE disk[e]]
    BY <1>2
  <2>7. /\ C1 \subseteq Children(Of) /\ C2 \subseteq Children(Of) /\ \A c \in C2 : disk[c] = disk[Of]
        /\ removed \subseteq Inside(Of) /\ removed \cap Children(Of) = {}
    BY <1>4
  <2>8. Failed \subseteq Failed' /\ Of \in Refreshes /\ Of \in Dirs /\ recent' = recent
    BY <1>1, <1>7, <2>3
  <2> QED BY <2>1, <2>2, <2>4, <2>5, <2>6, <2>7, <2>8, ContentOfChildren
<1> QED BY <1>14, <1>15, <1>16, <1>17, <1>18, <1>19, <1>20, <1>21 DEF IInv

LEMMA BagOfFailures ==
    ASSUME NEW B, IsABag(B), BagToSet(B) \subseteq Entries, NEW e \in Entries
    PROVE  LET C == B (+) SetToBag({e})
           IN  /\ IsABag(C) /\ BagToSet(C) \subseteq Entries
               /\ DOMAIN C = DOMAIN B \cup {e}
<1> DEFINE C == B (+) SetToBag({e})
<1>1. B \in [DOMAIN B -> {n \in Nat : n > 0}] /\ DOMAIN B \subseteq Entries
  BY DEF IsABag, BagToSet
<1>2. SetToBag({e}) = [x \in {e} |-> 1]
  BY DEF SetToBag
<1>3. DOMAIN C = DOMAIN B \cup {e}
  BY <1>2 DEF (+)
<1>4. \A x \in DOMAIN B \cup {e} : C[x] \in {n \in Nat : n > 0}
  BY <1>1, <1>2 DEF (+)
<1>5. C = [x \in DOMAIN C |-> C[x]]
  BY DEF (+)
<1>6. IsABag(C)
  BY <1>3, <1>4, <1>5 DEF IsABag
<1> QED BY <1>1, <1>3, <1>6 DEF BagToSet

LEMMA FailedToUpdateChildKeeps == ASSUME IInv, FailedToUpdateChild PROVE IInv'
<1>1. /\ stack \in Seq(Frames) /\ stack # <<>> /\ Head(stack).op = "fail" /\ Of \in Entries
      /\ active \in Seq(Entries) /\ queued \in Seq(Entries) /\ IsInjective(queued)
      /\ UNCHANGED <<requests, active, tasks, isUpdating, directories, disk, recent, alive, threw>>
      /\ failures' = failures (+) SetToBag({Of})
  BY FrameTypes DEF IInv, Typed, TypeOK, Lists, FailedToUpdateChild, Running, Of
<1>2. PICK s \in Seq(Frames) :
        /\ Becomes(s) /\ \A i \in DOMAIN s : s[i].op = "cancel"
        /\ \/ s = <<>> /\ status' = status /\ queued' = queued
           \/ status' = "failed" /\ queued' = <<>>
  <2> DEFINE u == [i \in DOMAIN active |-> Do("cancel", active[i])]
  <2>1. CASE Becomes(<<>>) /\ status' = status /\ queued' = queued
    <3>1. <<>> \in Seq(Frames) /\ \A i \in DOMAIN <<>> : <<>>[i].op = "cancel"
      OBVIOUS
    <3> QED BY <2>1, <3>1
  <2>2. CASE Becomes(u) /\ status' = "failed" /\ queued' = <<>>
    <3>1. u \in Seq([op : {"cancel"}, of : Entries]) /\ \A i \in DOMAIN u : u[i].op = "cancel"
      BY <1>1, CancelsOfList
    <3>2. [op : {"cancel"}, of : Entries] \subseteq Frames
      BY DEF Frames
    <3>3. u \in Seq(Frames)
      BY <3>1, <3>2, SeqMonotonic
    <3> HIDE DEF u
    <3> QED BY <2>2, <3>1, <3>3
  <2> QED BY <2>1, <2>2 DEF FailedToUpdateChild
<1>3. /\ stack' \in Seq(Frames) /\ Shape(stack', status')
      /\ OfAll(stack', "pop") = OfAll(stack, "pop")
  <2>1. status' = "ok" => status = "ok" /\ \A i \in DOMAIN s : s[i].op \in Inner
    BY <1>2
  <2> QED BY <1>1, <1>2, <2>1, ContinuesShape DEF IInv, Inner, Ending
<1>4. /\ Gets' = Gets /\ Once(stack', "get") /\ Refreshes' = Refreshes /\ Once(stack', "refresh")
      /\ OfAll(stack', "finished") = Finishing /\ Once(stack', "finished")
  BY <1>1, <1>2, Kept DEF IInv, Lists, Finishing, Gets, Refreshes
<1>5. status' = "ok" => /\ OfAll(stack', "cancel") = OfAll(stack, "cancel") /\ status = "ok"
                        /\ Once(stack, "cancel") => Once(stack', "cancel")
  <2> SUFFICES ASSUME status' = "ok"
               PROVE  /\ OfAll(stack', "cancel") = OfAll(stack, "cancel") /\ status = "ok"
                      /\ Once(stack, "cancel") => Once(stack', "cancel")
    OBVIOUS
  <2>1. s = <<>> /\ status = "ok" /\ \A i \in DOMAIN s : s[i].op # "cancel"
    BY <1>2
  <2> QED BY <1>1, <1>2, <2>1, Kept
<1>6. /\ queued' \in Seq(Entries) /\ Queue' \subseteq Queue /\ IsInjective(queued')
      /\ queued' # <<>> => queued' = queued
  <2>1. ToSet(<<>>) = {} /\ <<>> \in Seq(Entries) /\ IsInjective(<<>>)
    BY DEF ToSet, IsInjective
  <2> QED BY <1>1, <1>2, <2>1 DEF Queue
<1>7. InHand' = InHand /\ TaskDirs' = TaskDirs /\ Dead' = Dead
  BY <1>1, <1>3 DEF InHand, TaskDirs, Dead
<1>8. Typed'
  <2>1. IsABag(failures') /\ BagToSet(failures') \subseteq Entries
    BY <1>1, BagOfFailures DEF IInv, Typed, TypeOK
  <2>2. status' \in {"ok", "failed"}
    BY <1>2 DEF IInv, Typed, TypeOK
  <2>3. TypeOK'
    BY <1>1, <1>3, <1>6, <2>1, <2>2, FramesTyped DEF IInv, Typed, TypeOK, ClientTypeOK
  <2> QED BY <1>1, <1>3, <2>3 DEF IInv, Typed
<1>9. Lists'
  BY <1>1, <1>4, <1>6 DEF IInv, Lists, Finishing
<1>10. Order'
  <2>1. Disjoint(Gets, Refreshes, TaskDirs, Queue', requests)
    BY <1>6, LiveAndDead DEF Disjoint
  <2>2. Apart(Gets, Refreshes, TaskDirs, Queue', requests, Dead)
    BY <1>6, <2>1, LiveAndDead, ApartMove
  <2> QED BY <1>1, <1>4, <1>7, <2>2 DEF Order
<1>11. Accounts' /\ Cancels'
  BY <1>1, <1>4, <1>5 DEF IInv, Accounts, Cancels, Finishing
<1>12. Quiet'
  BY <1>1, <1>5, Busy DEF Quiet
<1>13. QueueIsThrottled' /\ TasksHaveTheirDirectory'
  BY <1>1, <1>6 DEF IInv, QueueIsThrottled, TasksHaveTheirDirectory
<1>14. Content'
  <2>1. Asked' \subseteq Asked
    BY <1>1, <1>4, <1>6 DEF Asked
  <2>2. Unharmed' => Unharmed /\ queued' = queued
    <3>1. Unharmed' => Unharmed
      BY <1>1, <1>2, UnharmedBefore
    <3> QED BY <1>2, <3>1 DEF Unharmed
  <2>3. queued' = queued => Asked' = Asked /\ Live' = Live
    BY <1>1, <1>4, <1>7 DEF Asked, Live, Queue
  <2>4. Failed \subseteq Failed'
    <3>1. OfAll(stack', "fail") = OfAll(s, "fail") \cup OfAll(Tail(stack), "fail")
      BY <1>1, <1>2, Continues
    <3>4. OfAll(stack, "fail") = {Of} \cup OfAll(Tail(stack), "fail")
      BY <1>1, OfAllHead DEF Of
    <3>2. OfAll(stack', "failRoot") = OfAll(stack, "failRoot")
      BY <1>1, <1>2, Kept
    <3>3. DOMAIN failures' = DOMAIN failures \cup {Of}
      BY <1>1, BagOfFailures DEF IInv, Typed, TypeOK
    <3> QED BY <3>1, <3>2, <3>3, <3>4 DEF Failed
  <2> QED BY <1>1, <1>4, <1>7, <2>1, <2>2, <2>3, <2>4, ContentStands
<1> QED BY <1>8, <1>9, <1>10, <1>11, <1>12, <1>13, <1>14 DEF IInv

LEMMA FailedToGetRootIndexKeeps == ASSUME IInv, FailedToGetRootIndex PROVE IInv'
<1>1. /\ stack \in Seq(Frames) /\ stack # <<>> /\ Head(stack).op = "failRoot"
      /\ UNCHANGED <<requests, active, queued, tasks, failures, isUpdating, directories, disk,
                     recent, alive, threw>>
      /\ status' = "failed" /\ Becomes(<<>>)
  BY DEF IInv, Typed, FailedToGetRootIndex, Running
<1>2. <<>> \in Seq(Frames) /\ \A i \in DOMAIN <<>> : <<>>[i].op \in Inner /\ <<>>[i].op = "none"
  OBVIOUS
<1>3. /\ stack' \in Seq(Frames) /\ Shape(stack', status')
      /\ OfAll(stack', "pop") = OfAll(stack, "pop")
  BY <1>1, <1>2, ContinuesShape DEF IInv, Inner, Ending
<1>4. /\ Gets' = Gets /\ Once(stack', "get") /\ Refreshes' = Refreshes /\ Once(stack', "refresh")
      /\ OfAll(stack', "finished") = Finishing /\ Once(stack', "finished")
  BY <1>1, <1>2, Kept DEF IInv, Lists, Finishing, Gets, Refreshes
<1>5. InHand' = InHand /\ TaskDirs' = TaskDirs /\ Queue' = Queue /\ Dead' = Dead
  BY <1>1, <1>3 DEF InHand, TaskDirs, Queue, Dead
<1>6. Typed'
  <2>1. TypeOK'
    BY <1>1, <1>3, FramesTyped DEF IInv, Typed, TypeOK, ClientTypeOK
  <2> QED BY <1>1, <1>3, <2>1 DEF IInv, Typed
<1>7. Lists' /\ Accounts'
  BY <1>1, <1>4 DEF IInv, Lists, Accounts, Finishing
<1>8. Order'
  BY <1>1, <1>4, <1>5 DEF IInv, Order
<1>9. Quiet' /\ Cancels'
  BY <1>1 DEF Quiet, Cancels
<1>10. QueueIsThrottled' /\ TasksHaveTheirDirectory'
  BY <1>1 DEF IInv, QueueIsThrottled, TasksHaveTheirDirectory
<1>11. Content'
  <2>1. Asked' = Asked /\ Refreshes' = Refreshes /\ TaskDirs' = TaskDirs /\ disk' = disk
    BY <1>1, <1>4, <1>5 DEF Asked
  <2>2. ~Unharmed'
    BY <1>1 DEF Unharmed
  <2> QED BY <2>1, <2>2, ContentStands
<1> QED BY <1>6, <1>7, <1>8, <1>9, <1>10, <1>11 DEF IInv

LEMMA CancelKeeps == ASSUME IInv, Cancel PROVE IInv'
<1> DEFINE s == <<Do("finished", Of)>>
<1>1. /\ stack \in Seq(Frames) /\ stack # <<>> /\ Head(stack).op = "cancel" /\ Of \in requests
      /\ Becomes(s) /\ requests' = requests \ {Of}
      /\ UNCHANGED <<active, queued, tasks, failures, isUpdating, directories, recent, alive, threw>>
      /\ disk' = (IF Of \in Files THEN [disk EXCEPT ![Of] = "none"] ELSE disk)
      /\ status' = (IF Of = Root THEN "failed" ELSE status)
  BY DEF IInv, Typed, Cancel, CancelRequest, Running
<1>2. Of \in Entries /\ Of \in ToSet(active) /\ Of \notin Finishing
  BY <1>1, LiveAndDead DEF IInv, Lists
<1>3. /\ s \in Seq(Frames) /\ OfAll(s, "finished") = {Of} /\ Once(s, "finished")
      /\ \A i \in DOMAIN s : s[i].op = "finished"
  <2>1. Do("finished", Of) \in Frames
    BY <1>2, FrameOf
  <2>2. Do("finished", Of).op = "finished" /\ Do("finished", Of).of = Of
    BY DEF Do
  <2> QED BY <2>1, <2>2, OfAllOne
<1> HIDE DEF s
<1>4. status' = "ok" => status = "ok" /\ BeingDeleted
  <2>1. status' = "ok" => status = "ok"
    BY <1>1
  <2>2. status = "ok" => \E i \in DOMAIN stack : stack[i].op = "delete"
    <3>1. \E i \in DOMAIN stack : stack[i].op = "cancel"
      BY <1>1
    <3> QED BY <1>1, <3>1, ShapeHead DEF IInv, Typed
  <2> QED BY <2>1, <2>2 DEF BeingDeleted
<1>5. /\ stack' \in Seq(Frames) /\ Shape(stack', status')
      /\ OfAll(stack', "pop") = OfAll(stack, "pop")
  BY <1>1, <1>3, <1>4, ContinuesShape DEF IInv, Inner, Ending
<1>6. Gets' = Gets /\ Once(stack', "get") /\ Refreshes' = Refreshes /\ Once(stack', "refresh")
  BY <1>1, <1>3, Kept DEF IInv, Lists, Gets, Refreshes
<1>7. OfAll(stack', "finished") = Finishing \cup {Of} /\ Once(stack', "finished")
  BY <1>1, <1>2, <1>3, Gained DEF IInv, Lists, Finishing
<1>8. Once(stack, "cancel") => /\ OfAll(stack', "cancel") = OfAll(stack, "cancel") \ {Of}
                               /\ Once(stack', "cancel")
  BY <1>1, <1>3, Dropped
<1>9. InHand' = InHand /\ TaskDirs' = TaskDirs /\ Queue' = Queue /\ Dead' \subseteq Dead \cup {Of}
  BY <1>1, <1>5 DEF InHand, TaskDirs, Queue, Dead
<1>10. Typed'
  <2>1. disk' \in [Entries -> Versions] /\ status' \in {"ok", "failed"}
    BY <1>1 DEF IInv, Typed, TypeOK, Versions
  <2>2. TypeOK'
    BY <1>1, <1>5, <2>1, FramesTyped DEF IInv, Typed, TypeOK, ClientTypeOK
  <2> QED BY <1>1, <1>5, <2>2 DEF IInv, Typed
<1>11. Lists'
  BY <1>1, <1>2, <1>6, <1>7 DEF IInv, Lists, Finishing
<1>12. Order'
  <2>1. Disjoint(Gets, Refreshes, TaskDirs, Queue, requests')
    BY <1>1, LiveAndDead DEF Disjoint
  <2>2. Of \notin Gets /\ Of \notin Refreshes /\ Of \notin TaskDirs /\ Of \notin Queue
    BY <1>1, LiveAndDead DEF Disjoint
  <2>3. Dead' \cap (Gets \cup Refreshes \cup TaskDirs \cup Queue \cup requests') \subseteq Refreshes
    BY <1>1, <1>9, <2>2, LiveAndDead
  <2>4. Apart(Gets, Refreshes, TaskDirs, Queue, requests', Dead')
    BY <1>1, <1>9, <2>1, <2>3, LiveAndDead, ApartMove
  <2> QED BY <1>6, <1>9, <2>4 DEF Order
<1>13. Accounts'
  BY <1>1, <1>7 DEF IInv, Accounts, Finishing
<1>14. Cancels'
  BY <1>1, <1>4, <1>7, <1>8 DEF IInv, Cancels, Finishing
<1>15. Quiet'
  BY <1>1, <1>4, Busy DEF Quiet
<1>16. QueueIsThrottled' /\ TasksHaveTheirDirectory'
  BY <1>1 DEF IInv, QueueIsThrottled, TasksHaveTheirDirectory
<1>17. Content'
  <2>1. /\ disk' \in [Entries -> Versions] /\ \A x \in Entries \ {Of} : disk'[x] = disk[x]
        /\ disk'[Of] = disk[Of] \/ Of \in Files
    BY <1>1 DEF IInv, Typed, TypeOK, Versions
  <2>2. Of \notin Gets /\ Of \notin Queue /\ Of \notin Refreshes /\ Of \notin TaskDirs
    BY <1>1, LiveAndDead DEF Disjoint
  <2>3. Asked' \subseteq Asked \ {Of}
    BY <1>1, <1>6, <1>9, <2>2 DEF Asked
  <2>4. ~Unharmed'
    <3>1. OfAll(stack', "delete") = OfAll(stack, "delete")
      BY <1>1, <1>3, Kept
    <3>2. BeingDeleted => OfAll(stack, "delete") # {}
      BY DEF BeingDeleted, OfAll
    <3> QED BY <1>4, <3>1, <3>2 DEF Unharmed
  <2> QED BY <1>1, <1>6, <1>9, <2>1, <2>2, <2>3, <2>4, ContentOfAnswer
<1> QED BY <1>10, <1>11, <1>12, <1>13, <1>14, <1>15, <1>16, <1>17 DEF IInv

LEMMA CancelNothingKeeps == ASSUME IInv, CancelNothing PROVE IInv'
<1>1. /\ stack \in Seq(Frames) /\ stack # <<>> /\ Head(stack).op = "cancel" /\ Becomes(<<>>)
      /\ UNCHANGED <<requests, active, queued, tasks, failures, status, isUpdating,
                     directories, disk, recent, alive, threw>>
  BY DEF IInv, Typed, CancelNothing, Running
<1>2. /\ <<>> \in Seq(Frames)
      /\ \A i \in DOMAIN <<>> :
            <<>>[i].op \in Inner /\ <<>>[i].op \in Ending /\ <<>>[i].op = "none"
  OBVIOUS
<1>3. /\ stack' \in Seq(Frames) /\ Shape(stack', status')
      /\ OfAll(stack', "pop") = OfAll(stack, "pop")
  BY <1>1, <1>2, ContinuesShape DEF IInv, Inner, Ending
<1>4. /\ Gets' = Gets /\ Once(stack', "get") /\ Refreshes' = Refreshes /\ Once(stack', "refresh")
      /\ OfAll(stack', "finished") = Finishing /\ Once(stack', "finished")
  BY <1>1, <1>2, Kept DEF IInv, Lists, Finishing, Gets, Refreshes
<1>5. Once(stack, "cancel") => /\ OfAll(stack', "cancel") = OfAll(stack, "cancel") \ {Of}
                               /\ Once(stack', "cancel")
  BY <1>1, <1>2, Dropped
<1>6. InHand' = InHand /\ TaskDirs' = TaskDirs /\ Queue' = Queue /\ Dead' = Dead
  BY <1>1, <1>3 DEF InHand, TaskDirs, Queue, Dead
<1>7. Typed'
  <2>1. TypeOK'
    BY <1>1, <1>3, FramesTyped DEF IInv, Typed, TypeOK, ClientTypeOK
  <2> QED BY <1>1, <1>3, <2>1 DEF IInv, Typed
<1>8. Lists' /\ Accounts'
  BY <1>1, <1>4 DEF IInv, Lists, Accounts, Finishing
<1>9. Order'
  BY <1>1, <1>4, <1>6 DEF IInv, Order
<1>10. Quiet'
  BY <1>1, Busy DEF Quiet
<1>11. Cancels'
  BY <1>1, <1>4, <1>5 DEF IInv, Cancels, Finishing
<1>12. QueueIsThrottled' /\ TasksHaveTheirDirectory'
  BY <1>1 DEF IInv, QueueIsThrottled, TasksHaveTheirDirectory
<1>13. Content'
  <2>1. Asked' = Asked /\ Live' = Live
    BY <1>1, <1>4, <1>6 DEF Asked, Live
  <2>2. Unharmed' => Unharmed
    BY <1>1, <1>2, UnharmedBefore
  <2>3. Failed \subseteq Failed'
    BY <1>1, <1>2, FailedStays
  <2> QED BY <1>1, <1>4, <1>6, <2>1, <2>2, <2>3, ContentStands
<1> QED BY <1>7, <1>8, <1>9, <1>10, <1>11, <1>12, <1>13 DEF IInv

LEMMA FinishedRequestKeeps == ASSUME IInv, FinishedRequest PROVE IInv'
<1>1. /\ stack \in Seq(Frames) /\ stack # <<>> /\ Head(stack).op = "finished" /\ Becomes(<<>>)
      /\ UNCHANGED <<tasks, failures, status, directories, disk, recent, alive, threw>>
      /\ isUpdating' = (isUpdating /\ ~(tasks' = <<>> /\ active' = <<>> /\ queued' = <<>>))
      /\ active \in Seq(Entries) /\ queued \in Seq(Entries)
      /\ IsInjective(active) /\ IsInjective(queued)
  BY DEF IInv, Typed, TypeOK, Lists, FinishedRequest, CheckForComplete, Running
<1>2. /\ <<>> \in Seq(Frames)
      /\ \A i \in DOMAIN <<>> :
            <<>>[i].op \in Inner /\ <<>>[i].op \in Ending /\ <<>>[i].op = "none"
  OBVIOUS
<1>3. /\ stack' \in Seq(Frames) /\ Shape(stack', status')
      /\ OfAll(stack', "pop") = OfAll(stack, "pop")
  BY <1>1, <1>2, ContinuesShape DEF IInv, Inner, Ending
<1>4. /\ Gets' = Gets /\ Once(stack', "get") /\ Refreshes' = Refreshes /\ Once(stack', "refresh")
      /\ OfAll(stack', "cancel") = OfAll(stack, "cancel")
      /\ Once(stack, "cancel") => Once(stack', "cancel")
  BY <1>1, <1>2, Kept DEF IInv, Lists, Gets, Refreshes
<1>5. /\ Of \in Finishing /\ OfAll(stack', "finished") = Finishing \ {Of}
      /\ Once(stack', "finished")
  BY <1>1, <1>2, Dropped DEF IInv, Lists, Finishing
<1>6. /\ Of \in ToSet(active) /\ Of \notin requests
  BY <1>5 DEF IInv, Lists
<1> DEFINE others == RemoveFirst(active, Of)
<1>7. /\ others \in Seq(Entries) /\ Len(others) = Len(active) - 1 /\ Len(active) \in Nat
      /\ ToSet(others) = ToSet(active) \ {Of} /\ IsInjective(others)
  BY <1>1, <1>6, InjectiveRemove
<1>8. \/ queued = <<>> /\ active' = others /\ requests' = requests /\ queued' = queued
      \/ /\ queued # <<>> /\ active' = Append(others, Head(queued)) /\ queued' = Tail(queued)
         /\ requests' = requests \cup {Head(queued)}
  BY DEF FinishedRequest, MakeRequest
<1> HIDE DEF others
<1>9. PICK N : /\ N \subseteq Queue /\ N \cap ToSet(active) = {} /\ N \subseteq Entries
               /\ active' \in Seq(Entries) /\ queued' \in Seq(Entries)
               /\ IsInjective(active') /\ IsInjective(queued')
               /\ ToSet(active') = (ToSet(active) \ {Of}) \cup N
               /\ requests' = requests \cup N /\ Queue' = Queue \ N
               /\ Len(active') = Len(others) + (IF N = {} THEN 0 ELSE 1)
               /\ N = {} <=> queued = <<>>
  <2>1. CASE queued = <<>> /\ active' = others /\ requests' = requests /\ queued' = queued
    <3> WITNESS {}
    <3>1. ToSet(active') = (ToSet(active) \ {Of}) \cup {} /\ requests' = requests \cup {}
      BY <1>7, <2>1
    <3>2. Queue' = Queue \ {}
      BY <2>1 DEF Queue
    <3>3. Len(active') = Len(others) + (IF {} = {} THEN 0 ELSE 1)
      BY <1>7, <2>1
    <3> QED BY <1>1, <1>7, <2>1, <3>1, <3>2, <3>3
  <2>2. CASE /\ queued # <<>> /\ active' = Append(others, Head(queued)) /\ queued' = Tail(queued)
             /\ requests' = requests \cup {Head(queued)}
    <3> DEFINE h == Head(queued)
               q == Tail(queued)
    <3>1. /\ h \in Entries /\ q \in Seq(Entries) /\ ToSet(queued) = {h} \cup ToSet(q)
          /\ IsInjective(q) /\ h \notin ToSet(q)
      BY <1>1, <2>2, InjectiveTail
    <3>2. active' = Append(others, h) /\ queued' = q /\ requests' = requests \cup {h}
      BY <2>2
    <3> HIDE DEF h, q
    <3>3. h \in Queue /\ h \notin ToSet(active)
      <4>1. h \in Queue
        BY <3>1 DEF Queue
      <4>2. h \notin requests /\ h \notin Refreshes
        BY <4>1, LiveAndDead DEF Disjoint
      <4>3. h \notin Dead
        BY <4>1, <4>2, LiveAndDead
      <4> QED BY <4>1, <4>2, <4>3 DEF Dead
    <3>4. /\ active' \in Seq(Entries) /\ ToSet(active') = ToSet(others) \cup {h}
          /\ IsInjective(active') /\ Len(active') = Len(others) + 1
      BY <1>7, <3>1, <3>2, <3>3, InjectiveAppend
    <3> WITNESS {h}
    <3>5. ToSet(active') = (ToSet(active) \ {Of}) \cup {h} /\ requests' = requests \cup {h}
      BY <1>7, <3>2, <3>4
    <3>6. Queue' = Queue \ {h}
      BY <3>1, <3>2 DEF Queue
    <3>7. Len(active') = Len(others) + (IF {h} = {} THEN 0 ELSE 1) /\ {h} # {}
      BY <3>4
    <3> QED BY <2>2, <3>1, <3>2, <3>3, <3>4, <3>5, <3>6, <3>7
  <2> QED BY <1>8, <2>1, <2>2
<1>10. /\ InHand' = InHand /\ TaskDirs' = TaskDirs /\ Dead' \subseteq Dead
  BY <1>1, <1>3, <1>9 DEF InHand, TaskDirs, Dead
<1>11. Typed'
  <2>1. requests' \subseteq Requests /\ isUpdating' \in BOOLEAN
    BY <1>1, <1>9, RepositoryAssumption DEF IInv, Typed, TypeOK, ClientTypeOK
  <2>2. TypeOK'
    BY <1>1, <1>3, <1>9, <2>1, FramesTyped DEF IInv, Typed, TypeOK, ClientTypeOK
  <2> QED BY <1>1, <1>3, <2>2 DEF IInv, Typed
<1>12. Lists'
  BY <1>1, <1>4, <1>5, <1>6, <1>9 DEF IInv, Lists, Finishing
<1>13. Order'
  <2>1. Disjoint(Gets, Refreshes, TaskDirs, Queue \ N, requests \cup N)
    BY <1>9, LiveAndDead DEF Disjoint
  <2>2. Apart(Gets, Refreshes, TaskDirs, Queue \ N, requests \cup N, Dead')
    BY <1>9, <1>10, <2>1, LiveAndDead, ApartMove
  <2> QED BY <1>4, <1>9, <1>10, <2>2 DEF Order
<1>14. Accounts'
  BY <1>1, <1>5, <1>9 DEF IInv, Accounts, Finishing
<1>15. Cancels'
  BY <1>1, <1>4, <1>5, <1>9 DEF IInv, Cancels, Finishing
<1>16. Quiet'
  <2> SUFFICES ASSUME status = "ok", ~isUpdating'
               PROVE  /\ active' = <<>> /\ queued' = <<>> /\ tasks' = <<>>
                      /\ \A i \in DOMAIN stack' : stack'[i].op \in {"process", "delete"}
    BY <1>1 DEF Quiet
  <2>1. active' = <<>> /\ queued' = <<>> /\ tasks' = <<>>
    BY <1>1, Busy
  <2>2. ToSet(active') = {}
    BY <2>1 DEF ToSet
  <2>3. OfAll(stack', "cancel") = {} /\ OfAll(stack', "finished") = {}
    BY <1>1, <1>12, <1>15, <2>2 DEF Lists, Cancels, Finishing
  <2>4. \A i \in DOMAIN stack' : stack'[i].op # "cancel" /\ stack'[i].op # "finished"
    BY <2>3 DEF OfAll
  <2>5. CASE \A i \in DOMAIN stack : stack[i].op # "delete"
    <3>1. Tail(stack) = <<>>
      BY <1>1, <2>5, ShapeHead DEF IInv, Typed
    <3>2. stack' = <<>>
      BY <1>1, <3>1 DEF Becomes
    <3> QED BY <2>1, <3>2
  <2>6. CASE \E i \in DOMAIN stack : stack[i].op = "delete"
    <3>1. OfAll(stack, "delete") # {}
      BY <2>6 DEF OfAll
    <3>2. OfAll(stack', "delete") # {}
      BY <1>1, <1>2, <3>1, Kept
    <3>3. \E i \in DOMAIN stack' : stack'[i].op = "delete"
      BY <3>2 DEF OfAll
    <3>4. stack'[Len(stack')].op = "delete"
      BY <1>3, <3>3 DEF Shape
    <3>5. \A i \in DOMAIN stack' : stack'[i].op \in Ending \cup {"delete"}
      BY <1>3, <3>4 DEF Shape
    <3> QED BY <2>1, <2>4, <3>5 DEF Ending
  <2> QED BY <2>5, <2>6
<1>17. QueueIsThrottled'
  <2>1. MaxActive \in Nat /\ Len(active) <= MaxActive /\ (queued # <<>> => Len(active) = MaxActive)
    BY RepositoryAssumption DEF IInv, QueueIsThrottled
  <2>2. queued = <<>> => queued' = <<>>
    BY <1>8
  <2> QED BY <1>7, <1>9, <2>1, <2>2 DEF QueueIsThrottled
<1>18. TasksHaveTheirDirectory'
  BY <1>1 DEF IInv, TasksHaveTheirDirectory
<1>19. Content'
  <2>1. Asked' = Asked
    BY <1>4, <1>9 DEF Asked
  <2>2. Live' = Live
    BY <1>4, <1>10, <2>1 DEF Live
  <2>3. isUpdating' => isUpdating
    BY <1>1
  <2>4. Unharmed' => Unharmed
    BY <1>1, <1>2, <2>3, UnharmedBefore
  <2>5. Failed \subseteq Failed'
    BY <1>1, <1>2, FailedStays
  <2> QED BY <1>1, <1>4, <1>10, <2>1, <2>2, <2>4, <2>5, ContentStands
<1> QED BY <1>11, <1>12, <1>13, <1>14, <1>15, <1>16, <1>17, <1>18, <1>19 DEF IInv

(* process() at the head of the stack is all there is of it.               *)
LEMMA OnlyCall ==
    ASSUME IInv, stack # <<>>, Head(stack).op \in {"process", "delete"}
    PROVE  /\ stack \in Seq(Frames) /\ Tail(stack) = <<>>
           /\ \A op : op # Head(stack).op => OfAll(stack, op) = {}
           /\ Gets = {} /\ Refreshes = {} /\ Finishing = {} /\ InHand = {}
           /\ TaskDirs = OfAll(tasks, "refresh") /\ Dead = ToSet(active) \ requests
<1>1. stack \in Seq(Frames) /\ Tail(stack) = <<>>
  BY ShapeHead DEF IInv, Typed
<1>2. \A op : op # Head(stack).op => OfAll(stack, op) = {}
  <2> SUFFICES ASSUME NEW op, op # Head(stack).op PROVE OfAll(stack, op) = {}
    OBVIOUS
  <2>1. OfAll(stack, op) = OfAll(Tail(stack), op)
    BY <1>1, OfAllHead
  <2>2. OfAll(<<>>, op) = {}
    BY OfAllEmpty
  <2> QED BY <1>1, <2>1, <2>2
<1>3. Gets = {} /\ Refreshes = {} /\ Finishing = {} /\ InHand = {}
  BY <1>2 DEF Gets, Refreshes, Finishing, InHand
<1> QED BY <1>1, <1>2, <1>3 DEF TaskDirs, Dead

LEMMA OnlyCallReplaced ==
    ASSUME IInv, stack # <<>>, Head(stack).op \in {"process", "delete"},
           NEW s \in Seq(Frames), Becomes(s)
    PROVE  stack' = s
<1>1. stack' = s \o <<>>
  BY OnlyCall DEF Becomes
<1>2. s \o <<>> = s
  BY ConcatEmptySeq
<1> QED BY <1>1, <1>2

(* What a task begins with, in front of what process() does afterwards.    *)
LEMMA TaskCalls ==
    ASSUME NEW f \in Frames, f.op \in {"refresh", "fail"}, NEW n \in 1 .. MaxToProcess, NEW verdict
    PROVE  LET u == <<f, Do("pop", n), Do("process", n - 1)>>
           IN  /\ u \in Seq(Frames) /\ Shape(u, verdict)
               /\ OfAll(u, "pop") # {} /\ OfAll(u, f.op) = {f.of} /\ Once(u, f.op)
               /\ \A op : op \notin {f.op, "pop", "process"} => OfAll(u, op) = {} /\ Once(u, op)
               /\ f.op # "refresh" => OfAll(u, "refresh") = {} /\ Once(u, "refresh")
<1> DEFINE u == <<f, Do("pop", n), Do("process", n - 1)>>
<1>0. n \in 1 .. MaxToProcess /\ n - 1 \in 0 .. MaxToProcess
  BY RepositoryAssumption
<1>1. Do("pop", n) \in Frames /\ Do("process", n - 1) \in Frames
  BY <1>0, FrameOf
<1>2. u \in Seq(Frames) /\ Len(u) = 3 /\ DOMAIN u = {1, 2, 3}
  BY <1>1
<1>3. u[1] = f /\ u[2].op = "pop" /\ u[3].op = "process" /\ u[2].of = n
  BY DEF Do
<1> HIDE DEF u
<1>4. Shape(u, verdict)
  <2>1. u[Len(u)].op = "process"
    BY <1>2, <1>3
  <2> SUFFICES ASSUME NEW i \in DOMAIN u
               PROVE  /\ u[i].op \in {"process", "delete"} => i = 3
                      /\ u[i].op = "pop" => i = 2
                      /\ i = 2 => u[i].op = "pop"
                      /\ u[i].op # "cancel" /\ u[i].op # "finished"
    BY <1>2, <2>1 DEF Shape
  <2>2. i = 1 \/ i = 2 \/ i = 3
    BY <1>2
  <2> QED BY <1>3, <2>2
<1>5. OfAll(u, "pop") # {} /\ OfAll(u, f.op) = {f.of} /\ Once(u, f.op)
  BY <1>2, <1>3 DEF OfAll, Once
<1>6. \A op : op \notin {f.op, "pop", "process"} => OfAll(u, op) = {} /\ Once(u, op)
  BY <1>2, <1>3 DEF OfAll, Once
<1>7. f.op # "refresh" => OfAll(u, "refresh") = {} /\ Once(u, "refresh")
  BY <1>2, <1>3 DEF OfAll, Once
<1> QED BY <1>2, <1>4, <1>5, <1>6, <1>7 DEF u

LEMMA RunTaskKeeps == ASSUME IInv, RunTask PROVE IInv'
<1> DEFINE f == Head(tasks)
           u == <<f, Do("pop", Of), Do("process", Of - 1)>>
<1>1. /\ stack \in Seq(Frames) /\ stack # <<>> /\ Head(stack).op = "process"
      /\ tasks \in Seq(Jobs) /\ tasks # <<>> /\ Once(tasks, "refresh") /\ f.op = "refresh" /\ alive
      /\ Of \in 0 .. MaxToProcess /\ Of > 0 /\ Becomes(u)
      /\ UNCHANGED <<requests, active, queued, tasks, failures, status, isUpdating,
                     directories, disk, recent, alive, threw>>
  BY FrameTypes DEF IInv, Typed, TypeOK, Lists, Jobs, RunTask, Running, Of
<1>2. f \in Jobs /\ OfAll(tasks, "refresh") = {f.of} \cup OfAll(Tail(tasks), "refresh")
  BY <1>1, OfAllHead
<1>3. f \in Frames /\ f.of \in Dirs /\ f = Do("refresh", f.of)
  BY <1>1, <1>2 DEF Jobs, Frames, Do
<1>4. Of \in 1 .. MaxToProcess
  BY <1>1, RepositoryAssumption
<1> HIDE DEF f
<1>5. /\ u \in Seq(Frames) /\ Shape(u, status)
      /\ OfAll(u, "pop") # {} /\ OfAll(u, "refresh") = {f.of} /\ Once(u, "refresh")
      /\ OfAll(u, "get") = {} /\ Once(u, "get") /\ OfAll(u, "finished") = {} /\ Once(u, "finished")
      /\ OfAll(u, "cancel") = {} /\ Once(u, "cancel")
  BY <1>1, <1>3, <1>4, TaskCalls
<1> HIDE DEF u
<1>6. stack' = u
  BY <1>1, <1>5, OnlyCallReplaced
<1>7. /\ Gets = {} /\ Refreshes = {} /\ Finishing = {} /\ InHand = {}
      /\ TaskDirs = OfAll(tasks, "refresh") /\ Dead = ToSet(active) \ requests
  BY <1>1, OnlyCall
<1>8. Gets' = {} /\ Refreshes' = {f.of} /\ Queue' = Queue /\ InHand' = {f.of}
  <2>1. InHand' = {d \in Dirs : f = Do("refresh", d)}
    BY <1>1, <1>5, <1>6 DEF InHand, f
  <2>2. \A d \in Dirs : f = Do("refresh", d) => d = f.of
    BY DEF Do
  <2> QED BY <1>1, <1>3, <1>5, <1>6, <2>1, <2>2 DEF Gets, Refreshes, Queue
<1>9. TaskDirs' = TaskDirs \ {f.of} /\ Dead' = Dead \cup {f.of} /\ f.of \in TaskDirs
  BY <1>1, <1>2, <1>7, <1>8 DEF TaskDirs, Dead
<1>10. Typed'
  <2>1. TypeOK'
    BY <1>1, <1>5, <1>6, FramesTyped DEF IInv, Typed, TypeOK, ClientTypeOK
  <2> QED BY <1>1, <1>5, <1>6, <2>1 DEF IInv, Typed
<1>11. Lists' /\ Accounts'
  BY <1>1, <1>5, <1>6, <1>7 DEF IInv, Lists, Accounts, Finishing
<1>12. Order'
  <2>1. Disjoint({}, {f.of}, TaskDirs \ {f.of}, Queue, requests)
    BY <1>9, LiveAndDead DEF Disjoint
  <2>2. Dead \cap (TaskDirs \cup Queue \cup requests) = {}
    BY <1>7, LiveAndDead
  <2>3. Apart({}, {f.of}, TaskDirs \ {f.of}, Queue, requests, Dead \cup {f.of})
    BY <1>9, <2>1, <2>2, LiveAndDead, ApartMove
  <2> QED BY <1>1, <1>8, <1>9, <2>3 DEF Order
<1>13. Quiet'
  BY <1>1 DEF IInv, Quiet
<1>14. Cancels'
  BY <1>5, <1>6 DEF Cancels
<1>15. QueueIsThrottled' /\ TasksHaveTheirDirectory'
  BY <1>1 DEF IInv, QueueIsThrottled, TasksHaveTheirDirectory
<1>16. Content'
  <2>1. Asked' = Asked
    BY <1>1, <1>7, <1>8 DEF Asked
  <2>2. Refreshes' \cup TaskDirs' = Refreshes \cup TaskDirs
    BY <1>7, <1>8, <1>9
  <2>3. Live' = Live
    BY <2>1, <2>2 DEF Live
  <2>4. Unharmed' => Unharmed
    <3>1. OfAll(stack, "delete") = {}
      BY <1>1, OnlyCall
    <3> QED BY <1>1, <3>1 DEF Unharmed
  <2>5. Failed \subseteq Failed'
    BY <1>1, <1>5, FailedStays
  <2> QED BY <1>1, <2>1, <2>2, <2>3, <2>4, <2>5, ContentStands
<1> QED BY <1>10, <1>11, <1>12, <1>13, <1>14, <1>15, <1>16 DEF IInv

LEMMA PopTaskKeeps == ASSUME IInv, PopTask PROVE IInv'
<1>1. /\ stack \in Seq(Frames) /\ stack # <<>> /\ Head(stack).op = "pop"
      /\ tasks \in Seq(Jobs) /\ Once(tasks, "refresh") /\ Becomes(<<>>) /\ tasks' = Tail(tasks)
      /\ UNCHANGED <<requests, active, queued, failures, status, isUpdating,
                     directories, disk, recent, alive, threw>>
  BY DEF IInv, Typed, TypeOK, Lists, Jobs, PopTask, Running
<1>2. tasks # <<>> /\ OfAll(stack, "pop") # {}
  <2>1. \E i \in DOMAIN stack : stack[i].op = "pop"
    BY <1>1
  <2> QED BY <2>1 DEF IInv, Typed, OfAll
<1> DEFINE t == Tail(stack)
           f == Head(tasks)
           rest == Tail(tasks)
<1>3. Len(t) = 1 /\ t \in Seq(Frames) /\ \A i \in DOMAIN t : t[i].op = "process"
  BY <1>1, ShapeHead, HeadTailProperties DEF IInv, Typed
<1>4. stack' = t
  <2>1. \A s \in Seq(Frames) : <<>> \o s = s
    BY ConcatEmptySeq
  <2> QED BY <1>1, <1>3, <2>1 DEF Becomes
<1>5. \A op : op \notin {"pop", "process"} => OfAll(stack, op) = OfAll(t, op)
  BY <1>1, OfAllHead
<1> HIDE DEF t
<1>6. \A op : op # "process" => OfAll(t, op) = {} /\ Once(t, op)
  BY <1>3, OfAllOther
<1>7. Shape(t, status)
  BY <1>3, LenProperties DEF Shape
<1>8. Gets = {} /\ Refreshes = {} /\ Finishing = {}
  BY <1>5, <1>6 DEF Gets, Refreshes, Finishing
<1>9. Gets' = {} /\ Refreshes' = {} /\ Finishing' = {} /\ InHand' = {} /\ Queue' = Queue
  BY <1>1, <1>4, <1>6 DEF Gets, Refreshes, Finishing, InHand, Queue
<1>10. f \in Jobs /\ rest \in Seq(Jobs) /\ Once(rest, "refresh")
  <2>1. f \in Jobs /\ rest \in Seq(Jobs)
    BY <1>1, <1>2, HeadTailProperties
  <2>2. Once(rest, "refresh")
    BY <1>1, <1>2, OnceHead
  <2> QED BY <2>1, <2>2
<1>11. TaskDirs' = TaskDirs /\ Dead' \subseteq Dead
  <2>1. InHand = {d \in Dirs : f = Do("refresh", d)}
    BY <1>2 DEF InHand
  <2>2. OfAll(rest, "refresh") = OfAll(tasks, "refresh") \ InHand
    <3>1. CASE f.op = "refresh"
      <4>1. OfAll(tasks, "refresh") = {f.of} \cup OfAll(rest, "refresh")
        BY <1>1, <1>2, <3>1, OfAllHead
      <4>2. f.of \notin OfAll(rest, "refresh")
        BY <1>1, <1>2, <3>1, OnceHead
      <4>3. InHand = {f.of}
        <5>1. f.of \in Dirs /\ f = Do("refresh", f.of)
          BY <1>10, <3>1 DEF Jobs, Do
        <5>2. \A d \in Dirs : f = Do("refresh", d) => d = f.of
          BY DEF Do
        <5> QED BY <2>1, <5>1, <5>2
      <4> QED BY <4>1, <4>2, <4>3
    <3>2. CASE f.op # "refresh"
      <4>1. OfAll(tasks, "refresh") = OfAll(rest, "refresh")
        BY <1>1, <1>2, <3>2, OfAllHead
      <4>2. InHand = {}
        BY <2>1, <3>2 DEF Do
      <4> QED BY <4>1, <4>2
    <3> QED BY <3>1, <3>2
  <2>3. tasks' = rest
    BY <1>1
  <2> HIDE DEF rest
  <2> QED BY <1>1, <1>9, <2>2, <2>3 DEF TaskDirs, Dead
<1>12. Typed'
  <2>1. tasks' \in Seq([op : {"refresh"}, of : Dirs] \cup [op : {"extract"}, of : Tarballs])
    BY <1>1, <1>10 DEF Jobs
  <2>2. TypeOK'
    BY <1>1, <1>3, <1>4, <2>1, FramesTyped DEF IInv, Typed, TypeOK, ClientTypeOK
  <2> QED BY <1>1, <1>3, <1>4, <1>6, <1>7, <2>2 DEF IInv, Typed
<1>13. Lists' /\ Accounts'
  <2>1. Once(tasks', "refresh")
    BY <1>1, <1>10
  <2> QED BY <1>1, <1>4, <1>6, <1>8, <1>9, <2>1 DEF IInv, Lists, Accounts
<1>14. Order'
  <2>1. Disjoint({}, {}, TaskDirs, Queue, requests)
    BY LiveAndDead DEF Disjoint
  <2>2. Dead' \cap (TaskDirs \cup Queue \cup requests) \subseteq {}
    BY <1>8, <1>11, LiveAndDead
  <2>3. Apart({}, {}, TaskDirs, Queue, requests, Dead')
    BY <1>11, <2>1, <2>2, LiveAndDead, ApartMove
  <2> QED BY <1>1, <1>9, <1>11, <2>3 DEF Order
<1>15. Quiet'
  BY <1>1, Busy DEF Quiet
<1>16. Cancels'
  BY <1>4, <1>6 DEF Cancels
<1>17. QueueIsThrottled'
  BY <1>1 DEF IInv, QueueIsThrottled
<1>18. TasksHaveTheirDirectory'
  <2>1. alive => OfAll(tasks, "refresh") \subseteq directories
    BY DEF IInv, TasksHaveTheirDirectory, OfAll
  <2>2. OfAll(rest, "refresh") \subseteq OfAll(tasks, "refresh")
    <3>1. f.op = "refresh" => OfAll(tasks, "refresh") = {f.of} \cup OfAll(rest, "refresh")
      BY <1>1, <1>2, OfAllHead
    <3>2. f.op # "refresh" => OfAll(tasks, "refresh") = OfAll(rest, "refresh")
      BY <1>1, <1>2, OfAllHead
    <3> QED BY <3>1, <3>2
  <2>3. tasks' = rest
    BY <1>1
  <2> HIDE DEF rest
  <2>4. alive' => OfAll(tasks', "refresh") \subseteq directories'
    BY <1>1, <2>1, <2>2, <2>3
  <2> QED BY <2>4 DEF TasksHaveTheirDirectory, OfAll
<1>19. Content'
  <2>1. Asked' = Asked /\ Live' = Live /\ Refreshes' = Refreshes
    BY <1>1, <1>8, <1>9, <1>11 DEF Asked, Live
  <2>2. <<>> \in Seq(Frames) /\ \A i \in DOMAIN <<>> : <<>>[i].op = "none"
    OBVIOUS
  <2>3. Unharmed' => Unharmed
    BY <1>1, <2>2, UnharmedBefore
  <2>4. Failed \subseteq Failed'
    BY <1>1, <2>2, FailedStays
  <2> QED BY <1>1, <1>11, <2>1, <2>3, <2>4, ContentStands
<1> QED BY <1>12, <1>13, <1>14, <1>15, <1>16, <1>17, <1>18, <1>19 DEF IInv

(* When process() calls nothing that touches the lists.                    *)
LEMMA OnlyCallKeeps ==
    ASSUME IInv, stack # <<>>, Head(stack).op = "process",
           NEW s \in Seq(Frames), Becomes(s), Shape(s, status), OfAll(s, "pop") # {} => tasks # <<>>,
           \A op \in {"get", "refresh", "finished", "cancel"} : OfAll(s, op) = {} /\ Once(s, op),
           OfAll(s, "pop") # {} => Head(tasks).op # "refresh",
           status = "ok" /\ ~isUpdating => s = <<>>,
           isUpdating' \in BOOLEAN, isUpdating' => isUpdating,
           ~isUpdating' /\ isUpdating => s = <<>> /\ active = <<>> /\ queued = <<>> /\ tasks = <<>>,
           UNCHANGED <<requests, active, queued, tasks, failures, status,
                       directories, disk, recent, alive, threw>>
    PROVE  IInv'
<1>1. /\ stack' = s
      /\ UNCHANGED <<requests, active, queued, tasks, failures, status,
                     directories, disk, recent, alive, threw>>
  BY OnlyCallReplaced
<1>2. /\ Gets = {} /\ Refreshes = {} /\ Finishing = {} /\ InHand = {}
      /\ TaskDirs = OfAll(tasks, "refresh") /\ Dead = ToSet(active) \ requests
  BY OnlyCall
<1>3. Gets' = {} /\ Refreshes' = {} /\ Finishing' = {} /\ InHand' = {} /\ Queue' = Queue
  <2>1. Gets' = {} /\ Refreshes' = {} /\ Finishing' = {}
    BY <1>1 DEF Gets, Refreshes, Finishing
  <2>2. InHand' = {}
    <3>1. \A d \in Dirs : Do("refresh", d).op = "refresh"
      BY DEF Do
    <3> QED BY <1>1, <3>1 DEF InHand
  <2> QED BY <1>1, <2>1, <2>2 DEF Queue
<1>4. TaskDirs' = TaskDirs /\ Dead' = Dead
  BY <1>1, <1>2, <1>3 DEF TaskDirs, Dead
<1>5. Typed'
  <2>1. TypeOK'
    BY <1>1, FramesTyped DEF IInv, Typed, TypeOK, ClientTypeOK
  <2> QED BY <1>1, <2>1 DEF IInv, Typed
<1>6. Lists' /\ Accounts'
  BY <1>1, <1>2, <1>3 DEF IInv, Lists, Accounts
<1>7. Order'
  BY <1>1, <1>2, <1>3, <1>4 DEF IInv, Order
<1>8. Quiet'
  <2>1. CASE isUpdating
    BY <1>1, <2>1 DEF Quiet
  <2>2. CASE ~isUpdating
    BY <1>1, <2>2 DEF IInv, Quiet
  <2> QED BY <2>1, <2>2
<1>9. Cancels'
  BY <1>1 DEF Cancels
<1>10. QueueIsThrottled' /\ TasksHaveTheirDirectory'
  BY <1>1 DEF IInv, QueueIsThrottled, TasksHaveTheirDirectory
<1>11. Content'
  <2>1. Asked' = Asked /\ Live' = Live /\ Refreshes' = Refreshes
    BY <1>1, <1>2, <1>3, <1>4 DEF Asked, Live
  <2>2. Unharmed' => Unharmed
    <3>1. OfAll(stack, "delete") = {}
      BY OnlyCall
    <3> QED BY <1>1, <3>1 DEF Unharmed
  <2>3. Failed \subseteq Failed'
    <3>1. OfAll(stack, "fail") = {} /\ OfAll(stack, "failRoot") = {}
      BY OnlyCall
    <3> QED BY <1>1, <3>1 DEF Failed
  <2> QED BY <1>1, <1>4, <2>1, <2>2, <2>3, ContentStands
<1> QED BY <1>5, <1>6, <1>7, <1>8, <1>9, <1>10, <1>11 DEF IInv

LEMMA ExtractMoreKeeps == ASSUME IInv, ExtractMore PROVE IInv'
<1>1. <<>> \in Seq(Frames) /\ Shape(<<>>, status) /\ \A op : OfAll(<<>>, op) = {} /\ Once(<<>>, op)
  BY OfAllEmpty DEF Shape
<1>2. /\ stack # <<>> /\ Head(stack).op = "process" /\ Becomes(<<>>) /\ isUpdating \in BOOLEAN
      /\ isUpdating' = isUpdating
      /\ UNCHANGED <<requests, active, queued, tasks, failures, status,
                     directories, disk, recent, alive, threw>>
  BY DEF IInv, Typed, TypeOK, ExtractMore, Running
<1> QED BY <1>1, <1>2, OnlyCallKeeps

LEMMA ProcessEndsKeeps == ASSUME IInv, ProcessEnds PROVE IInv'
<1>1. <<>> \in Seq(Frames) /\ Shape(<<>>, status) /\ \A op : OfAll(<<>>, op) = {} /\ Once(<<>>, op)
  BY OfAllEmpty DEF Shape
<1>2. /\ stack # <<>> /\ Head(stack).op = "process" /\ Becomes(<<>>)
      /\ isUpdating' = (isUpdating /\ ~(tasks' = <<>> /\ active' = <<>> /\ queued' = <<>>))
      /\ UNCHANGED <<requests, active, queued, tasks, failures, status,
                     directories, disk, recent, alive, threw>>
  BY DEF ProcessEnds, CheckForComplete, Running
<1>3. isUpdating' \in BOOLEAN
  BY <1>2
<1>4. /\ isUpdating' => isUpdating
      /\ ~isUpdating' /\ isUpdating => active = <<>> /\ queued = <<>> /\ tasks = <<>>
  BY <1>2
<1> QED BY <1>1, <1>2, <1>3, <1>4, OnlyCallKeeps

LEMMA OneAndTwo == \A a, b, c : <<a>> \o <<b, c>> = <<a, b, c>>
<1> SUFFICES ASSUME NEW a, NEW b, NEW c PROVE <<a>> \o <<b, c>> = <<a, b, c>>
  OBVIOUS
<1> DEFINE X == {a, b, c}
           s == <<a>>
           t == <<b, c>>
           u == <<a, b, c>>
<1>1. /\ s \in Seq(X) /\ t \in Seq(X) /\ u \in Seq(X) /\ Len(s) = 1 /\ Len(t) = 2 /\ Len(u) = 3
      /\ s[1] = a /\ t[1] = b /\ t[2] = c /\ u[1] = a /\ u[2] = b /\ u[3] = c
  OBVIOUS
<1> HIDE DEF X, s, t, u
<1>2. /\ s \o t \in Seq(X) /\ Len(s \o t) = 3
      /\ \A i \in 1 .. 3 : (s \o t)[i] = IF i <= 1 THEN s[i] ELSE t[i - 1]
  <2>1. /\ s \o t \in Seq(X) /\ Len(s \o t) = Len(s) + Len(t)
        /\ \A i \in 1 .. Len(s) + Len(t) : (s \o t)[i] = IF i <= Len(s) THEN s[i] ELSE t[i - Len(s)]
    BY <1>1, ConcatProperties
  <2>2. Len(s) = 1 /\ Len(s) + Len(t) = 3
    BY <1>1
  <2> QED BY <2>1, <2>2
<1>3. (s \o t)[1] = a /\ (s \o t)[2] = b /\ (s \o t)[3] = c
  BY <1>1, <1>2
<1>4. \A i \in 1 .. 3 : (s \o t)[i] = u[i]
  <2>1. \A i \in 1 .. 3 : i = 1 \/ i = 2 \/ i = 3
    OBVIOUS
  <2> DEFINE w == s \o t
  <2>2. w[1] = a /\ w[2] = b /\ w[3] = c
    BY <1>3
  <2> HIDE DEF w
  <2>3. \A i \in 1 .. 3 : w[i] = u[i]
    BY <1>1, <2>1, <2>2
  <2> QED BY <2>3 DEF w
<1>5. s \o t = u
  BY <1>1, <1>2, <1>4, SeqEqual
<1> QED BY <1>5 DEF s, t, u

LEMMA ExtractEndsKeeps == ASSUME IInv, ExtractEnds PROVE IInv'
<1>1. /\ stack \in Seq(Frames) /\ stack # <<>> /\ Head(stack).op = "process"
      /\ tasks \in Seq(Jobs) /\ tasks # <<>> /\ Head(tasks).op = "extract"
      /\ Of \in 0 .. MaxToProcess /\ Of > 0 /\ isUpdating \in BOOLEAN /\ isUpdating' = isUpdating
      /\ UNCHANGED <<requests, active, queued, tasks, failures, status,
                     directories, disk, recent, alive, threw>>
  BY FrameTypes DEF IInv, Typed, TypeOK, Jobs, ExtractEnds, Running, Of
<1>2. ~(status = "ok" /\ ~isUpdating)
  BY <1>1 DEF IInv, Quiet
<1>3. Of \in 1 .. MaxToProcess
  BY <1>1, RepositoryAssumption
<1> DEFINE f == Do("fail", Parent[Head(tasks).of])
           u == <<Do("pop", Of), Do("process", Of - 1)>>
           v == <<f, Do("pop", Of), Do("process", Of - 1)>>
<1>4. PICK s : Becomes(s) /\ (s = u \/ s = v)
  <2>1. PICK failed \in BOOLEAN :
          Becomes((IF failed THEN <<f>> ELSE <<>>) \o <<Do("pop", Of), Do("process", Of - 1)>>)
    BY DEF ExtractEnds
  <2>2. CASE failed
    <3>1. \A a, b, c : <<a>> \o <<b, c>> = <<a, b, c>>
      BY OneAndTwo
    <3>2. Becomes(<<f>> \o <<Do("pop", Of), Do("process", Of - 1)>>)
      BY <2>1, <2>2
    <3>3. Becomes(v)
      BY <3>1, <3>2
    <3> QED BY <3>3
  <2>3. CASE ~failed
    <3>1. \A b, c : <<>> \o <<b, c>> = <<b, c>>
      OBVIOUS
    <3>2. Becomes(<<>> \o <<Do("pop", Of), Do("process", Of - 1)>>)
      BY <2>1, <2>3
    <3>3. Becomes(u)
      BY <3>1, <3>2
    <3> QED BY <3>3
  <2> QED BY <2>2, <2>3
<1>5. /\ s \in Seq(Frames) /\ Shape(s, status)
      /\ \A op \in {"get", "refresh", "finished", "cancel"} : OfAll(s, op) = {} /\ Once(s, op)
  <2>1. CASE s = v
    <3>1. Head(tasks) \in Jobs
      BY <1>1
    <3>2. Head(tasks).of \in Entries \ {Root} /\ Parent[Head(tasks).of] \in Entries
      BY <1>1, <3>1, RepositoryAssumption DEF Jobs, Entries
    <3>3. f \in Frames /\ f.op = "fail"
      BY <3>2 DEF Frames, Do
    <3> HIDE DEF f
    <3> QED BY <1>3, <2>1, <3>3, TaskCalls
  <2>2. CASE s = u
    <3>1. Do("pop", Of) \in Frames /\ Do("process", Of - 1) \in Frames
      <4>1. Of - 1 \in 0 .. MaxToProcess
        BY <1>3, RepositoryAssumption
      <4> QED BY <1>3, <4>1, FrameOf
    <3>2. u \in Seq(Frames) /\ Len(u) = 2 /\ DOMAIN u = {1, 2}
      BY <3>1
    <3>3. u[1].op = "pop" /\ u[2].op = "process"
      BY DEF Do
    <3> HIDE DEF u
    <3>4. Shape(u, status)
      BY <3>2, <3>3 DEF Shape
    <3>5. \A op \in {"get", "refresh", "finished", "cancel"} : OfAll(u, op) = {} /\ Once(u, op)
      BY <3>2, <3>3 DEF OfAll, Once
    <3> QED BY <2>2, <3>2, <3>4, <3>5
  <2> QED BY <1>4, <2>1, <2>2
<1> QED BY <1>1, <1>2, <1>4, <1>5, OnlyCallKeeps

LEMMA DeletedKeeps == ASSUME IInv, Deleted PROVE IInv'
<1>1. /\ stack # <<>> /\ Head(stack).op = "delete" /\ Becomes(<<>>)
      /\ alive' = FALSE /\ directories' = {}
      /\ UNCHANGED <<requests, active, queued, tasks, failures, status, isUpdating,
                     disk, recent, threw>>
  BY DEF Deleted, Running
<1>2. <<>> \in Seq(Frames) /\ Shape(<<>>, status) /\ \A op : OfAll(<<>>, op) = {} /\ Once(<<>>, op)
  BY OfAllEmpty DEF Shape
<1>3. stack' = <<>>
  BY <1>1, <1>2, OnlyCallReplaced
<1>4. /\ Gets = {} /\ Refreshes = {} /\ Finishing = {} /\ InHand = {}
      /\ TaskDirs = OfAll(tasks, "refresh") /\ Dead = ToSet(active) \ requests
  BY <1>1, OnlyCall
<1>5. Gets' = {} /\ Refreshes' = {} /\ Finishing' = {} /\ InHand' = {} /\ Queue' = Queue
  BY <1>1, <1>2, <1>3 DEF Gets, Refreshes, Finishing, InHand, Queue
<1>6. TaskDirs' = TaskDirs /\ Dead' = Dead
  BY <1>1, <1>4, <1>5 DEF TaskDirs, Dead
<1>7. Typed'
  <2>1. TypeOK'
    BY <1>1, <1>2, <1>3, FramesTyped DEF IInv, Typed, TypeOK, ClientTypeOK
  <2> QED BY <1>1, <1>2, <1>3, <2>1 DEF IInv, Typed
<1>8. Lists' /\ Accounts'
  BY <1>1, <1>2, <1>3, <1>4, <1>5 DEF IInv, Lists, Accounts
<1>9. Order'
  BY <1>1, <1>4, <1>5, <1>6 DEF IInv, Order
<1>10. Quiet' /\ Cancels'
  BY <1>1, <1>2, <1>3 DEF IInv, Quiet, Cancels
<1>11. QueueIsThrottled' /\ TasksHaveTheirDirectory'
  BY <1>1 DEF IInv, QueueIsThrottled, TasksHaveTheirDirectory
<1>12. Content'
  <2>1. Asked' = Asked /\ Refreshes' = Refreshes
    BY <1>1, <1>4, <1>5 DEF Asked
  <2>2. ~Unharmed'
    BY <1>1 DEF Unharmed
  <2> QED BY <1>1, <1>6, <2>1, <2>2, ContentStands
<1> QED BY <1>7, <1>8, <1>9, <1>10, <1>11, <1>12 DEF IInv

LEMMA ContinueKeeps == ASSUME IInv, Continue PROVE IInv'
  BY SkipUpdateDirKeeps, StartRequestKeeps, UpdateChildrenKeeps, FailedToUpdateChildKeeps,
     FailedToGetRootIndexKeeps, CancelKeeps, CancelNothingKeeps, FinishedRequestKeeps,
     RunTaskKeeps, PopTaskKeeps, ExtractMoreKeeps, ExtractEndsKeeps, ProcessEndsKeeps,
     DeletedKeeps DEF Continue

-----------------------------------------------------------------------------
(* The calls from outside keep the invariant.                              *)

LEMMA AtRest ==
    ASSUME IInv, stack = <<>>
    PROVE  /\ Gets = {} /\ Refreshes = {} /\ Finishing = {} /\ InHand = {}
           /\ TaskDirs = OfAll(tasks, "refresh") /\ Dead = ToSet(active) \ requests
<1>1. \A op : OfAll(stack, op) = {}
  BY OfAllEmpty
<1>2. Gets = {} /\ Refreshes = {} /\ Finishing = {} /\ InHand = {}
  BY <1>1 DEF Gets, Refreshes, Finishing, InHand
<1> QED BY <1>2 DEF TaskDirs, Dead

LEMMA UpdateKeeps == ASSUME IInv, Update PROVE IInv'
<1>1. /\ stack = <<>> /\ alive /\ stack' = <<Do("get", Root)>> /\ status' = "ok" /\ isUpdating' = TRUE
      /\ failures' = EmptyBag
      /\ UNCHANGED <<requests, active, queued, tasks, directories, disk, recent, alive, threw>>
  BY DEF Update, Begins
<1>2. active = <<>> /\ queued = <<>> /\ tasks = <<>>
  <2>1. status = "ok" \/ status = "failed"
    BY DEF IInv, Typed, TypeOK
  <2>2. ~isUpdating /\ (status = "failed" => active = <<>> /\ queued = <<>> /\ tasks = <<>>)
    BY DEF Update
  <2> QED BY <2>1, <2>2 DEF IInv, Quiet
<1>3. requests = {} /\ ToSet(active) = {} /\ Queue = {} /\ ~threw
  <2>1. ToSet(active) = {} /\ ToSet(queued) = {}
    BY <1>2 DEF ToSet
  <2> QED BY <2>1 DEF IInv, Lists, Accounts, Queue
<1> DEFINE s == <<Do("get", Root)>>
<1>4. Root \in Entries
  BY RepositoryAssumption DEF Entries
<1>5. /\ s \in Seq(Frames) /\ Len(s) = 1 /\ DOMAIN s = {1} /\ s[1].op = "get" /\ s[1].of = Root
  <2>1. Do("get", Root) \in Frames
    BY <1>4, FrameOf
  <2> QED BY <2>1 DEF Do
<1> HIDE DEF s
<1>6. /\ Shape(s, "ok") /\ OfAll(s, "get") = {Root} /\ Once(s, "get")
      /\ \A op : op # "get" => OfAll(s, op) = {} /\ Once(s, op)
  BY <1>5 DEF Shape, OfAll, Once
<1>7. stack' = s
  BY <1>1 DEF s
<1>8. /\ Gets' = {Root} /\ Refreshes' = {} /\ Finishing' = {} /\ InHand' = {} /\ TaskDirs' = {}
      /\ Queue' = {} /\ Dead' = {} /\ requests' = {}
  <2>1. Gets' = {Root} /\ Refreshes' = {} /\ Finishing' = {} /\ InHand' = {} /\ Queue' = {}
    BY <1>1, <1>3, <1>6, <1>7 DEF Gets, Refreshes, Finishing, InHand, Queue
  <2>2. OfAll(tasks', "refresh") = {}
    BY <1>1, <1>2, OfAllEmpty
  <2> QED BY <1>1, <1>3, <2>1, <2>2 DEF TaskDirs, Dead
<1>9. Typed'
  <2>1. IsABag(failures') /\ BagToSet(failures') \subseteq Entries
    BY <1>1 DEF IsABag, BagToSet, EmptyBag, SetToBag
  <2>2. TypeOK'
    BY <1>1, <1>5, <1>7, <2>1, FramesTyped DEF IInv, Typed, TypeOK, ClientTypeOK
  <2> QED BY <1>1, <1>5, <1>6, <1>7, <2>2 DEF IInv, Typed
<1>10. Lists'
  BY <1>1, <1>3, <1>6, <1>7, <1>8 DEF IInv, Lists
<1>11. Order'
  <2>1. Above[Root] = {Root}
    BY AboveRoot
  <2>2. Apart({Root}, {}, {}, {}, {}, {})
    BY <1>4, <2>1 DEF Apart, Disjoint
  <2> QED BY <1>8, <2>2 DEF Order
<1>12. Accounts'
  BY <1>1, <1>3 DEF Accounts
<1>13. Quiet'
  BY <1>1 DEF Quiet
<1>14. Cancels'
  BY <1>6, <1>7 DEF Cancels
<1>15. QueueIsThrottled' /\ TasksHaveTheirDirectory'
  BY <1>1 DEF IInv, QueueIsThrottled, TasksHaveTheirDirectory
<1>16. Content'
  <2>1. Tree'
    BY <1>1 DEF IInv, Content, Tree
  <2>2. Asked' = {Root} /\ Live' = {Root}
    BY <1>8 DEF Asked, Live
  <2>3. Grounds'
    BY <1>8, <2>2 DEF Grounds
  <2>4. Clean'
    <3>1. \A d \in Dirs : Root \in Above[d]
      BY RepositoryAssumption DEF Entries
    <3>2. \A d \in Dirs : Excused(d)'
      BY <2>2, <3>1 DEF Excused
    <3> QED BY <3>2 DEF Clean
  <2> QED BY <2>1, <2>3, <2>4 DEF Content
<1> QED BY <1>9, <1>10, <1>11, <1>12, <1>13, <1>14, <1>15, <1>16 DEF IInv

(* A call that begins, and has changed nothing yet.                        *)
LEMMA BeginsKeeps ==
    ASSUME IInv, NEW s \in Seq(Frames), Begins(s), Shape(s, status),
           \A op \in {"get", "refresh", "finished", "pop"} : OfAll(s, op) = {} /\ Once(s, op),
           Once(s, "cancel") /\ OfAll(s, "cancel") \subseteq ToSet(active),
           active = <<>> => \A i \in DOMAIN s : s[i].op \in {"process", "delete"},
           recent' \subseteq recent, isUpdating => recent' = recent,
           UNCHANGED <<requests, active, queued, tasks, failures, status, isUpdating,
                       directories, disk, alive, threw>>
    PROVE  IInv'
<1>1. stack = <<>> /\ alive /\ stack' = s
  BY DEF Begins
<1>2. /\ Gets = {} /\ Refreshes = {} /\ Finishing = {} /\ InHand = {}
      /\ TaskDirs = OfAll(tasks, "refresh") /\ Dead = ToSet(active) \ requests
  BY <1>1, AtRest
<1>3. Gets' = {} /\ Refreshes' = {} /\ Finishing' = {} /\ InHand' = {} /\ Queue' = Queue
  BY <1>1 DEF Gets, Refreshes, Finishing, InHand, Queue
<1>4. TaskDirs' = TaskDirs /\ Dead' = Dead
  BY <1>2, <1>3 DEF TaskDirs, Dead
<1>5. Typed'
  <2>1. TypeOK'
    BY <1>1, FramesTyped DEF IInv, Typed, TypeOK, ClientTypeOK
  <2> QED BY <1>1, <2>1 DEF IInv, Typed
<1>6. Lists' /\ Accounts'
  BY <1>1, <1>2, <1>3 DEF IInv, Lists, Accounts
<1>7. Order'
  BY <1>1, <1>2, <1>3, <1>4 DEF IInv, Order
<1>8. Quiet'
  BY <1>1 DEF IInv, Quiet
<1>9. Cancels'
  BY <1>1, <1>3 DEF Cancels
<1>10. QueueIsThrottled' /\ TasksHaveTheirDirectory'
  BY <1>1 DEF IInv, QueueIsThrottled, TasksHaveTheirDirectory
<1>11. Content'
  <2>1. Asked' = Asked /\ Live' = Live /\ Refreshes' = Refreshes
    BY <1>2, <1>3, <1>4 DEF Asked, Live
  <2>2. OfAll(stack, "delete") = {} /\ OfAll(stack, "fail") = {} /\ OfAll(stack, "failRoot") = {}
    BY <1>1, OfAllEmpty
  <2>3. Unharmed' => Unharmed /\ recent' = recent
    BY <2>2 DEF Unharmed
  <2>4. Failed \subseteq Failed'
    BY <2>2 DEF Failed
  <2> QED BY <1>4, <2>1, <2>3, <2>4, ContentStands
<1> QED BY <1>5, <1>6, <1>7, <1>8, <1>9, <1>10, <1>11 DEF IInv

LEMMA ProcessKeeps == ASSUME IInv, Process PROVE IInv'
<1> DEFINE s == <<Do("process", MaxToProcess)>>
<1>1. /\ Begins(s) /\ UNCHANGED <<requests, active, queued, tasks, failures, status, isUpdating,
                                  directories, disk, alive, threw>>
      /\ recent' \subseteq recent /\ (isUpdating => recent' = recent)
  BY DEF Process
<1>2. s \in Seq(Frames) /\ Len(s) = 1 /\ DOMAIN s = {1} /\ s[1].op = "process"
  <2>1. MaxToProcess \in 0 .. MaxToProcess
    BY RepositoryAssumption
  <2>2. Do("process", MaxToProcess) \in Frames
    BY <2>1, FrameOf
  <2> QED BY <2>2 DEF Do
<1> HIDE DEF s
<1>3. /\ Shape(s, status) /\ \A op : op # "process" => OfAll(s, op) = {} /\ Once(s, op)
  BY <1>2 DEF Shape, OfAll, Once
<1>4. \A i \in DOMAIN s : s[i].op \in {"process", "delete"}
  BY <1>2
<1> QED BY <1>1, <1>2, <1>3, <1>4, BeginsKeeps

LEMMA DayPassesKeeps == ASSUME IInv, NEW d, DayPasses(d) PROVE IInv'
<1>1. /\ Begins(<<>>) /\ UNCHANGED <<requests, active, queued, tasks, failures, status, isUpdating,
                                     directories, disk, alive, threw>>
      /\ recent' \subseteq recent /\ (isUpdating => recent' = recent)
  BY DEF DayPasses
<1>2. <<>> \in Seq(Frames) /\ Shape(<<>>, status) /\ \A op : OfAll(<<>>, op) = {} /\ Once(<<>>, op)
  BY OfAllEmpty DEF Shape
<1>3. \A i \in DOMAIN <<>> : <<>>[i].op \in {"process", "delete"}
  OBVIOUS
<1> QED BY <1>1, <1>2, <1>3, BeginsKeeps

LEMMA DeleteKeeps == ASSUME IInv, Delete PROVE IInv'
<1> DEFINE u == [i \in DOMAIN active |-> Do("cancel", active[i])]
           v == <<Do("delete", Root)>>
           s == u \o v
<1>1. /\ Begins(s) /\ UNCHANGED <<requests, active, queued, tasks, failures, status, isUpdating,
                                  directories, disk, alive, threw>>
      /\ recent' \subseteq recent /\ (isUpdating => recent' = recent)
      /\ active \in Seq(Entries) /\ IsInjective(active)
  BY DEF Delete, IInv, Typed, TypeOK, Lists
<1>2. /\ u \in Seq([op : {"cancel"}, of : Entries]) /\ \A i \in DOMAIN u : u[i].op = "cancel"
      /\ OfAll(u, "cancel") = ToSet(active) /\ Once(u, "cancel")
  BY <1>1, CancelsOfList
<1>3. u \in Seq(Frames)
  <2>1. [op : {"cancel"}, of : Entries] \subseteq Frames
    BY DEF Frames
  <2> QED BY <1>2, <2>1, SeqMonotonic
<1>4. v \in Seq(Frames) /\ Len(v) = 1 /\ v[1].op = "delete" /\ DOMAIN v = {1}
  <2>1. Do("delete", Root) \in Frames
    BY FrameOf
  <2> QED BY <2>1 DEF Do
<1> HIDE DEF u, v
<1>5. OfAll(v, "cancel") = {} /\ Once(v, "cancel")
  BY <1>4, OfAllOther
<1>6. s \in Seq(Frames) /\ OfAll(s, "cancel") = ToSet(active) /\ Once(s, "cancel")
  <2>1. s \in Seq(Frames) /\ OfAll(s, "cancel") = OfAll(u, "cancel") \cup OfAll(v, "cancel")
    BY <1>3, <1>4, OfAllConcat
  <2>2. Once(s, "cancel")
    BY <1>2, <1>3, <1>4, <1>5, OfAllConcat
  <2> QED BY <1>2, <1>5, <2>1, <2>2
<1>7. /\ Len(u) \in Nat /\ Len(s) = Len(u) + 1 /\ DOMAIN s = 1 .. Len(u) + 1
      /\ \A i \in 1 .. Len(u) : s[i] = u[i] /\ s[i].op = "cancel"
      /\ s[Len(u) + 1].op = "delete"
  <2>1. /\ Len(s) = Len(u) + Len(v)
        /\ \A i \in 1 .. Len(u) + Len(v) : s[i] = IF i <= Len(u) THEN u[i] ELSE v[i - Len(u)]
    BY <1>3, <1>4, ConcatProperties
  <2>2. Len(u) \in Nat /\ DOMAIN u = 1 .. Len(u) /\ DOMAIN s = 1 .. Len(s)
    BY <1>3, <1>6, LenProperties
  <2>3. (Len(u) + 1) - Len(u) = 1 /\ Len(u) + 1 \in 1 .. Len(u) + 1 /\ ~(Len(u) + 1 <= Len(u))
    BY <2>2
  <2>4. s[Len(u) + 1] = v[1]
    BY <1>4, <2>1, <2>3
  <2> QED BY <1>2, <1>4, <2>1, <2>2, <2>4
<1> HIDE DEF s
<1>8. \A i \in DOMAIN s : \/ i \in 1 .. Len(u) /\ s[i].op = "cancel"
                          \/ i = Len(s) /\ s[i].op = "delete"
  BY <1>7
<1>9. Shape(s, status)
  <2>1. s[Len(s)].op = "delete"
    BY <1>7
  <2> QED BY <1>8, <2>1 DEF Shape, Ending
<1>10. \A op \in {"get", "refresh", "finished", "pop"} : OfAll(s, op) = {} /\ Once(s, op)
  BY <1>8, OfAllOther
<1>11. ASSUME active = <<>> PROVE \A i \in DOMAIN s : s[i].op \in {"process", "delete"}
  <2>1. OfAll(s, "cancel") = {}
    BY <1>6, <1>11 DEF ToSet
  <2> QED BY <1>8, <2>1 DEF OfAll
<1> QED BY <1>1, <1>6, <1>9, <1>10, <1>11, BeginsKeeps

(* An answer: the request is no longer under way, and is to be finished.   *)
LEMMA AnswerKeeps ==
    ASSUME IInv, NEW d, Answered(d), NEW s \in Seq(Frames), Begins(s), Shape(s, status),
           OfAll(s, "finished") = {d}, Once(s, "finished"),
           OfAll(s, "refresh") \subseteq {d}, Once(s, "refresh"),
           \A op \in {"get", "cancel", "pop"} : OfAll(s, op) = {} /\ Once(s, op),
           disk' \in [Entries -> Versions], \A x \in Entries \ {d} : disk'[x] = disk[x],
           disk'[d] = disk[d] \/ disk'[d] = "new" \/ d \in Files,
           OfAll(s, "refresh") = {d} => disk'[d] = "new",
           \/ d \in Files \/ OfAll(s, "refresh") = {d}
           \/ d \in OfAll(s, "fail") \/ d \in OfAll(s, "failRoot"),
           \/ d = Root \/ d \in OfAll(s, "fail") \/ disk'[d] = disk[Parent[d]]
           \/ (RecheckTimeout /\ d \in recent'),
           recent' \subseteq Dirs, recent \subseteq recent',
           IsABag(failures'), DOMAIN failures \ {d} \subseteq DOMAIN failures',
           BagToSet(failures') \subseteq Entries,
           tasks' \in Seq(Jobs), OfAll(tasks', "refresh") = OfAll(tasks, "refresh"),
           Once(tasks', "refresh"),
           UNCHANGED <<active, queued, status, isUpdating, directories, alive, threw>>
    PROVE  IInv'
<1>1. stack = <<>> /\ alive /\ stack' = s /\ d \in requests /\ requests' = requests \ {d}
  BY DEF Begins, Answered
<1>2. d \in ToSet(active)
  BY <1>1 DEF IInv, Lists
<1>3. /\ Gets = {} /\ Refreshes = {} /\ Finishing = {} /\ InHand = {}
      /\ TaskDirs = OfAll(tasks, "refresh") /\ Dead = ToSet(active) \ requests
  BY <1>1, AtRest
<1>4. Gets' = {} /\ Refreshes' \subseteq {d} /\ Finishing' = {d} /\ InHand' = {} /\ Queue' = Queue
  BY <1>1 DEF Gets, Refreshes, Finishing, InHand, Queue
<1>5. TaskDirs' = TaskDirs /\ Dead' = Dead \cup {d}
  BY <1>1, <1>2, <1>3, <1>4 DEF TaskDirs, Dead
<1>6. Typed'
  <2>1. TypeOK'
    BY <1>1, FramesTyped DEF IInv, Typed, TypeOK, ClientTypeOK, Jobs
  <2> QED BY <1>1, <2>1 DEF IInv, Typed
<1>7. Lists' /\ Accounts'
  BY <1>1, <1>2, <1>3, <1>4 DEF IInv, Lists, Accounts
<1>8. Order'
  <2>1. d \notin TaskDirs /\ d \notin Queue /\ Disjoint({}, {}, TaskDirs, Queue, requests)
    BY <1>1, LiveAndDead DEF Disjoint
  <2>2. Disjoint({}, Refreshes', TaskDirs, Queue, requests \ {d})
    BY <1>4, <2>1 DEF Disjoint
  <2>3. Dead \cap (TaskDirs \cup Queue \cup requests) = {}
    BY <1>3, LiveAndDead
  <2>4. (Dead \cup {d}) \cap (Refreshes' \cup TaskDirs \cup Queue \cup (requests \ {d})) \subseteq Refreshes'
    BY <2>1, <2>3
  <2>5. {} \cup Refreshes' \cup TaskDirs \cup Queue \cup (requests \ {d})
            \subseteq Gets \cup Refreshes \cup TaskDirs \cup Queue \cup requests
    BY <1>1, <1>4
  <2>6. Dead \cup {d} \subseteq Dead \cup (Gets \cup Refreshes \cup TaskDirs \cup Queue \cup requests)
    BY <1>1
  <2>7. Apart({}, Refreshes', TaskDirs, Queue, requests \ {d}, Dead \cup {d})
    BY <2>2, <2>4, <2>5, <2>6, LiveAndDead, ApartMove
  <2> QED BY <1>1, <1>4, <1>5, <2>7 DEF Order
<1>9. Quiet'
  <2>1. ToSet(<<>>) = {}
    BY DEF ToSet
  <2>2. ~(status = "ok" /\ ~isUpdating)
    BY <1>2, <2>1 DEF IInv, Quiet
  <2> QED BY <2>2 DEF Quiet
<1>10. Cancels'
  BY <1>1 DEF Cancels
<1>11. QueueIsThrottled'
  BY DEF IInv, QueueIsThrottled
<1>12. TasksHaveTheirDirectory'
  <2>1. alive => OfAll(tasks, "refresh") \subseteq directories
    BY DEF IInv, TasksHaveTheirDirectory, OfAll
  <2>2. alive' => OfAll(tasks', "refresh") \subseteq directories'
    BY <2>1
  <2> QED BY <2>2 DEF TasksHaveTheirDirectory, OfAll
<1>13. Content'
  <2>1. d \notin Queue
    BY <1>1, LiveAndDead DEF Disjoint
  <2>2. /\ Asked' = Asked \ {d} /\ Live \ {d} \subseteq Live' /\ Refreshes' = OfAll(s, "refresh")
        /\ Refreshes' \cup TaskDirs' \subseteq Refreshes \cup TaskDirs \cup {d}
    <3>1. Asked' = Asked \ {d}
      BY <1>1, <1>3, <1>4, <2>1 DEF Asked
    <3>2. Refreshes' = OfAll(s, "refresh")
      BY <1>1 DEF Refreshes
    <3> QED BY <1>3, <1>4, <1>5, <3>1, <3>2 DEF Live
  <2>3. OfAll(stack, "delete") = {} /\ OfAll(stack, "fail") = {} /\ OfAll(stack, "failRoot") = {}
    BY <1>1, OfAllEmpty
  <2>4. Unharmed' => Unharmed
    BY <2>3 DEF Unharmed
  <2>5. /\ Failed \ {d} \subseteq Failed'
        /\ OfAll(s, "fail") \subseteq Failed' /\ OfAll(s, "failRoot") \subseteq Failed'
    BY <1>1, <2>3 DEF Failed
  <2>6. d \notin TaskDirs
    BY <1>1, LiveAndDead DEF Disjoint
  <2>7. d \in Refreshes' \cup TaskDirs' => disk'[d] = "new"
    BY <1>4, <1>5, <2>2, <2>6
  <2>8. d \in Files \/ d \in Live' \/ d \in Failed'
    BY <2>2, <2>5 DEF Live
  <2> QED BY <1>1, <2>2, <2>4, <2>5, <2>7, <2>8, ContentOfAnswer
<1> QED BY <1>6, <1>7, <1>8, <1>9, <1>10, <1>11, <1>12, <1>13 DEF IInv

(* What a callback begins with, in front of finishing the request.         *)
LEMMA AnswerCalls ==
    ASSUME NEW f \in Frames, f.op \in {"refresh", "fail", "failRoot"}, NEW d \in Entries,
           NEW u, u = <<f, Do("finished", d)>>
    PROVE  /\ u \in Seq(Frames) /\ \A verdict : Shape(u, verdict)
           /\ OfAll(u, "finished") = {d} /\ Once(u, "finished") /\ Once(u, "refresh")
           /\ f.op = "refresh" => OfAll(u, "refresh") = {f.of}
           /\ f.op # "refresh" => OfAll(u, "refresh") = {}
           /\ f.of \in OfAll(u, f.op)
           /\ \A op \in {"get", "cancel", "pop", "delete"} : OfAll(u, op) = {} /\ Once(u, op)
<1>1. Do("finished", d) \in Frames
  BY FrameOf
<1>2. /\ u \in Seq(Frames) /\ Len(u) = 2 /\ DOMAIN u = {1, 2}
      /\ u[1] = f /\ u[2].op = "finished" /\ u[2].of = d
  BY <1>1 DEF Do
<1>3. \A verdict : Shape(u, verdict)
  BY <1>2 DEF Shape
<1>4. OfAll(u, "finished") = {d} /\ Once(u, "finished")
  BY <1>2 DEF OfAll, Once
<1>5. f.op = "refresh" => OfAll(u, "refresh") = {f.of}
  BY <1>2 DEF OfAll
<1>6. f.op # "refresh" => OfAll(u, "refresh") = {}
  BY <1>2 DEF OfAll
<1>7. Once(u, "refresh")
  BY <1>2 DEF Once
<1>8. \A op \in {"get", "cancel", "pop", "delete"} : OfAll(u, op) = {} /\ Once(u, op)
  BY <1>2 DEF OfAll, Once
<1>9. f.of \in OfAll(u, f.op)
  BY <1>2 DEF OfAll
<1> QED BY <1>2, <1>3, <1>4, <1>5, <1>6, <1>7, <1>8, <1>9

LEMMA OneAnswerCall ==
    ASSUME NEW d \in Entries, NEW verdict
    PROVE  LET u == <<Do("finished", d)>>
           IN  /\ u \in Seq(Frames) /\ Shape(u, verdict)
               /\ OfAll(u, "finished") = {d} /\ Once(u, "finished")
               /\ \A op : op # "finished" => OfAll(u, op) = {} /\ Once(u, op)
<1> DEFINE u == <<Do("finished", d)>>
<1>1. Do("finished", d) \in Frames
  BY FrameOf
<1>2. u \in Seq(Frames) /\ Len(u) = 1 /\ DOMAIN u = {1} /\ u[1].op = "finished" /\ u[1].of = d
  BY <1>1 DEF Do
<1> HIDE DEF u
<1>3. Shape(u, verdict)
  BY <1>2 DEF Shape
<1>4. OfAll(u, "finished") = {d} /\ Once(u, "finished")
  BY <1>2 DEF OfAll, Once
<1>5. \A op : op # "finished" => OfAll(u, op) = {} /\ Once(u, op)
  BY <1>2 DEF OfAll, Once
<1> QED BY <1>2, <1>3, <1>4, <1>5 DEF u

LEMMA LessFailures ==
    ASSUME NEW e, IsABag(failures), BagToSet(failures) \subseteq Entries
    PROVE  /\ IsABag(WithoutFailures(e)) /\ BagToSet(WithoutFailures(e)) \subseteq Entries
           /\ DOMAIN WithoutFailures(e) = DOMAIN failures \ {e}
<1> DEFINE B == WithoutFailures(e)
<1>1. B = [f \in DOMAIN failures \ {e} |-> failures[f]]
  BY DEF WithoutFailures
<1>2. failures \in [DOMAIN failures -> {n \in Nat : n > 0}] /\ DOMAIN failures \subseteq Entries
  BY DEF IsABag, BagToSet
<1> HIDE DEF B
<1>3. B \in [DOMAIN failures \ {e} -> {n \in Nat : n > 0}] /\ DOMAIN B = DOMAIN failures \ {e}
  BY <1>1, <1>2
<1>4. IsABag(B) /\ BagToSet(B) \subseteq Entries
  BY <1>2, <1>3 DEF IsABag, BagToSet
<1> QED BY <1>3, <1>4 DEF B

LEMMA AnswersKeep == ASSUME IInv, NEW e \in Requests, Answer(e) PROVE IInv'
<1>1. /\ e \in Entries /\ disk \in [Entries -> Versions] /\ recent \subseteq Dirs
      /\ IsABag(failures) /\ BagToSet(failures) \subseteq Entries
      /\ tasks \in Seq(Jobs) /\ Once(tasks, "refresh")
  BY RepositoryAssumption DEF IInv, Typed, TypeOK, Lists, Jobs
<1>2. /\ IsABag(WithoutFailures(e)) /\ BagToSet(WithoutFailures(e)) \subseteq Entries
      /\ DOMAIN WithoutFailures(e) = DOMAIN failures \ {e}
  BY <1>1, LessFailures
<1>3. CASE e \in Dirs /\ (GotIndex(e) \/ IndexNotModified(e))
  <2> DEFINE f == Do("refresh", e)
             s == <<f, Do("finished", e)>>
  <2>1. /\ Answered(e) /\ Begins(s) /\ recent' \subseteq Dirs /\ disk' \in [Entries -> Versions]
        /\ IsABag(failures') /\ BagToSet(failures') \subseteq Entries
        /\ disk'[e] = "new" /\ \A x \in Entries \ {e} : disk'[x] = disk[x]
        /\ DOMAIN failures \ {e} \subseteq DOMAIN failures'
        /\ recent \subseteq recent' /\ e \in recent'
        /\ UNCHANGED <<active, queued, tasks, status, isUpdating, directories, alive, threw>>
    BY <1>1, <1>2, <1>3 DEF GotIndex, IndexNotModified, Versions
  <2>4. e = Root \/ disk'[e] = disk[Parent[e]] \/ RecheckTimeout
    <3>1. CASE GotIndex(e)
      BY <2>1, <3>1 DEF GotIndex, Target
    <3>2. CASE IndexNotModified(e)
      <4>1. e \in Asked
        BY <2>1 DEF Answered, Asked
      <4>2. ~RecheckTimeout /\ e # Root => disk[Parent[e]] = "new"
        BY <4>1 DEF IInv, Content, Grounds
      <4> QED BY <2>1, <4>2
    <3> QED BY <1>3, <3>1, <3>2
  <2>2. f \in Frames /\ f.op = "refresh" /\ f.of = e
    BY <1>3, FrameOf DEF Do
  <2> HIDE DEF f
  <2>3. /\ s \in Seq(Frames) /\ Shape(s, status) /\ OfAll(s, "finished") = {e} /\ Once(s, "finished")
        /\ OfAll(s, "refresh") = {e} /\ Once(s, "refresh")
        /\ \A op \in {"get", "cancel", "pop"} : OfAll(s, op) = {} /\ Once(s, op)
    <3> HIDE DEF s
    <3>1. s = <<f, Do("finished", e)>>
      BY DEF s
    <3>2. s \in Seq(Frames) /\ \A verdict : Shape(s, verdict)
      BY <1>1, <2>2, <3>1, AnswerCalls
    <3>3. OfAll(s, "finished") = {e} /\ Once(s, "finished") /\ Once(s, "refresh")
      BY <1>1, <2>2, <3>1, AnswerCalls
    <3>4. OfAll(s, "refresh") = {e}
      BY <1>1, <2>2, <3>1, AnswerCalls
    <3>5. \A op \in {"get", "cancel", "pop"} : OfAll(s, op) = {} /\ Once(s, op)
      BY <1>1, <2>2, <3>1, AnswerCalls
    <3> QED BY <3>2, <3>3, <3>4, <3>5
  <2> HIDE DEF s
  <2> QED BY <1>1, <2>1, <2>3, <2>4, AnswerKeeps
<1>4. CASE NoIndex(e) \/ (e \in Files /\ NoFile(e))
  <2>1. PICK f \in {Do("fail", e), Do("failRoot", Root)} :
           /\ Answered(e) /\ Begins(<<f, Do("finished", e)>>) /\ disk' \in [Entries -> Versions]
           /\ f = Do("fail", e) \/ e = Root
           /\ \A x \in Entries \ {e} : disk'[x] = disk[x]
           /\ disk'[e] = disk[e] \/ e \in Files
           /\ UNCHANGED <<active, queued, tasks, failures, status, isUpdating, directories, recent,
                          alive, threw>>
    <3>1. CASE NoIndex(e)
      BY <1>1, <3>1 DEF NoIndex, FailedToUpdate
    <3>2. CASE e \in Files /\ NoFile(e)
      <4>1. PICK v \in Versions : disk' = [disk EXCEPT ![e] = v]
        <5>1. disk[e] \in Versions
          BY <1>1
        <5> QED BY <3>2, <5>1 DEF NoFile, Versions
      <4>2. disk' \in [Entries -> Versions] /\ \A x \in Entries \ {e} : disk'[x] = disk[x]
        BY <1>1, <4>1
      <4> QED BY <3>2, <4>2 DEF NoFile
    <3> QED BY <1>4, <3>1, <3>2
  <2>2. f \in Frames /\ f.op \in {"fail", "failRoot"} /\ f.of = e /\ (f.op = "fail" \/ e = Root)
    <3>1. Do("fail", e) \in Frames /\ Do("failRoot", Root) \in Frames
      BY <1>1, FrameOf
    <3>2. /\ Do("fail", e).op = "fail" /\ Do("failRoot", Root).op = "failRoot"
          /\ Do("fail", e).of = e /\ Do("failRoot", Root).of = Root
      BY DEF Do
    <3> QED BY <2>1, <3>1, <3>2
  <2> DEFINE s == <<f, Do("finished", e)>>
  <2>3. /\ s \in Seq(Frames) /\ Shape(s, status) /\ OfAll(s, "finished") = {e} /\ Once(s, "finished")
        /\ OfAll(s, "refresh") = {} /\ Once(s, "refresh")
        /\ e \in OfAll(s, "fail") \/ (e = Root /\ e \in OfAll(s, "failRoot"))
        /\ \A op \in {"get", "cancel", "pop"} : OfAll(s, op) = {} /\ Once(s, op)
    <3> HIDE DEF s
    <3>1. s = <<f, Do("finished", e)>>
      BY DEF s
    <3>2. s \in Seq(Frames) /\ \A verdict : Shape(s, verdict)
      BY <1>1, <2>2, <3>1, AnswerCalls
    <3>3. OfAll(s, "finished") = {e} /\ Once(s, "finished") /\ Once(s, "refresh")
      BY <1>1, <2>2, <3>1, AnswerCalls
    <3>4. OfAll(s, "refresh") = {}
      BY <1>1, <2>2, <3>1, AnswerCalls
    <3>5. \A op \in {"get", "cancel", "pop"} : OfAll(s, op) = {} /\ Once(s, op)
      BY <1>1, <2>2, <3>1, AnswerCalls
    <3>6. e \in OfAll(s, "fail") \/ (e = Root /\ e \in OfAll(s, "failRoot"))
      BY <1>1, <2>2, <3>1, AnswerCalls
    <3> QED BY <3>2, <3>3, <3>4, <3>5, <3>6
  <2> HIDE DEF s
  <2>4. Begins(s)
    BY <2>1 DEF s
  <2> QED BY <1>1, <2>1, <2>3, <2>4, AnswerKeeps
<1>5. CASE e \in Files /\ GotFile(e)
  <2> DEFINE s == <<Do("finished", e)>>
  <2>1. /\ Answered(e) /\ Begins(s) /\ recent' \subseteq Dirs /\ disk' \in [Entries -> Versions]
        /\ IsABag(failures') /\ BagToSet(failures') \subseteq Entries
        /\ disk'[e] = "new" /\ \A x \in Entries \ {e} : disk'[x] = disk[x]
        /\ DOMAIN failures \ {e} \subseteq DOMAIN failures' /\ recent' = recent
        /\ e = Root \/ disk'[e] = disk[Parent[e]]
        /\ UNCHANGED <<active, queued, status, isUpdating, directories, alive, threw>>
    BY <1>1, <1>2, <1>5 DEF GotFile, Versions, Target
  <2>2. /\ s \in Seq(Frames) /\ Shape(s, status) /\ OfAll(s, "finished") = {e} /\ Once(s, "finished")
        /\ OfAll(s, "refresh") = {} /\ Once(s, "refresh")
        /\ \A op \in {"get", "cancel", "pop"} : OfAll(s, op) = {} /\ Once(s, op)
    BY <1>1, OneAnswerCall
  <2> HIDE DEF s
  <2>3. /\ tasks' \in Seq(Jobs) /\ OfAll(tasks', "refresh") = OfAll(tasks, "refresh")
        /\ Once(tasks', "refresh")
    <3>1. CASE tasks' = tasks
      BY <1>1, <3>1
    <3>2. CASE \E t \in Tarballs : tasks' = Append(tasks, Do("extract", t))
      <4>1. PICK t \in Tarballs : tasks' = Append(tasks, Do("extract", t))
        BY <3>2
      <4> DEFINE j == Do("extract", t)
      <4>2. j \in Jobs /\ j.op # "refresh"
        BY DEF Do, Jobs
      <4> HIDE DEF j
      <4>3. <<j>> \in Seq(Jobs)
        BY <4>2
      <4>7. tasks' = tasks \o <<j>>
        BY <1>1, <4>1, <4>2, AppendIsConcat DEF j
      <4>4. OfAll(<<j>>, "refresh") = {} /\ Once(<<j>>, "refresh")
        BY <4>2, OfAllOne
      <4>5. tasks \o <<j>> \in Seq(Jobs) /\ Once(tasks \o <<j>>, "refresh")
        BY <1>1, <4>3, <4>4, OfAllConcat
      <4> DEFINE b == <<j>>
      <4> HIDE DEF b
      <4>8. b \in Seq(Jobs)
        BY <4>3 DEF b
      <4>9. OfAll(tasks \o b, "refresh") = OfAll(tasks, "refresh") \cup OfAll(b, "refresh")
        BY <1>1, <4>8, OfAllConcat
      <4>6. OfAll(tasks \o <<j>>, "refresh") = OfAll(tasks, "refresh") \cup OfAll(<<j>>, "refresh")
        BY <4>9 DEF b
      <4> QED BY <4>4, <4>5, <4>6, <4>7
    <3> QED BY <1>5, <3>1, <3>2 DEF GotFile
  <2> QED BY <1>5, <2>1, <2>2, <2>3, AnswerKeeps
<1> QED BY <1>3, <1>4, <1>5 DEF Answer

LEMMA CannotWriteIndexKeeps == ASSUME IInv, NEW d \in Dirs, CannotWriteIndex(d) PROVE IInv'
<1>1. /\ stack = <<>> /\ alive /\ d \in requests /\ requests' = requests \ {d} /\ threw' = TRUE
      /\ disk' = disk \/ disk' = [disk EXCEPT ![d] = "new"]
      /\ recent' = recent \/ recent' = recent \cup {d}
      /\ UNCHANGED <<active, queued, tasks, failures, status, isUpdating, directories, alive>>
  BY DEF CannotWriteIndex, Begins, Answered
<1>2. stack' = <<>>
  BY DEF CannotWriteIndex, Begins
<1>3. <<>> \in Seq(Frames) /\ \A op : OfAll(<<>>, op) = {} /\ Once(<<>>, op)
  BY OfAllEmpty
<1>4. d \in ToSet(active)
  BY <1>1 DEF IInv, Lists
<1>5. /\ Gets = {} /\ Refreshes = {} /\ Finishing = {} /\ InHand = {}
      /\ TaskDirs = OfAll(tasks, "refresh") /\ Dead = ToSet(active) \ requests
  BY <1>1, AtRest
<1>6. Gets' = {} /\ Refreshes' = {} /\ Finishing' = {} /\ InHand' = {} /\ Queue' = Queue
  BY <1>1, <1>2, <1>3 DEF Gets, Refreshes, Finishing, InHand, Queue
<1>7. TaskDirs' = TaskDirs /\ Dead' = Dead \cup {d}
  BY <1>1, <1>4, <1>5, <1>6 DEF TaskDirs, Dead
<1>8. Typed'
  <2>1. disk' \in [Entries -> Versions] /\ recent' \subseteq Dirs
    BY <1>1 DEF IInv, Typed, TypeOK, Versions
  <2>2. TypeOK'
    BY <1>1, <1>2, <1>3, <2>1, FramesTyped DEF IInv, Typed, TypeOK, ClientTypeOK
  <2> QED BY <1>1, <1>2, <1>3, <2>2 DEF IInv, Typed, Shape
<1>9. Lists' /\ Accounts'
  BY <1>1, <1>2, <1>3, <1>4, <1>6 DEF IInv, Lists, Accounts
<1>10. Order'
  <2>1. d \notin TaskDirs /\ d \notin Queue /\ Disjoint({}, {}, TaskDirs, Queue, requests)
    BY <1>1, LiveAndDead DEF Disjoint
  <2>2. Disjoint({}, {}, TaskDirs, Queue, requests \ {d})
    BY <2>1 DEF Disjoint
  <2>3. Dead \cap (TaskDirs \cup Queue \cup requests) = {}
    BY <1>5, LiveAndDead
  <2>4. (Dead \cup {d}) \cap (TaskDirs \cup Queue \cup (requests \ {d})) \subseteq {}
    BY <2>1, <2>3
  <2>5. Dead \cup {d} \subseteq Dead \cup (Gets \cup Refreshes \cup TaskDirs \cup Queue \cup requests)
    BY <1>1
  <2>6. Apart({}, {}, TaskDirs, Queue, requests \ {d}, Dead \cup {d})
    BY <2>2, <2>4, <2>5, LiveAndDead, ApartMove
  <2> QED BY <1>1, <1>6, <1>7, <2>6 DEF Order
<1>11. Quiet'
  <2>1. ToSet(<<>>) = {}
    BY DEF ToSet
  <2>2. ~(status = "ok" /\ ~isUpdating)
    BY <1>4, <2>1 DEF IInv, Quiet
  <2> QED BY <1>1, <2>2 DEF Quiet
<1>12. Cancels'
  BY <1>2, <1>3 DEF Cancels
<1>13. QueueIsThrottled' /\ TasksHaveTheirDirectory'
  BY <1>1 DEF IInv, QueueIsThrottled, TasksHaveTheirDirectory
<1>14. Content'
  <2>1. d \notin TaskDirs /\ d \notin Queue
    BY <1>1, LiveAndDead DEF Disjoint
  <2>2. Asked' \subseteq Asked \ {d} /\ Refreshes' = Refreshes /\ d \notin Refreshes'
    BY <1>1, <1>5, <1>6, <2>1 DEF Asked
  <2>3. /\ disk' \in [Entries -> Versions] /\ \A x \in Entries \ {d} : disk'[x] = disk[x]
        /\ disk'[d] = disk[d] \/ disk'[d] = "new"
    BY <1>1 DEF IInv, Typed, TypeOK, Versions, Entries
  <2>4. ~Unharmed'
    BY <1>1 DEF Unharmed
  <2> QED BY <1>1, <1>7, <2>1, <2>2, <2>3, <2>4, ContentOfAnswer
<1> QED BY <1>8, <1>9, <1>10, <1>11, <1>12, <1>13, <1>14 DEF IInv

-----------------------------------------------------------------------------
LEMMA InitEstablishes == Init => IInv
<1> SUFFICES ASSUME Init PROVE IInv
  OBVIOUS
<1>1. /\ requests = {} /\ active = <<>> /\ queued = <<>> /\ tasks = <<>> /\ failures = EmptyBag
      /\ status = "ok" /\ isUpdating = FALSE /\ directories = {} /\ alive = TRUE /\ threw = FALSE
      /\ disk \in [Entries -> Versions] /\ recent \subseteq Dirs
  BY DEF Init, ClientInit, Versions
<1>2. stack = <<>>
  BY DEF Init
<1>3. <<>> \in Seq(Frames) /\ \A op : OfAll(<<>>, op) = {} /\ Once(<<>>, op)
  BY OfAllEmpty
<1>4. ToSet(<<>>) = {} /\ IsInjective(<<>>)
  BY DEF ToSet, IsInjective
<1>5. /\ Gets = {} /\ Refreshes = {} /\ Finishing = {} /\ InHand = {} /\ TaskDirs = {}
      /\ Queue = {} /\ Dead = {}
  BY <1>1, <1>2, <1>3, <1>4 DEF Gets, Refreshes, Finishing, InHand, TaskDirs, Queue, Dead
<1>6. Typed
  <2>1. IsABag(failures) /\ BagToSet(failures) \subseteq Entries
    BY <1>1 DEF IsABag, BagToSet, EmptyBag, SetToBag
  <2>2. stack \in Seq([op : Ops, of : Entries \cup 0 .. MaxToProcess])
    BY <1>2
  <2>3. /\ active \in Seq(Entries) /\ queued \in Seq(Entries)
        /\ tasks \in Seq([op : {"refresh"}, of : Dirs] \cup [op : {"extract"}, of : Tarballs])
    BY <1>1
  <2>4. TypeOK
    BY <1>1, <2>1, <2>2, <2>3 DEF TypeOK, ClientTypeOK
  <2> QED BY <1>2, <1>3, <2>4 DEF Typed, Shape
<1>7. Lists
  BY <1>1, <1>2, <1>3, <1>4, <1>5 DEF Lists
<1>8. Order
  BY <1>1, <1>5 DEF Order, Apart, Disjoint
<1>9. Accounts /\ Quiet /\ Cancels
  BY <1>1, <1>2, <1>3, <1>4, <1>5 DEF Accounts, Quiet, Cancels
<1>10. QueueIsThrottled /\ TasksHaveTheirDirectory
  BY <1>1, RepositoryAssumption DEF QueueIsThrottled, TasksHaveTheirDirectory
<1>11. Content
  <2>1. Tree
    BY DEF Init, Tree
  <2>2. Grounds
    BY <1>1, <1>5 DEF Grounds, Asked
  <2>3. Clean
    BY <1>1 DEF Clean, Unharmed
  <2> QED BY <2>1, <2>2, <2>3 DEF Content
<1> QED BY <1>6, <1>7, <1>8, <1>9, <1>10, <1>11 DEF IInv

LEMMA NextKeeps == IInv /\ [Next]_vars => IInv'
<1> SUFFICES ASSUME IInv, [Next]_vars PROVE IInv'
  OBVIOUS
<1>1. CASE Next
  BY <1>1, ContinueKeeps, UpdateKeeps, ProcessKeeps, DeleteKeeps, AnswersKeep,
     CannotWriteIndexKeeps, DayPassesKeeps DEF Next
<1>2. CASE UNCHANGED vars
  BY <1>2 DEF vars, IInv, Typed, TypeOK, ClientTypeOK, Lists, Order, Accounts, Quiet, Cancels,
              QueueIsThrottled, TasksHaveTheirDirectory, Gets, Refreshes, InHand, TaskDirs,
              Queue, Dead, Finishing, Content, Tree, Grounds, Clean, Unharmed, Excused, Settled,
              Asked, Live, Failed, Orphans, Children, Current
<1> QED BY <1>1, <1>2

LEMMA Invariant == Spec => []IInv
<1> QED BY InitEstablishes, NextKeeps, PTL DEF Spec

(* Every variable has its type; between the call stack and the tasks only  *)
(* calls that HTTPRepository makes are ever pending.                       *)
THEOREM TypeCorrect == Spec => []TypeOK
<1>1. IInv => TypeOK
  BY DEF IInv, Typed
<1> QED BY <1>1, Invariant, PTL

(* The queue of HTTPRepoPrivate: never more requests under way than        *)
(* allowed, and none waits while there is room for it.                     *)
THEOREM RequestsAreThrottled == Spec => []QueueIsThrottled
<1>1. IInv => QueueIsThrottled
  BY DEF IInv
<1> QED BY <1>1, Invariant, PTL

(* A task of the queue finds the directory it points to, whatever orphans  *)
(* have been removed since it was scheduled.                               *)
THEOREM NoTaskOutlivesItsDirectory == Spec => []TasksHaveTheirDirectory
<1>1. IInv => TasksHaveTheirDirectory
  BY DEF IInv
<1> QED BY <1>1, Invariant, PTL

(* Between calls the repository and the client agree on what is under way, *)
(* and no entry is requested twice, neither from two directories nor by a  *)
(* second look at one.                                                     *)
THEOREM RepositoryAndClientAgree == Spec => []EveryActiveRequestIsUnderWay
<1>1. ASSUME IInv PROVE stack = <<>> /\ alive /\ ~threw => ToSet(active) = requests
  <2> SUFFICES ASSUME stack = <<>>, ~threw PROVE ToSet(active) = requests
    OBVIOUS
  <2>1. Finishing = {}
    BY <1>1, AtRest
  <2> QED BY <1>1, <2>1 DEF IInv, Accounts, Lists
<1>2. ASSUME IInv PROVE IsInjective(active \o queued)
  <2>1. /\ active \in Seq(Entries) /\ queued \in Seq(Entries)
        /\ IsInjective(active) /\ IsInjective(queued)
    BY <1>2 DEF IInv, Typed, TypeOK, Lists
  <2>2. Queue \cap requests = {} /\ Queue \cap Refreshes = {} /\ Dead \cap Queue \subseteq Refreshes
    BY <1>2, LiveAndDead DEF Disjoint
  <2>3. ToSet(active) \cap ToSet(queued) = {}
    BY <2>2 DEF Dead, Queue
  <2> QED BY <2>1, <2>3, InjectiveConcat
<1>3. IInv => EveryActiveRequestIsUnderWay
  BY <1>1, <1>2 DEF EveryActiveRequestIsUnderWay
<1> QED BY <1>3, Invariant, PTL

-----------------------------------------------------------------------------
(* The refinement of RepositorySync.                                       *)

Verdict == IF IsDoingSync THEN "syncing"
           ELSE IF status = "ok" /\ failures = EmptyBag THEN "clean" ELSE "failed"

LEMMA VerdictIs ==
    /\ IsDoingSync => Verdict = "syncing"
    /\ ~IsDoingSync => Verdict \in {"clean", "failed"}
    /\ status # "ok" => Verdict = "failed"
  BY DEF Verdict, IsDoingSync

LEMMA VerdictIsNext ==
    /\ IsDoingSync' => Verdict' = "syncing"
    /\ ~IsDoingSync' => Verdict' \in {"clean", "failed"}
    /\ status' # "ok" => Verdict' = "failed"
  BY DEF Verdict, IsDoingSync

(* What does not start a sync ends one or leaves the verdict, as long as   *)
(* failures are only counted in a sync, or after one has failed.           *)
LEMMA VerdictStands ==
    ASSUME status' = status \/ status' # "ok", isUpdating' => isUpdating,
           (status' = status /\ failures' = failures) \/ ~(status = "ok" /\ ~isUpdating)
    PROVE  [Promise!Next]_Verdict
<1>1. CASE IsDoingSync
  <2>1. CASE IsDoingSync'
    BY <1>1, <2>1, VerdictIs, VerdictIsNext
  <2>2. CASE ~IsDoingSync'
    <3>1. Promise!End
      BY <1>1, <2>2, VerdictIs, VerdictIsNext DEF Promise!End, Verdict
    <3> QED BY <3>1 DEF Promise!Next
  <2> QED BY <2>1, <2>2
<1>2. CASE status # "ok"
  <2>1. status' # "ok"
    BY <1>2
  <2> QED BY <1>2, <2>1, VerdictIs, VerdictIsNext
<1>3. CASE status = "ok" /\ ~isUpdating
  <2>1. failures' = failures /\ status' = status /\ ~IsDoingSync /\ ~IsDoingSync'
    BY <1>3 DEF IsDoingSync
  <2> QED BY <1>3, <2>1 DEF Verdict
<1> QED BY <1>1, <1>2, <1>3 DEF IsDoingSync

LEMMA ContinueStands == ASSUME IInv, Continue PROVE [Promise!Next]_Verdict
<1>1. stack # <<>>
  BY DEF Continue, SkipUpdateDir, StartRequest, UpdateChildren, FailedToUpdateChild,
         FailedToGetRootIndex, Cancel, CancelNothing, FinishedRequest, RunTask, PopTask,
         ExtractMore, ExtractEnds, ProcessEnds, Deleted, Running
<1>2. isUpdating' => isUpdating
  <2>1. CheckForComplete => (isUpdating' => isUpdating)
    BY DEF CheckForComplete
  <2>2. CheckForComplete \/ isUpdating' = isUpdating
    BY DEF Continue, SkipUpdateDir, StartRequest, UpdateChildren, FailedToUpdateChild,
           FailedToGetRootIndex, Cancel, CancelNothing, FinishedRequest, RunTask, PopTask,
           ExtractMore, ExtractEnds, ProcessEnds, Deleted
  <2> QED BY <2>1, <2>2
<1>3. CASE Head(stack).op \notin {"process", "delete"}
  <2>1. ~(status = "ok" /\ ~isUpdating)
    BY <1>1, <1>3, Busy
  <2>2. status' = status \/ status' # "ok"
    BY DEF Continue, SkipUpdateDir, StartRequest, UpdateChildren, FailedToUpdateChild,
           FailedToGetRootIndex, Cancel, CancelNothing, FinishedRequest, RunTask, PopTask,
           ExtractMore, ExtractEnds, ProcessEnds, Deleted
  <2> QED BY <1>2, <2>1, <2>2, VerdictStands
<1>4. CASE Head(stack).op \in {"process", "delete"}
  <2>1. RunTask \/ ExtractMore \/ ExtractEnds \/ ProcessEnds \/ Deleted
    BY <1>4 DEF Continue, SkipUpdateDir, StartRequest, UpdateChildren, FailedToUpdateChild,
           FailedToGetRootIndex, Cancel, CancelNothing, FinishedRequest, PopTask, Running
  <2>2. status' = status /\ failures' = failures
    BY <2>1 DEF RunTask, ExtractMore, ExtractEnds, ProcessEnds, Deleted
  <2> QED BY <1>2, <2>2, VerdictStands
<1> QED BY <1>3, <1>4

(* An update() begins a sync, for there is none.                           *)
LEMMA UpdateBegins == ASSUME Update PROVE Promise!Begin
<1>1. ~IsDoingSync /\ IsDoingSync'
  BY DEF Update, IsDoingSync
<1>2. Verdict # "syncing" /\ Verdict' = "syncing"
  BY <1>1, VerdictIs, VerdictIsNext
<1> QED BY <1>2 DEF Promise!Begin, Verdict

(* A request is answered while a sync goes on, or after one has failed.    *)
LEMMA AnswersStand ==
    ASSUME IInv, NEW e, Answer(e) PROVE [Promise!Next]_Verdict
<1>1. status' = status /\ isUpdating' = isUpdating /\ e \in requests
  BY DEF Answer, GotIndex, IndexNotModified, NoIndex, GotFile, NoFile, Answered
<1>2. ~(status = "ok" /\ ~isUpdating)
  <2>1. e \in ToSet(active)
    BY <1>1 DEF IInv, Lists
  <2>2. ToSet(<<>>) = {}
    BY DEF ToSet
  <2> QED BY <2>1, <2>2 DEF IInv, Quiet
<1> QED BY <1>1, <1>2, VerdictStands

LEMMA NextStands == ASSUME IInv, [Next]_vars PROVE [Promise!Next]_Verdict
<1>1. CASE Update
  BY <1>1, UpdateBegins DEF Promise!Next
<1>2. CASE \E e \in Requests : Answer(e)
  BY <1>2, AnswersStand
<1>3. CASE Process \/ Delete \/ (\E d \in Dirs : CannotWriteIndex(d) \/ DayPasses(d)) \/ UNCHANGED vars
  <2>1. status' = status /\ failures' = failures /\ isUpdating' = isUpdating
    BY <1>3 DEF Process, Delete, CannotWriteIndex, DayPasses, vars
  <2> QED BY <2>1, VerdictStands
<1> QED BY <1>1, <1>2, <1>3, ContinueStands DEF Next

(* What TerraSync relies on: a verdict stands until the next update();     *)
(* HTTPRepository implements RepositorySync.                               *)
THEOREM RepositoryKeepsItsPromise == Spec => KeepsPromise
<1>1. Init => Promise!Init
  BY DEF Init, Promise!Init, IsDoingSync
<1>2. IInv /\ [Next]_vars => [Promise!Next]_Verdict
  BY NextStands
<1>3. Spec => Promise!Init /\ [][Promise!Next]_Verdict
  BY <1>1, <1>2, Invariant, PTL DEF Spec
<1> QED BY <1>3 DEF KeepsPromise, Promise!Spec, Verdict

-----------------------------------------------------------------------------
(* The end of a sync.                                                      *)

(* A sync is only ended by what finishes a request or ends process(), when *)
(* nothing is left of it: neither on the stack nor in a list.              *)
LEMMA EndOfSync ==
    ASSUME IInv, Next, IsDoingSync, ~isUpdating', status' = "ok", failures' = EmptyBag, ~BeingDeleted
    PROVE  /\ UNCHANGED <<disk, recent>>
           /\ Unharmed /\ Live = {} /\ Failed = {}
<1>1. FinishedRequest \/ ProcessEnds
  <2>1. isUpdating
    BY DEF IsDoingSync
  <2> QED BY <2>1 DEF Next, Continue, SkipUpdateDir, StartRequest, UpdateChildren,
             FailedToUpdateChild, FailedToGetRootIndex, Cancel, CancelNothing, RunTask, PopTask,
             ExtractMore, ExtractEnds, Deleted, Update, Process, Delete, Answer, GotIndex,
             IndexNotModified, NoIndex, GotFile, NoFile, CannotWriteIndex, DayPasses
<1>2. /\ stack \in Seq(Frames) /\ stack # <<>> /\ Head(stack).op \in {"finished", "process"}
      /\ isUpdating' = (isUpdating /\ ~(tasks' = <<>> /\ active' = <<>> /\ queued' = <<>>))
      /\ UNCHANGED <<tasks, failures, status, disk, recent, alive, threw>>
  BY <1>1 DEF IInv, Typed, FinishedRequest, ProcessEnds, CheckForComplete, Running
<1>3. tasks' = <<>> /\ active' = <<>> /\ queued' = <<>> /\ tasks = <<>> /\ status = "ok" /\ isUpdating
  BY <1>2 DEF IsDoingSync
<1>4. queued = <<>> /\ requests = {}
  <2>1. CASE ProcessEnds
    <3>1. queued = <<>> /\ active = <<>>
      BY <1>3, <2>1 DEF ProcessEnds
    <3> QED BY <3>1 DEF IInv, Lists, ToSet
  <2>2. CASE FinishedRequest
    <3>1. queued = <<>> /\ requests' = requests
      <4> DEFINE others == RemoveFirst(active, Of)
      <4>1. others \in Seq(Entries)
        <5>1. Of \in ToSet(active) /\ active \in Seq(Entries) /\ IsInjective(active)
          <6>1. Head(stack).op = "finished"
            BY <2>2 DEF FinishedRequest, Running
          <6>2. OfAll(stack, "finished") = {Head(stack).of} \cup OfAll(Tail(stack), "finished")
            BY <1>2, <6>1, OfAllHead
          <6>3. Of \in Finishing
            BY <6>2 DEF Finishing, Of
          <6> QED BY <6>3 DEF IInv, Typed, TypeOK, Lists
        <5> QED BY <5>1, InjectiveRemove
      <4>2. \/ queued = <<>> /\ requests' = requests
            \/ queued # <<>> /\ active' = Append(others, Head(queued))
        BY <2>2 DEF FinishedRequest
      <4> HIDE DEF others
      <4>3. queued # <<>> => Head(queued) \in Entries
        BY DEF IInv, Typed, TypeOK
      <4>4. queued # <<>> => Append(others, Head(queued)) # <<>>
        BY <4>1, <4>3
      <4> QED BY <1>3, <4>2, <4>4
    <3>2. requests' = {}
      <4>1. IInv'
        BY NextKeeps
      <4>2. requests' \subseteq ToSet(active')
        BY <4>1 DEF IInv, Lists
      <4> QED BY <1>3, <4>2 DEF ToSet
    <3> QED BY <3>1, <3>2
  <2> QED BY <1>1, <2>1, <2>2
<1>5. Tail(stack) = <<>>
  BY <1>2, <1>3, ShapeHead DEF IInv, Typed, BeingDeleted
<1>6. \A op : op # Head(stack).op => OfAll(stack, op) = {}
  <2> SUFFICES ASSUME NEW op, op # Head(stack).op PROVE OfAll(stack, op) = {}
    OBVIOUS
  <2>1. OfAll(stack, op) = OfAll(Tail(stack), op)
    BY <1>2, OfAllHead
  <2>2. OfAll(<<>>, op) = {}
    BY OfAllEmpty
  <2> QED BY <1>5, <2>1, <2>2
<1>7. ~threw
  <2>1. IInv'
    BY NextKeeps
  <2>2. threw' => \E e \in ToSet(active') : TRUE
    BY <2>1 DEF IInv, Accounts
  <2> QED BY <1>2, <1>3, <2>2 DEF ToSet
<1>8. Unharmed
  BY <1>2, <1>3, <1>6, <1>7 DEF Unharmed, IInv, Typed
<1>9. Live = {}
  <2>1. Gets = {} /\ Refreshes = {}
    BY <1>2, <1>6 DEF Gets, Refreshes
  <2>2. TaskDirs = {}
    BY <1>3, OfAllEmpty DEF TaskDirs
  <2>3. Queue = {}
    BY <1>4 DEF Queue, ToSet
  <2> QED BY <1>4, <2>1, <2>2, <2>3 DEF Live, Asked
<1>10. Failed = {}
  <2>1. OfAll(stack, "fail") = {} /\ OfAll(stack, "failRoot") = {}
    BY <1>2, <1>6
  <2>2. DOMAIN failures = {}
    BY <1>2 DEF EmptyBag, SetToBag
  <2> QED BY <2>1, <2>2 DEF Failed
<1> QED BY <1>2, <1>8, <1>9, <1>10

(* A sync that ends without a failure has made the tree what the indices   *)
(* say, whatever the order of the answers, whatever has failed and was     *)
(* tried again, however many directories wait for their turn.              *)
THEOREM ACleanSyncIsInStep == Spec => CleanEndMeansInStep
<1>1. ASSUME IInv, Next, IsDoingSync, ~isUpdating', status' = "ok", failures' = EmptyBag,
             ~BeingDeleted, NEW d \in Dirs
      PROVE  (disk[d] # "none" => InStep(d))'
  <2> SUFFICES ASSUME disk[d] # "none" PROVE InStep(d)'
    BY <1>1, EndOfSync
  <2>1. UNCHANGED <<disk, recent>> /\ Unharmed /\ Live = {} /\ Failed = {} /\ Asked = {}
    BY <1>1, EndOfSync, LiveApart
  <2>2. Excused(d) \/ Settled(d)
    BY <1>1, <2>1 DEF IInv, Content, Clean
  <2>3. Settled(d)
    BY <2>1, <2>2 DEF Excused
  <2>4. InStep(d)
    BY <2>1, <2>3 DEF Settled, InStep
  <2>5. Orphans(d)' = Orphans(d) /\ Children(d)' = Children(d)
    BY <2>1 DEF Orphans, Children
  <2> QED BY <2>1, <2>4, <2>5 DEF InStep, Current
<1>2. IInv /\ [Next]_vars =>
        [ IsDoingSync /\ ~isUpdating' /\ status' = "ok" /\ failures' = EmptyBag
           /\ ~BeingDeleted =>
            \A d \in Dirs : (disk[d] # "none" => InStep(d))' ]_vars
  BY <1>1
<1> QED BY <1>2, Invariant, PTL DEF Spec, CleanEndMeansInStep
=============================================================================
