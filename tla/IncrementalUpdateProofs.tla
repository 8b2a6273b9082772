---------------------- MODULE IncrementalUpdateProofs -----------------------
(***************************************************************************)
(* Theorems about IncrementalUpdate: the two walks of a top miss nothing   *)
(* and have ended when their snapshots are compared.                       *)
(***************************************************************************)
EXTENDS IncrementalUpdate, FiniteSetTheorems, SequenceTheorems, FunctionTheorems, TLAPS

-----------------------------------------------------------------------------
(* Paths                                                                   *)

Elements == Names \cup Inodes \cup {Root}
Paths == {p \in Seq(Elements) : IsPath(p)}

\* What a prefix is, position by position.
LEMMA PrefixIs ==
    ASSUME NEW p \in Seq(Elements), NEW q \in Seq(Elements)
    PROVE  IsPrefix(p, q) <=> Len(p) <= Len(q) /\ \A k \in 1 .. Len(p) : p[k] = q[k]
<1>1. CASE ~(Len(p) <= Len(q))
  BY <1>1 DEF IsPrefix
<1>2. CASE Len(p) <= Len(q)
  <2>1. /\ SubSeq(p, 1, Len(p)) \in Seq(Elements) /\ Len(SubSeq(p, 1, Len(p))) = Len(p)
        /\ \A k \in 1 .. Len(p) : SubSeq(p, 1, Len(p))[k] = p[k]
    BY SubSeqFull
  <2>2. /\ SubSeq(q, 1, Len(p)) \in Seq(Elements) /\ Len(SubSeq(q, 1, Len(p))) = Len(p)
        /\ \A k \in 1 .. Len(p) : SubSeq(q, 1, Len(p))[k] = q[k]
    <3>1. \A k \in 1 .. Len(p) : q[k] \in Elements
      BY <1>2
    <3> QED  BY <3>1, SubSeqProperties
  <2>3. SubSeq(p, 1, Len(p)) = SubSeq(q, 1, Len(p))
           <=> \A k \in 1 .. Len(p) : SubSeq(p, 1, Len(p))[k] = SubSeq(q, 1, Len(p))[k]
    BY <2>1, <2>2, SeqEqual
  <2> QED  BY <1>2, <2>1, <2>2, <2>3 DEF IsPrefix
<1> QED  BY <1>1, <1>2

\* Being a prefix is an order, and the prefixes of one path are a chain.
LEMMA PrefixOrder ==
    ASSUME NEW p \in Seq(Elements), NEW q \in Seq(Elements), NEW x \in Seq(Elements)
    PROVE  /\ IsPrefix(p, p)
           /\ IsPrefix(p, q) /\ IsPrefix(q, x) => IsPrefix(p, x)
           /\ IsPrefix(p, q) /\ Len(p) >= Len(q) => p = q
           /\ IsPrefix(p, x) /\ IsPrefix(q, x) /\ Len(p) <= Len(q) => IsPrefix(p, q)
<1>1. IsPrefix(p, p) 
  BY PrefixIs
<1>2. ASSUME IsPrefix(p, q), IsPrefix(q, x) PROVE IsPrefix(p, x)
  BY <1>2, PrefixIs
<1>3. ASSUME IsPrefix(p, q), Len(p) >= Len(q) PROVE p = q
  <2>1. Len(p) = Len(q) /\ \A k \in 1 .. Len(p) : p[k] = q[k]
    BY <1>3, PrefixIs
  <2> QED  BY <2>1, SeqEqual
<1>4. ASSUME IsPrefix(p, x), IsPrefix(q, x), Len(p) <= Len(q) PROVE IsPrefix(p, q)
  BY <1>4, PrefixIs
<1> QED  BY <1>1, <1>2, <1>3, <1>4

\* The first names of a path.
LEMMA Beginning ==
    ASSUME NEW p \in Seq(Elements), NEW n \in 0 .. Len(p)
    PROVE  /\ SubSeq(p, 1, n) \in Seq(Elements) /\ Len(SubSeq(p, 1, n)) = n
           /\ \A k \in 1 .. n : SubSeq(p, 1, n)[k] = p[k]
           /\ IsPrefix(SubSeq(p, 1, n), p)
<1>1. \A k \in 1 .. n : p[k] \in Elements
  OBVIOUS
<1>2. /\ SubSeq(p, 1, n) \in Seq(Elements) /\ Len(SubSeq(p, 1, n)) = n
      /\ \A k \in 1 .. n : SubSeq(p, 1, n)[k] = p[k]
  BY <1>1, SubSeqProperties
<1>3. \A s \in Seq(Elements) :
          Len(s) = n /\ (\A k \in 1 .. n : s[k] = p[k]) => IsPrefix(s, p)
  BY PrefixIs
<1> QED  BY <1>2, <1>3

\* A prefix is the first names.
LEMMA PrefixIsBeginning ==
    ASSUME NEW p \in Seq(Elements), NEW q \in Seq(Elements), IsPrefix(p, q)
    PROVE  Len(p) \in 0 .. Len(q) /\ p = SubSeq(q, 1, Len(p))
<1>1. Len(p) \in 0 .. Len(q)
  BY PrefixIs
<1>2. /\ SubSeq(q, 1, Len(p)) \in Seq(Elements) /\ Len(SubSeq(q, 1, Len(p))) = Len(p)
      /\ \A k \in 1 .. Len(p) : SubSeq(q, 1, Len(p))[k] = q[k]
  BY <1>1, Beginning
<1>3. \A k \in 1 .. Len(p) : p[k] = SubSeq(q, 1, Len(p))[k]
  BY <1>2, PrefixIs
<1> QED  BY <1>1, <1>2, <1>3, SeqEqual

\* The beginning of a path is a path; all but the whole are beginnings of the
\* parent's.
LEMMA Ancestor ==
    ASSUME NEW p \in Paths, NEW n \in 1 .. Len(p)
    PROVE  /\ SubSeq(p, 1, n) \in Paths /\ Len(SubSeq(p, 1, n)) = n
           /\ IsPrefix(SubSeq(p, 1, n), p)
           /\ n # Len(p) => /\ n \in 1 .. Len(Parent(p)) /\ Len(p) # 1
                            /\ SubSeq(p, 1, n) = SubSeq(Parent(p), 1, n)
<1> DEFINE y == SubSeq(p, 1, n)
           b == SubSeq(p, 1, Len(p) - 1)
<1>1. /\ p \in Seq(Elements) /\ Len(p) \in Nat \ {0} /\ n \in 0 .. Len(p)
      /\ p[1] \in {Root} \cup Inodes /\ \A k \in 2 .. Len(p) : p[k] \in Names
  BY DEF Paths, IsPath
<1>2. /\ y \in Seq(Elements) /\ Len(y) = n /\ IsPrefix(y, p)
      /\ \A k \in 1 .. n : y[k] = p[k]
  BY <1>1, Beginning
<1>3. Len(p) - 1 \in 0 .. Len(p)
  BY <1>1
<1>4. /\ b \in Seq(Elements) /\ Len(b) = Len(p) - 1 /\ IsPrefix(b, p)
  BY <1>1, <1>3, Beginning
<1> HIDE DEF y, b
<1>5. y \in Paths
  <2>1. Len(y) > 0 /\ y[1] = p[1]
    BY <1>1, <1>2
  <2>2. \A k \in 2 .. Len(y) : y[k] = p[k] /\ k \in 2 .. Len(p)
    BY <1>1, <1>2
  <2>3. IsPath(y)
    BY <1>1, <2>1, <2>2 DEF IsPath
  <2> QED  BY <1>2, <2>3 DEF Paths
<1>6. ASSUME n # Len(p) PROVE n \in 1 .. Len(b) /\ Len(p) # 1 /\ y = SubSeq(b, 1, n)
  <2>1. n \in 1 .. Len(b) /\ Len(p) # 1 /\ Len(y) <= Len(b)
    BY <1>1, <1>2, <1>4, <1>6
  <2>2. IsPrefix(y, b)
    BY <1>1, <1>2, <1>4, <2>1, PrefixOrder
  <2>3. y = SubSeq(b, 1, Len(y))
    BY <1>2, <1>4, <2>2, PrefixIsBeginning
  <2> QED  BY <1>2, <2>1, <2>3
<1> QED  BY <1>2, <1>5, <1>6 DEF y, b, Parent, Front

\* A directory is in another, up to the first.
Closed(D) == \A p \in D : \A n \in 1 .. Len(p) : SubSeq(p, 1, n) \in D
IsTree(D) == D \subseteq Paths /\ IsFiniteSet(D) /\ Closed(D)

\* The paths of a tree have all their prefixes in the tree.
LEMMA ClosedPrefix ==
    ASSUME NEW D, D \subseteq Paths, Closed(D), NEW p \in Paths, NEW q \in D, IsPrefix(p, q)
    PROVE  p \in D
<1>1. p \in Seq(Elements) /\ q \in Seq(Elements) /\ Len(p) \in Nat \ {0}
  BY DEF Paths, IsPath
<1>2. Len(p) \in 1 .. Len(q) /\ p = SubSeq(q, 1, Len(p))
  BY <1>1, PrefixIsBeginning
<1> QED  BY <1>2 DEF Closed

-----------------------------------------------------------------------------
(* What the changes of a tree leave                                        *)

\* A path that moves keeps the names behind the directory that is renamed.
LEMMA RebaseIs ==
    ASSUME NEW p \in Paths, NEW r \in Paths, NEW q \in Paths, IsPrefix(p, q)
    PROVE  LET x == Rebase(q, p, r) IN
           /\ x \in Seq(Elements) /\ Len(x) = Len(r) + Len(q) - Len(p)
           /\ \A k \in 1 .. Len(x) :
                  x[k] = IF k <= Len(r) THEN r[k] ELSE q[k - Len(r) + Len(p)]
<1> DEFINE s == SubSeq(q, Len(p) + 1, Len(q))
<1>1. /\ p \in Seq(Elements) /\ q \in Seq(Elements) /\ r \in Seq(Elements)
      /\ Len(p) \in Nat \ {0} /\ Len(q) \in Nat /\ Len(p) <= Len(q)
  BY PrefixIs DEF Paths, IsPath
<1>2. \A k \in Len(p) + 1 .. Len(q) : q[k] \in Elements
  BY <1>1
<1>3. /\ s \in Seq(Elements) /\ Len(s) = Len(q) - Len(p)
      /\ \A k \in 1 .. Len(q) - (Len(p) + 1) + 1 : s[k] = q[Len(p) + 1 + k - 1]
  <2>1. Len(p) + 1 \in Int /\ Len(q) \in Int
    BY <1>1
  <2>2. /\ s \in Seq(Elements)
        /\ Len(s) = IF Len(p) + 1 <= Len(q) THEN Len(q) - (Len(p) + 1) + 1 ELSE 0
        /\ \A k \in 1 .. Len(q) - (Len(p) + 1) + 1 : s[k] = q[Len(p) + 1 + k - 1]
    BY <1>2, <2>1, SubSeqProperties
  <2> QED  BY <1>1, <2>2
<1> HIDE DEF s
<1>4. /\ r \o s \in Seq(Elements) /\ Len(r \o s) = Len(r) + Len(s)
      /\ \A k \in 1 .. Len(r) + Len(s) : (r \o s)[k] = IF k <= Len(r) THEN r[k] ELSE s[k - Len(r)]
  BY <1>1, <1>3, ConcatProperties
<1>5. \A k \in 1 .. Len(r) + Len(s) : k > Len(r) => s[k - Len(r)] = q[k - Len(r) + Len(p)]
  <2> SUFFICES ASSUME NEW k \in 1 .. Len(r) + Len(s), k > Len(r)
               PROVE  s[k - Len(r)] = q[k - Len(r) + Len(p)]
    OBVIOUS
  <2> DEFINE j == k - Len(r)
  <2>1. j \in 1 .. Len(q) - (Len(p) + 1) + 1 /\ Len(p) + 1 + j - 1 = j + Len(p)
    BY <1>1, <1>3
  <2> HIDE DEF j
  <2>2. s[j] = q[j + Len(p)]
    BY <1>3, <2>1
  <2> QED  BY <2>2 DEF j
<1> QED  BY <1>1, <1>3, <1>4, <1>5 DEF Rebase, s

\* It is a path below its new place, and can go back.
LEMMA RebasePath ==
    ASSUME NEW p \in Paths, NEW r \in Paths, NEW q \in Paths, IsPrefix(p, q)
    PROVE  LET x == Rebase(q, p, r) IN
           x \in Paths /\ IsPrefix(r, x) /\ Rebase(x, r, p) = q
<1> DEFINE x == Rebase(q, p, r)
           z == Rebase(x, r, p)
<1>1. /\ p \in Seq(Elements) /\ q \in Seq(Elements) /\ r \in Seq(Elements)
      /\ Len(p) \in Nat \ {0} /\ Len(q) \in Nat /\ Len(p) <= Len(q) /\ Len(r) \in Nat \ {0}
      /\ \A k \in 1 .. Len(p) : p[k] = q[k]
  BY PrefixIs DEF Paths, IsPath
<1>2. /\ x \in Seq(Elements) /\ Len(x) = Len(r) + Len(q) - Len(p)
      /\ \A k \in 1 .. Len(x) : x[k] = IF k <= Len(r) THEN r[k] ELSE q[k - Len(r) + Len(p)]
  BY RebaseIs
<1> HIDE DEF x
<1>3. IsPath(x)
  <2>1. \A k \in 2 .. Len(q) : q[k] \in Names
    BY DEF Paths, IsPath
  <2>2. r[1] \in {Root} \cup Inodes /\ \A k \in 2 .. Len(r) : r[k] \in Names
    BY DEF Paths, IsPath
  <2>3. \A k \in 2 .. Len(x) : k > Len(r) => k - Len(r) + Len(p) \in 2 .. Len(q)
    BY <1>1, <1>2
  <2>4. Len(x) > 0 /\ x[1] = r[1]
    BY <1>1, <1>2
  <2>5. ASSUME NEW k \in 2 .. Len(x) PROVE x[k] \in Names
    <3>1. k \in 1 .. Len(x) /\ (k <= Len(r) => k \in 2 .. Len(r))
      BY <1>1, <1>2
    <3>2. CASE k <= Len(r)
      BY <1>2, <2>2, <3>1, <3>2
    <3>3. CASE ~(k <= Len(r))
      <4>1. x[k] = q[k - Len(r) + Len(p)]
        BY <1>2, <3>1, <3>3
      <4>2. k - Len(r) + Len(p) \in 2 .. Len(q)
        BY <1>1, <2>3, <3>3
      <4> QED  BY <2>1, <4>1, <4>2
    <3> QED  BY <3>2, <3>3
  <2> QED  BY <2>2, <2>4, <2>5 DEF IsPath
<1>4. IsPrefix(r, x)
  <2>1. Len(r) <= Len(x)
    BY <1>1, <1>2
  <2>2. \A k \in 1 .. Len(r) : r[k] = x[k]
    BY <1>1, <1>2, <2>1
  <2> QED  BY <1>1, <1>2, <2>1, <2>2, PrefixIs
<1>5. x \in Paths
  BY <1>2, <1>3 DEF Paths
<1>6. /\ z \in Seq(Elements) /\ Len(z) = Len(p) + Len(x) - Len(r)
      /\ \A k \in 1 .. Len(z) : z[k] = IF k <= Len(p) THEN p[k] ELSE x[k - Len(p) + Len(r)]
  BY <1>4, <1>5, RebaseIs
<1> HIDE DEF z
<1>7. Len(z) = Len(q)
  BY <1>1, <1>2, <1>6
<1>8. \A k \in 1 .. Len(z) : z[k] = q[k]
  <2> SUFFICES ASSUME NEW k \in 1 .. Len(z) PROVE z[k] = q[k]
    OBVIOUS
  <2>1. CASE k <= Len(p)
    BY <1>1, <1>6, <2>1
  <2>2. CASE k > Len(p)
    <3> DEFINE j == k - Len(p) + Len(r)
    <3>1. j \in 1 .. Len(x) /\ j > Len(r) /\ j - Len(r) + Len(p) = k
      BY <1>1, <1>2, <1>6, <2>2
    <3>2. z[k] = x[j]
      BY <1>1, <1>6, <2>2
    <3> HIDE DEF j
    <3>3. x[j] = q[j - Len(r) + Len(p)]
      <4>1. ~(j <= Len(r))
        BY <1>1, <1>2, <3>1
      <4> QED  BY <1>2, <3>1, <4>1
    <3> QED  BY <3>1, <3>2, <3>3
  <2> QED  BY <1>1, <1>6, <2>1, <2>2
<1>9. z = q
  BY <1>1, <1>6, <1>7, <1>8, SeqEqual
<1> QED  BY <1>4, <1>5, <1>9 DEF x, z

\* What is between the new place and a path that moves has moved with it.
LEMMA RebaseBetween ==
    ASSUME NEW p \in Paths, NEW r \in Paths, NEW q \in Paths, IsPrefix(p, q),
           NEW n \in Len(r) .. Len(Rebase(q, p, r))
    PROVE  LET m == n - Len(r) + Len(p) IN
           /\ m \in Len(p) .. Len(q) /\ IsPrefix(p, SubSeq(q, 1, m))
           /\ SubSeq(q, 1, m) \in Paths
           /\ SubSeq(Rebase(q, p, r), 1, n) = Rebase(SubSeq(q, 1, m), p, r)
<1> DEFINE x == Rebase(q, p, r)
           m == n - Len(r) + Len(p)
           b == SubSeq(q, 1, m)
           z == Rebase(b, p, r)
           y == SubSeq(x, 1, n)
<1>1. /\ p \in Seq(Elements) /\ q \in Seq(Elements) /\ r \in Seq(Elements)
      /\ Len(p) \in Nat \ {0} /\ Len(q) \in Nat /\ Len(p) <= Len(q) /\ Len(r) \in Nat \ {0}
      /\ \A k \in 1 .. Len(p) : p[k] = q[k]
  BY PrefixIs DEF Paths, IsPath
<1>2. /\ x \in Seq(Elements) /\ Len(x) = Len(r) + Len(q) - Len(p)
      /\ \A k \in 1 .. Len(x) : x[k] = IF k <= Len(r) THEN r[k] ELSE q[k - Len(r) + Len(p)]
  BY RebaseIs
<1>3. m \in Len(p) .. Len(q) /\ m \in 0 .. Len(q) /\ n \in 0 .. Len(x) /\ m \in Nat /\ n \in Nat
  BY <1>1, <1>2
<1>4. b \in Seq(Elements) /\ Len(b) = m /\ \A k \in 1 .. m : b[k] = q[k]
  BY <1>1, <1>3, Beginning
<1>5. y \in Seq(Elements) /\ Len(y) = n /\ \A k \in 1 .. n : y[k] = x[k]
  BY <1>2, <1>3, Beginning
<1> HIDE DEF b, y, x, m
<1>6. IsPrefix(p, b)
  BY <1>1, <1>3, <1>4, PrefixIs
<1>7. b \in Paths
  <2>1. q[1] \in {Root} \cup Inodes /\ \A k \in 2 .. Len(q) : q[k] \in Names
    BY DEF Paths, IsPath
  <2>0. m > 0 /\ 1 \in 1 .. m
    BY <1>1, <1>3
  <2>2. Len(b) > 0 /\ b[1] = q[1]
    BY <1>4, <2>0
  <2>3. \A k \in 2 .. Len(b) : b[k] = q[k] /\ k \in 2 .. Len(q)
    BY <1>1, <1>3, <1>4
  <2>4. IsPath(b)
    BY <2>1, <2>2, <2>3 DEF IsPath
  <2> QED  BY <1>4, <2>4 DEF Paths
<1>8. /\ z \in Seq(Elements) /\ Len(z) = Len(r) + Len(b) - Len(p)
      /\ \A k \in 1 .. Len(z) : z[k] = IF k <= Len(r) THEN r[k] ELSE b[k - Len(r) + Len(p)]
  BY <1>6, <1>7, RebaseIs
<1> HIDE DEF z
<1>9. Len(z) = n
  BY <1>1, <1>3, <1>4, <1>8 DEF m
<1>10. \A k \in 1 .. n : z[k] = y[k]
  <2> SUFFICES ASSUME NEW k \in 1 .. n PROVE z[k] = y[k]
    OBVIOUS
  <2>0. k \in 1 .. Len(x) /\ k \in 1 .. Len(z)
    BY <1>3, <1>9
  <2>1. CASE k <= Len(r)
    <3>1. z[k] = r[k]
      BY <1>8, <2>0, <2>1
    <3>2. y[k] = r[k]
      BY <1>2, <1>5, <2>0, <2>1
    <3> QED  BY <3>1, <3>2
  <2>2. CASE k > Len(r)
    <3> DEFINE j == k - Len(r) + Len(p)
    <3>1. j \in 1 .. m
      BY <1>1, <1>3, <2>2 DEF m
    <3>0. ~(k <= Len(r))
      BY <1>1, <2>2
    <3>2. z[k] = b[j]
      BY <1>8, <2>0, <3>0
    <3>3. y[k] = x[k] /\ x[k] = q[j]
      BY <1>2, <1>5, <2>0, <3>0
    <3> HIDE DEF j
    <3>4. b[j] = q[j]
      BY <1>4, <3>1
    <3> QED  BY <3>2, <3>3, <3>4
  <2> QED  BY <1>1, <1>3, <2>1, <2>2
<1>11. y = z
  BY <1>5, <1>8, <1>9, <1>10, SeqEqual
<1> QED  BY <1>3, <1>6, <1>7, <1>11 DEF b, m, x, y, z

\* The image of a finite set is finite.
LEMMA ImageFinite ==
    ASSUME NEW S, IsFiniteSet(S), NEW f
    PROVE  IsFiniteSet({f[x] : x \in S})
<1> DEFINE T == {f[x] : x \in S}
           g == [x \in S |-> f[x]]
<1>1. g \in Surjection(S, T)
  BY DEF Surjection
<1> QED  BY <1>1, FS_Surjection

\* rename(2) leaves a tree, with the values there were.
LEMMA MovedTree ==
    ASSUME NEW f, IsTree(DOMAIN f), NEW p \in DOMAIN f, NEW r \in Paths,
           HasParent(f, r), ~IsPrefix(p, r)
    PROVE  /\ IsTree(DOMAIN Moved(f, p, r))
           /\ \A x \in DOMAIN Moved(f, p, r) : \E q \in DOMAIN f : Moved(f, p, r)[x] = f[q]
<1> DEFINE D == DOMAIN f
           below == {q \in D : IsPrefix(p, q)}
           kept == D \ below
           back == [q \in below |-> Rebase(q, p, r)]
           gone == {Rebase(q, p, r) : q \in below}
           g == Moved(f, p, r)
<1>1. D \subseteq Paths /\ IsFiniteSet(D) /\ Closed(D) /\ p \in Paths
  BY DEF IsTree
<1>2. /\ DOMAIN g = kept \cup gone
      /\ \A x \in kept \cup gone : g[x] = IF x \in gone THEN f[Rebase(x, r, p)] ELSE f[x]
  BY DEF Moved, Below
<1>3. \A q \in below : Rebase(q, p, r) \in Paths /\ Rebase(Rebase(q, p, r), r, p) = q
  BY <1>1, RebasePath
<1>4. kept \cup gone \subseteq Paths
  BY <1>1, <1>3
<1>5. IsFiniteSet(kept \cup gone)
  <2>1. IsFiniteSet(kept) /\ IsFiniteSet(below)
    BY <1>1, FS_Subset
  <2>2. gone = {back[q] : q \in below}
    OBVIOUS
  <2>3. IsFiniteSet({back[q] : q \in below})
    BY <2>1, ImageFinite, Zenon
  <2> HIDE DEF below, gone, kept, back
  <2>4. IsFiniteSet(gone)
    BY <2>2, <2>3
  <2> QED  BY <2>1, <2>4, FS_Union
<1>6. Closed(kept \cup gone)
  <2> SUFFICES ASSUME NEW x \in kept \cup gone, NEW n \in 1 .. Len(x)
               PROVE  SubSeq(x, 1, n) \in kept \cup gone
    BY DEF Closed
  <2> DEFINE y == SubSeq(x, 1, n)
  <2>0. x \in Seq(Elements) /\ r \in Seq(Elements) /\ p \in Seq(Elements)
        /\ Len(r) \in Nat \ {0} /\ n \in 0 .. Len(x) /\ n \in Nat \ {0}
    BY <1>1, <1>4 DEF Paths, IsPath
  <2>1. y \in Seq(Elements) /\ Len(y) = n /\ IsPrefix(y, x)
    BY <2>0, Beginning
  <2> HIDE DEF y
  <2>2. CASE x \in kept
    <3>1. y \in D
      BY <1>1, <2>2 DEF Closed, y
    <3>2. IsPrefix(p, y) => IsPrefix(p, x)
      BY <2>0, <2>1, PrefixOrder
    <3> QED  BY <2>2, <3>1, <3>2 DEF y
  <2>3. CASE x \in gone
    <3>1. PICK q \in below : x = Rebase(q, p, r)
      BY <2>3
    <3>2. q \in Paths /\ IsPrefix(p, q) /\ q \in D
      BY <1>1
    <3>3. IsPrefix(r, x)
      BY <1>1, <3>1, <3>2, RebasePath
    <3>4. CASE n >= Len(r)
      <4> DEFINE m == n - Len(r) + Len(p)
      <4>1. n \in Len(r) .. Len(Rebase(q, p, r))
        BY <2>0, <3>1, <3>4
      <4>2. /\ m \in Len(p) .. Len(q) /\ IsPrefix(p, SubSeq(q, 1, m))
            /\ SubSeq(Rebase(q, p, r), 1, n) = Rebase(SubSeq(q, 1, m), p, r)
        BY <1>1, <3>2, <4>1, RebaseBetween
      <4>3. m \in 1 .. Len(q)
        BY <1>1, <4>2 DEF Paths, IsPath
      <4> HIDE DEF m
      <4>4. SubSeq(q, 1, m) \in below
        BY <1>1, <3>2, <4>2, <4>3 DEF Closed
      <4> QED  BY <3>1, <4>2, <4>4 DEF y
    <3>5. CASE n < Len(r)
      <4>1. IsPrefix(y, r)
        BY <2>0, <2>1, <3>3, <3>5, PrefixOrder
      <4>2. n \in 1 .. Len(r) /\ n # Len(r) /\ Len(y) \in Nat /\ Len(y) = n
        BY <2>0, <2>1, <3>5
      <4>3. y = SubSeq(r, 1, Len(y))
        BY <2>0, <2>1, <4>1, PrefixIsBeginning
      <4>4. n \in 1 .. Len(Parent(r)) /\ Len(r) # 1 /\ y = SubSeq(Parent(r), 1, n)
        BY <4>2, <4>3, Ancestor
      <4>5. Parent(r) \in D
        BY <4>4 DEF HasParent
      <4>6. y \in D
        BY <1>1, <4>4, <4>5 DEF Closed
      <4>7. ~IsPrefix(p, y)
        BY <2>0, <2>1, <4>1, PrefixOrder
      <4> QED  BY <4>6, <4>7 DEF y
    <3> QED  BY <2>0, <3>4, <3>5
  <2> QED  BY <2>2, <2>3 DEF y
<1>7. \A x \in DOMAIN g : \E q \in D : g[x] = f[q]
  <2> SUFFICES ASSUME NEW x \in DOMAIN g PROVE \E q \in D : g[x] = f[q]
    OBVIOUS
  <2>1. CASE x \in gone
    <3>1. PICK q \in below : x = Rebase(q, p, r)
      BY <2>1
    <3>2. g[x] = f[q]
      BY <1>2, <1>3, <2>1, <3>1
    <3> QED  BY <3>2
  <2>2. CASE x \notin gone
    BY <1>2, <2>2
  <2> QED  BY <2>1, <2>2
<1> QED  BY <1>2, <1>4, <1>5, <1>6, <1>7 DEF IsTree

\* So do the other changes.
LEMMA WithTree ==
    ASSUME NEW f, IsTree(DOMAIN f), NEW p \in Paths, HasParent(f, p), NEW v
    PROVE  /\ IsTree(DOMAIN With(f, p, v))
           /\ \A x \in DOMAIN With(f, p, v) :
                  With(f, p, v)[x] = v \/ (x \in DOMAIN f /\ With(f, p, v)[x] = f[x])
<1> DEFINE D == DOMAIN f
<1>1. D \subseteq Paths /\ IsFiniteSet(D) /\ Closed(D)
  BY DEF IsTree
<1>2. DOMAIN With(f, p, v) = D \cup {p}
  BY DEF With
<1>3. IsFiniteSet(D \cup {p})
  BY <1>1, FS_AddElement
<1>4. Closed(D \cup {p})
  <2> SUFFICES ASSUME NEW n \in 1 .. Len(p) PROVE SubSeq(p, 1, n) \in D \cup {p}
    BY <1>1 DEF Closed
  <2>0. p \in Seq(Elements) /\ Len(p) \in Nat \ {0}
    BY DEF Paths, IsPath
  <2>1. CASE n = Len(p)
    BY <2>0, <2>1, SubSeqFull
  <2>2. CASE n # Len(p)
    <3>1. n \in 1 .. Len(Parent(p)) /\ Len(p) # 1 /\ SubSeq(p, 1, n) = SubSeq(Parent(p), 1, n)
      BY <2>2, Ancestor
    <3>2. Parent(p) \in D
      BY <3>1 DEF HasParent
    <3> QED  BY <1>1, <3>1, <3>2 DEF Closed
  <2> QED  BY <2>1, <2>2
<1> QED  BY <1>1, <1>2, <1>3, <1>4 DEF IsTree, With

\* Taking away a leaf leaves a tree (rmdir of an empty directory).
LEMMA RemovedTree ==
    ASSUME NEW f, IsTree(DOMAIN f), NEW p \in DOMAIN f, Below(DOMAIN f, p) = {p}
    PROVE  /\ IsTree(DOMAIN Removed(f, p))
           /\ \A x \in DOMAIN Removed(f, p) : x \in DOMAIN f /\ Removed(f, p)[x] = f[x]
<1> DEFINE D == DOMAIN f
<1>1. D \subseteq Paths /\ IsFiniteSet(D) /\ Closed(D)
  BY DEF IsTree
<1>2. DOMAIN Removed(f, p) = D \ {p}
  BY DEF Removed
<1>3. IsFiniteSet(D \ {p})
  BY <1>1, FS_RemoveElement
<1>4. Closed(D \ {p})
  <2> SUFFICES ASSUME NEW x \in D \ {p}, NEW n \in 1 .. Len(x)
               PROVE  SubSeq(x, 1, n) \in D \ {p}
    BY DEF Closed
  <2>1. SubSeq(x, 1, n) \in D
    BY <1>1 DEF Closed
  <2>2. IsPrefix(SubSeq(x, 1, n), x)
    <3>1. x \in Seq(Elements) /\ n \in 0 .. Len(x)
      BY <1>1 DEF Paths, IsPath
    <3> QED  BY <3>1, Beginning
  <2> QED  BY <2>1, <2>2 DEF Below
<1> QED  BY <1>1, <1>2, <1>3, <1>4 DEF IsTree, Removed

-----------------------------------------------------------------------------
(* A walk                                                                  *)

\* The directories in the pool: none is below another, so that the pool
\* never has one twice.
Alone(work) ==
    /\ work \subseteq Paths /\ IsFiniteSet(work)
    /\ \A p, q \in work : IsPrefix(p, q) => p = q

\* What is in front of a walk has not been seen, and all that it should find
\* has been found or is below what is in front or what could not be opened.
Frontier(goal, work, found, refused) ==
    /\ found \subseteq goal
    /\ \A p \in work : \A q \in found \cup refused : ~IsPrefix(p, q)
    /\ \A u \in refused : \A q \in found \cup work : ~IsPrefix(u, q)
    /\ \A p \in goal : p \in found \/ \E w \in work \cup refused : IsPrefix(w, p)

\* The subdirectories of a directory in the pool are not in the pool yet.
LEMMA DescendAlone ==
    ASSUME NEW D, IsTree(D), NEW work, Alone(work), NEW p \in work
    PROVE  LET subdirs == Subdirectories(D, p)
               next == (work \ {p}) \cup subdirs
           IN  /\ Alone(next) /\ IsFiniteSet(subdirs)
               /\ Cardinality(next) = Cardinality(work) + Cardinality(subdirs) - 1
               /\ Cardinality(subdirs) \in Nat
               /\ subdirs \subseteq D /\ \A s \in subdirs : IsPrefix(p, s)
<1> DEFINE subdirs == Subdirectories(D, p)
           next == (work \ {p}) \cup subdirs
<1>1. /\ D \subseteq Paths /\ IsFiniteSet(D) /\ work \subseteq Paths /\ IsFiniteSet(work)
      /\ \A x, y \in work : IsPrefix(x, y) => x = y
  BY DEF IsTree, Alone
<1>2. subdirs \subseteq D /\ \A s \in subdirs : IsPrefix(p, s) /\ Len(s) = Len(p) + 1
  BY DEF Subdirectories
<1> HIDE DEF subdirs
<1>3. \A x \in Paths : x \in Seq(Elements) /\ Len(x) \in Nat
  BY DEF Paths, IsPath
<1>4. IsFiniteSet(subdirs) /\ Cardinality(subdirs) \in Nat
  BY <1>1, <1>2, FS_Subset, FS_CardinalityType
<1>5. ASSUME NEW s \in subdirs, NEW q \in work \ {p}
      PROVE  ~IsPrefix(s, q) /\ ~IsPrefix(q, s)
  <2>1. /\ s \in Seq(Elements) /\ q \in Seq(Elements) /\ p \in Seq(Elements)
        /\ Len(s) = Len(p) + 1 /\ Len(p) \in Nat /\ Len(q) \in Nat /\ Len(s) \in Nat
    BY <1>1, <1>2, <1>3
  <2>2. ~IsPrefix(p, q) /\ ~IsPrefix(q, p)
    BY <1>1
  <2>3. IsPrefix(p, s)
    BY <1>2
  <2>4. ~IsPrefix(s, q)
    BY <2>1, <2>2, <2>3, PrefixOrder
  <2>5. CASE Len(q) <= Len(p)
    <3>1. IsPrefix(q, s) => IsPrefix(q, p)
      BY <2>1, <2>3, <2>5, PrefixOrder
    <3> QED  BY <2>2, <2>4, <3>1
  <2>6. CASE Len(q) > Len(p)
    <3>1. IsPrefix(q, s) => IsPrefix(p, q)
      BY <2>1, <2>3, <2>6, PrefixOrder
    <3> QED  BY <2>2, <2>4, <3>1
  <2> QED  BY <2>1, <2>5, <2>6
<1>6. ASSUME NEW s \in subdirs, NEW q \in subdirs, IsPrefix(s, q) PROVE s = q
  <2>1. s \in Seq(Elements) /\ q \in Seq(Elements) /\ Len(s) = Len(q)
    BY <1>1, <1>2, <1>3
  <2> QED  BY <1>6, <2>1, PrefixOrder
<1>7. p \notin subdirs
  BY <1>1, <1>2, <1>3
<1>8. (work \ {p}) \cap subdirs = {}
  <2> SUFFICES ASSUME NEW q \in work \ {p}, q \in subdirs PROVE FALSE
    OBVIOUS
  <2>1. q \in Seq(Elements)
    BY <1>1, <1>3
  <2> QED  BY <1>5, <2>1, PrefixOrder
<1>9. IsFiniteSet(work \ {p}) /\ Cardinality(work \ {p}) = Cardinality(work) - 1
      /\ Cardinality(work) \in Nat
  BY <1>1, FS_RemoveElement, FS_CardinalityType
<1>10. IsFiniteSet(next) /\ Cardinality(next) = Cardinality(work) - 1 + Cardinality(subdirs)
  BY <1>4, <1>8, <1>9, FS_Union, FS_EmptySet
<1>11. \A x, y \in next : IsPrefix(x, y) => x = y
  BY <1>1, <1>5, <1>6
<1>12. Alone(next)
  BY <1>1, <1>2, <1>10, <1>11 DEF Alone
<1> QED  BY <1>2, <1>4, <1>9, <1>10, <1>12 DEF subdirs

\* A directory that is opened is found, if it is to be found, and its
\* subdirectories are in front.
LEMMA DescendFrontier ==
    ASSUME NEW D, IsTree(D), NEW goal \in SUBSET D, NEW work, Alone(work), NEW p \in work,
           NEW found, NEW refused \in SUBSET Paths, Frontier(goal, work, found, refused)
    PROVE  Frontier(goal, (work \ {p}) \cup Subdirectories(D, p), found \cup ({p} \cap goal), refused)
<1> DEFINE subdirs == Subdirectories(D, p)
           next == (work \ {p}) \cup subdirs
           more == found \cup ({p} \cap goal)
<1>1. /\ D \subseteq Paths /\ Closed(D) /\ work \subseteq Paths
      /\ \A x, y \in work : IsPrefix(x, y) => x = y
  BY DEF IsTree, Alone
<1>2. /\ found \subseteq goal
      /\ \A x \in work : \A q \in found \cup refused : ~IsPrefix(x, q)
      /\ \A u \in refused : \A q \in found \cup work : ~IsPrefix(u, q)
      /\ \A x \in goal : x \in found \/ \E w \in work \cup refused : IsPrefix(w, x)
  BY DEF Frontier
<1>3. subdirs = {q \in D : Len(q) = Len(p) + 1 /\ IsPrefix(p, q)}
  BY DEF Subdirectories
<1> HIDE DEF subdirs
<1>4. \A x \in Paths : x \in Seq(Elements) /\ Len(x) \in Nat \ {0}
  BY DEF Paths, IsPath
<1>5. \A s \in subdirs : s \in Paths /\ IsPrefix(p, s) /\ Len(s) = Len(p) + 1
  BY <1>1, <1>3
<1>6. more \subseteq goal /\ more \cup refused \subseteq Paths /\ found \subseteq Paths
  BY <1>1, <1>2
<1>7. ASSUME NEW x \in next, NEW q \in more \cup refused PROVE ~IsPrefix(x, q)
  <2>0. x \in Seq(Elements) /\ q \in Seq(Elements) /\ p \in Seq(Elements) /\ Len(p) \in Nat
    BY <1>1, <1>4, <1>5, <1>6
  <2>1. CASE x \in work \ {p}
    BY <1>1, <1>2, <2>1
  <2>2. CASE x \in subdirs
    <3>1. CASE q = p
      <4>1. Len(x) = Len(p) + 1
        BY <1>5, <2>2
      <4> QED  BY <2>0, <3>1, <4>1, PrefixIs
    <3>2. CASE q # p
      <4>1. ~IsPrefix(p, q)
        BY <1>2, <3>2
      <4> QED  BY <1>5, <2>0, <2>2, <4>1, PrefixOrder
    <3> QED  BY <3>1, <3>2
  <2> QED  BY <2>1, <2>2
<1>8. ASSUME NEW u \in refused, NEW q \in more \cup next PROVE ~IsPrefix(u, q)
  <2>1. CASE q \in found \cup work
    BY <1>2, <2>1
  <2>2. CASE q \in subdirs
    <3>0. /\ u \in Seq(Elements) /\ q \in Seq(Elements) /\ p \in Seq(Elements)
          /\ Len(p) \in Nat /\ Len(u) \in Nat
      BY <1>1, <1>4, <1>5, <2>2
    <3>1. ~IsPrefix(u, p) /\ ~IsPrefix(p, u)
      BY <1>2
    <3>2. CASE Len(u) <= Len(p)
      BY <1>5, <2>2, <3>0, <3>1, <3>2, PrefixOrder
    <3>3. CASE Len(p) <= Len(u)
      BY <1>5, <2>2, <3>0, <3>1, <3>3, PrefixOrder
    <3> QED  BY <3>0, <3>2, <3>3
  <2> QED  BY <2>1, <2>2
<1>9. ASSUME NEW x \in goal PROVE x \in more \/ \E w \in next \cup refused : IsPrefix(w, x)
  <2>1. CASE x \in found \/ \E w \in (work \ {p}) \cup refused : IsPrefix(w, x)
    BY <2>1
  <2>2. CASE IsPrefix(p, x)
    <3>0. x \in Paths /\ x \in D /\ x \in Seq(Elements) /\ p \in Seq(Elements)
          /\ Len(x) \in Nat /\ Len(p) \in Nat \ {0}
      BY <1>1, <1>4
    <3>1. CASE Len(x) <= Len(p)
      <4>1. x = p
        BY <2>2, <3>0, <3>1, PrefixOrder
      <4> QED  BY <4>1
    <3>2. CASE Len(x) > Len(p)
      <4> DEFINE n == Len(p) + 1
                 s == SubSeq(x, 1, n)
      <4>1. n \in 1 .. Len(x) /\ n \in 0 .. Len(x)
        BY <3>0, <3>2
      <4>2. s \in D
        BY <1>1, <3>0, <4>1 DEF Closed
      <4>3. s \in Seq(Elements) /\ Len(s) = n /\ IsPrefix(s, x)
        BY <3>0, <4>1, Beginning
      <4> HIDE DEF s
      <4>4. IsPrefix(p, s)
        BY <2>2, <3>0, <4>3, PrefixOrder
      <4>5. s \in subdirs
        BY <1>3, <4>2, <4>3, <4>4
      <4> QED  BY <4>3, <4>5
    <3> QED  BY <3>0, <3>1, <3>2
  <2> QED  BY <1>2, <2>1, <2>2
<1> QED  BY <1>6, <1>7, <1>8, <1>9 DEF Frontier, subdirs

\* A directory that cannot be opened is left, with all below it.
LEMMA RefuseFrontier ==
    ASSUME NEW work, Alone(work), NEW p \in work, NEW goal, NEW found, NEW refused,
           Frontier(goal, work, found, refused)
    PROVE  Frontier(goal, work \ {p}, found, refused \cup {p})
BY DEF Alone, Frontier

\* A directory that could not be opened leaves the pool: one path less.
LEMMA RefuseAlone ==
    ASSUME NEW work, Alone(work), NEW p \in work
    PROVE  /\ Alone(work \ {p}) /\ Cardinality(work \ {p}) = Cardinality(work) - 1
           /\ Cardinality(work) \in Nat
<1>1. IsFiniteSet(work)
  BY DEF Alone
<1>2. /\ IsFiniteSet(work \ {p}) /\ Cardinality(work \ {p}) = Cardinality(work) - 1
      /\ Cardinality(work) \in Nat
  BY <1>1, FS_RemoveElement, FS_CardinalityType
<1> QED  BY <1>2 DEF Alone

\* When nothing is in front, all has been found that is not below what could
\* not be opened.
LEMMA FrontierEnds ==
    ASSUME NEW goal, NEW found, NEW refused, Frontier(goal, {}, found, refused)
    PROVE  found = {p \in goal : \A u \in refused : ~IsPrefix(u, p)}
BY DEF Frontier

-----------------------------------------------------------------------------
(* The inductive invariant                                                 *)

\* The source tree and the index are trees.
TreeInv ==
    /\ IsTree(DOMAIN tree) /\ \A p \in DOMAIN tree : tree[p] \in Inodes
    /\ IsTree(DOMAIN index) /\ \A p \in DOMAIN index : index[p] \in Dbs \cup {Null}
    /\ DOMAIN lot \subseteq Inodes /\ \A i \in DOMAIN lot : lot[i] \in Dbs
    /\ version \in [Inodes -> Nat]
    /\ rc \in {0, 1}

IndexRows == [path : Paths, inode : Inodes, pinode : Inodes \cup {0}]
TreeRows == [path : Paths, inode : Inodes, pinode : Inodes \cup {0}, suspect : BOOLEAN]

\* What is created or moved in is a row of the snapshot of the tree.
RowInv ==
    /\ isnap \subseteq IndexRows /\ tsnap \subseteq TreeRows
    /\ pc \in {"remove", "create"} => \A d \in rows : d.tr # Null => d.tr \in tsnap
    /\ pc = "create" => \A d \in rows : d.tr # Null

Scanning == pc \in {"tree", "wait", "asleep"}

PhaseInv ==
    /\ pc \in {"idle", "next", "done", "index", "tree", "wait", "asleep", "diff",
               "remove", "create", "update"}
    /\ ~Scanning => iwork = {} /\ twork = {}
    /\ pc = "tree" => twork = {}
    /\ pc = "index" => isnap = {}
    /\ pc \in {"index", "tree"} => tsnap = {}
    /\ pc = "idle" => tops = {} /\ updated = {} /\ unread = {}

\* The tops are apart, each is updated once, and what could not be opened so
\* far was below those.
TopInv ==
    /\ tops \subseteq updated /\ updated \subseteq DOMAIN tree
    /\ \A s, t \in updated : IsPrefix(s, t) => s = t
    /\ pc \notin {"idle", "next", "done"} => top \in updated \ tops
    /\ \A u \in unread : /\ u \in Paths
                         /\ \E t \in updated \ tops : /\ IsPrefix(t, u)
                                                      /\ pc \in {"index", "tree"} => t # top

\* The pool has directories below the top, no one twice, and main() counts
\* them.
PoolInv ==
    /\ Alone(iwork) /\ Alone(twork)
    /\ twork \subseteq DOMAIN tree
    /\ \A p \in iwork \cup twork : IsPrefix(top, p)
    /\ counter = Cardinality(iwork) + Cardinality(twork)

PathsOf(S) == {d.path : d \in S}
IndexGoal == {p \in Below(DOMAIN index, top) : index[p] # Null}
TreeGoal == Below(DOMAIN tree, top)

\* What the walks have not found yet is in front of them.
CoverInv ==
    /\ Scanning /\ top \notin failed => Frontier(IndexGoal, iwork, PathsOf(isnap), {})
    /\ Scanning /\ pc # "tree" /\ top \notin failed =>
           Frontier(TreeGoal, twork, PathsOf(tsnap), unread)
    /\ ScanIsComplete

ScanInv == TreeInv /\ RowInv /\ PhaseInv /\ TopInv /\ PoolInv /\ CoverInv

\* A directory of a tree is in another, or is the first.
LEMMA TreeParent ==
    ASSUME NEW f, IsTree(DOMAIN f), NEW p \in DOMAIN f
    PROVE  p \in Paths /\ HasParent(f, p)
<1>0. p \in Paths
  BY DEF IsTree
<1>1. p \in Paths /\ p \in Seq(Elements) /\ Len(p) \in Nat \ {0}
  BY <1>0 DEF Paths, IsPath
<1>2. CASE Len(p) # 1
  <2>0. \A n \in Nat \ {0} : n # 1 => n - 1 \in 1 .. n
    OBVIOUS
  <2>1. Len(p) - 1 \in 1 .. Len(p)
    BY <1>1, <1>2, <2>0, Zenon
  <2>2. \A n \in 1 .. Len(p) : SubSeq(p, 1, n) \in DOMAIN f
    BY DEF IsTree, Closed
  <2>3. SubSeq(p, 1, Len(p) - 1) \in DOMAIN f
    BY <2>1, <2>2
  <2> QED  BY <1>0, <2>3 DEF HasParent, Parent, Front
<1> QED  BY <1>0, <1>1, <1>2 DEF HasParent

\* What reindexing a directory writes.
LEMMA DbType ==
    ASSUME IsTree(DOMAIN tree), \A p \in DOMAIN tree : tree[p] \in Inodes,
           version \in [Inodes -> Nat], NEW p \in DOMAIN tree
    PROVE  Db(p) \in Dbs /\ PInode(p) \in Inodes \cup {0}
<1>1. PInode(p) \in Inodes \cup {0}
  BY TreeParent DEF PInode, HasParent
<1> QED  BY <1>1 DEF Db, Dbs

\* A new path
LEMMA NewPath ==
    ASSUME NEW p \in Paths, NEW n \in Names
    PROVE  Append(p, n) \in Paths
<1>1. /\ p \in Seq(Elements) /\ Len(p) \in Nat \ {0} /\ p[1] \in {Root} \cup Inodes
      /\ \A k \in 2 .. Len(p) : p[k] \in Names
  BY DEF Paths, IsPath
<1>2. /\ Append(p, n) \in Seq(Elements) /\ Len(Append(p, n)) = Len(p) + 1
      /\ \A k \in 1 .. Len(p) : Append(p, n)[k] = p[k]
      /\ Append(p, n)[Len(p) + 1] = n
  BY <1>1, AppendProperties DEF Elements
<1>3. IsPath(Append(p, n))
  BY <1>1, <1>2 DEF IsPath
<1> QED  BY <1>2, <1>3 DEF Paths

-----------------------------------------------------------------------------
(* At first                                                                *)

\* The invariant holds before the first directory is put into the pool.
LEMMA InitScan == Init => ScanInv
<1> SUFFICES ASSUME Init PROVE ScanInv
  OBVIOUS
<1>1. DOMAIN index = DOMAIN tree /\ \A p \in DOMAIN tree : index[p] = Db(p)
  BY DEF Init
<1>2. /\ IsFiniteSet(DOMAIN tree)
      /\ \A p \in DOMAIN tree :
             /\ p \in Seq(Names \cup {Root}) /\ p # <<>> /\ p[1] = Root
             /\ \A k \in 2 .. Len(p) : p[k] \in Names
             /\ \A n \in 1 .. Len(p) : SubSeq(p, 1, n) \in DOMAIN tree
             /\ tree[p] \in Inodes
  BY TreesAssumption DEF Init
<1>3. DOMAIN tree \subseteq Paths
  <2> SUFFICES ASSUME NEW p \in DOMAIN tree PROVE p \in Paths
    OBVIOUS
  <2>1. p \in Seq(Elements)
    BY <1>2 DEF Elements
  <2>2. Len(p) > 0
    BY <1>2, <2>1
  <2> QED  BY <1>2, <2>1, <2>2 DEF Paths, IsPath
<1>4. IsTree(DOMAIN tree)
  BY <1>2, <1>3 DEF IsTree, Closed
<1>5. version \in [Inodes -> Nat]
  BY DEF Init
<1>6. \A p \in DOMAIN tree : Db(p) \in Dbs
  BY <1>2, <1>4, <1>5, DbType
<1>7. TreeInv
  <2>1. lot = [i \in {} |-> Null] /\ rc = 0
    BY DEF Init
  <2> QED  BY <1>1, <1>2, <1>4, <1>5, <1>6, <2>1 DEF TreeInv
<1>8. RowInv /\ PhaseInv /\ TopInv
  BY DEF Init, RowInv, PhaseInv, TopInv, Scanning
<1>9. PoolInv
  BY FS_EmptySet DEF Init, PoolInv, Alone
<1>10. CoverInv
  BY DEF Init, CoverInv, Scanning, ScanIsComplete
<1> QED  BY <1>7, <1>8, <1>9, <1>10 DEF ScanInv

-----------------------------------------------------------------------------
(* The changes before the update                                           *)

\* Nothing is being walked or updated while the tree changes.
LEMMA IdleStays ==
    ASSUME ScanInv, pc = "idle",
           IsTree(DOMAIN tree'), \A p \in DOMAIN tree' : tree'[p] \in Inodes,
           version' \in [Inodes -> Nat],
           UNCHANGED <<indexVars, scanVars, pc, tops, top, rows, rc, histVars>>
    PROVE  ScanInv'
<1>1. UNCHANGED <<index, lot, iwork, twork, counter, isnap, tsnap, pc, tops, top, rows, rc,
                  updated, unread, failed>>
  BY DEF indexVars, scanVars, histVars
<1>2. TreeInv'
  BY <1>1 DEF ScanInv, TreeInv
<1>3. RowInv' /\ PhaseInv'
  BY <1>1 DEF ScanInv, RowInv, PhaseInv, Scanning
<1>4. TopInv'
  BY <1>1 DEF ScanInv, TopInv, PhaseInv
<1>5. PoolInv'
  BY <1>1 DEF ScanInv, PoolInv, PhaseInv, Scanning
<1>6. CoverInv'
  BY <1>1 DEF CoverInv, Scanning, ScanIsComplete
<1> QED  BY <1>2, <1>3, <1>4, <1>5, <1>6 DEF ScanInv

\* A user changes the tree and leaves it a tree.
LEMMA UsersStep ==
    ASSUME ScanInv, Users
    PROVE  ScanInv'
<1>0. /\ IsTree(DOMAIN tree) /\ \A p \in DOMAIN tree : tree[p] \in Inodes
      /\ version \in [Inodes -> Nat]
  BY DEF ScanInv, TreeInv
<1>1. ASSUME NEW dirs, NEW files, Change(dirs, files)
      PROVE  /\ pc = "idle" /\ version' \in [Inodes -> Nat]
             /\ UNCHANGED <<indexVars, scanVars, pc, tops, top, rows, rc, histVars>>
  BY <1>0, <1>1 DEF Change
<1>2. ASSUME NEW p \in NewPaths PROVE p \in Paths
  <2>1. PICK q \in DOMAIN tree, n \in Names : p = Append(q, n)
    BY DEF NewPaths
  <2> QED  BY <1>0, <2>1, NewPath, TreeParent
<1>3. CASE \E p \in NewPaths, i \in Inodes : Mkdir(p, i)
  <2>1. PICK p \in NewPaths, i \in Inodes : Mkdir(p, i)
    BY <1>3
  <2>2. p \in Paths /\ HasParent(tree, p) /\ tree' = With(tree, p, i)
    BY <1>2, <2>1 DEF Mkdir, HasParent
  <2>3. IsTree(DOMAIN tree') /\ \A q \in DOMAIN tree' : tree'[q] \in Inodes
    BY <1>0, <2>2, WithTree
  <2> QED  BY <1>1, <2>1, <2>3, IdleStays DEF Mkdir
<1>4. CASE \E p \in DOMAIN tree : Rmdir(p)
  <2>1. PICK p \in DOMAIN tree : Rmdir(p)
    BY <1>4
  <2>2. IsTree(DOMAIN tree') /\ \A q \in DOMAIN tree' : tree'[q] \in Inodes
    BY <1>0, <2>1, RemovedTree DEF Rmdir
  <2> QED  BY <1>1, <2>1, <2>2, IdleStays DEF Rmdir
<1>5. CASE \E p \in DOMAIN tree, r \in NewPaths : Rename(p, r)
  <2>1. PICK p \in DOMAIN tree, r \in NewPaths : Rename(p, r)
    BY <1>5
  <2>2. r \in Paths /\ HasParent(tree, r) /\ tree' = Moved(tree, p, r) /\ ~IsPrefix(p, r)
    BY <1>2, <2>1 DEF Rename, HasParent
  <2>3. IsTree(DOMAIN tree') /\ \A q \in DOMAIN tree' : tree'[q] \in Inodes
    BY <1>0, <2>2, MovedTree
  <2> QED  BY <1>1, <2>1, <2>3, IdleStays DEF Rename
<1>6. CASE \E p \in DOMAIN tree : ChangeEntries(p) \/ ModifyFile(p)
  BY <1>0, <1>1, <1>6, IdleStays DEF ChangeEntries, ModifyFile
<1> QED  BY <1>3, <1>4, <1>5, <1>6 DEF Users

-----------------------------------------------------------------------------
(* From one top to the next                                                *)

\* The tops are apart: the search goes no deeper than the first that changed.
LEMMA FindTopsStep ==
    ASSUME ScanInv, NEW unopened \in SUBSET MayNotOpen, FindTops(unopened)
    PROVE  ScanInv'
<1>1. /\ pc = "idle" /\ pc' = "next" /\ updated' = tops' /\ unread' = {} /\ failed' = {}
      /\ tops' = {p \in DOMAIN tree :
                     /\ tree[p] \in changed \ unopened
                     /\ \A q \in DOMAIN tree :
                            IsStrictPrefix(q, p) => tree[q] \notin changed \cup unopened}
      /\ UNCHANGED <<tree, version, index, lot, iwork, twork, counter, isnap, tsnap, top, rows, rc>>
  BY DEF FindTops, treeVars, indexVars, scanVars
<1>2. TreeInv' /\ RowInv' /\ PhaseInv'
  BY <1>1 DEF ScanInv, TreeInv, RowInv, PhaseInv, Scanning
<1>3. TopInv'
  <2>1. \A s, t \in tops' : IsPrefix(s, t) => s = t
    BY <1>1 DEF IsStrictPrefix
  <2> QED  BY <1>1, <2>1 DEF TopInv
<1>4. PoolInv'
  BY <1>1 DEF ScanInv, PoolInv
<1>5. CoverInv'
  BY <1>1 DEF CoverInv, Scanning, ScanIsComplete
<1> QED  BY <1>2, <1>3, <1>4, <1>5 DEF ScanInv

\* A top that is taken is apart from those that have been updated.
LEMMA NextTopStep ==
    ASSUME ScanInv, NEW t \in tops, NextTop(t)
    PROVE  ScanInv'
<1>1. /\ pc = "next" /\ pc' = "index" /\ top' = t /\ tops' = tops \ {t} /\ counter' = 0
      /\ isnap' = {} /\ tsnap' = {}
      /\ UNCHANGED <<tree, version, index, lot, iwork, twork, rows, rc, updated, unread, failed>>
  BY DEF NextTop, treeVars, indexVars, histVars
<1>2. iwork = {} /\ twork = {}
  BY <1>1 DEF ScanInv, PhaseInv, Scanning
<1>3. TreeInv' /\ RowInv' /\ PhaseInv'
  BY <1>1, <1>2 DEF ScanInv, TreeInv, RowInv, PhaseInv, Scanning
<1>4. TopInv'
  BY <1>1 DEF ScanInv, TopInv
<1>5. PoolInv'
  BY <1>1, <1>2, FS_EmptySet DEF PoolInv, Alone
<1>6. CoverInv'
  BY <1>1 DEF CoverInv, Scanning, ScanIsComplete
<1> QED  BY <1>3, <1>4, <1>5, <1>6 DEF ScanInv

\* The run ends after the last top.
LEMMA FinishStep ==
    ASSUME ScanInv, Finish
    PROVE  ScanInv'
<1>1. /\ pc = "next" /\ pc' = "done"
      /\ UNCHANGED <<tree, version, index, lot, iwork, twork, counter, isnap, tsnap, tops, top,
                     rows, rc, updated, unread, failed>>
  BY DEF Finish, treeVars, indexVars, scanVars, histVars
<1>2. TreeInv' /\ RowInv' /\ PhaseInv' /\ TopInv' /\ PoolInv'
  BY <1>1 DEF ScanInv, TreeInv, RowInv, PhaseInv, Scanning, TopInv, PoolInv
<1>3. CoverInv'
  BY <1>1 DEF CoverInv, Scanning, ScanIsComplete
<1> QED  BY <1>2, <1>3 DEF ScanInv

-----------------------------------------------------------------------------
(* The walks start                                                         *)

\* A walk starts in front of everything below the top.
LEMMA StartFrontier ==
    ASSUME NEW t \in Paths, NEW D, NEW goal \in SUBSET Below(D, t), NEW refused,
           \A u \in refused : ~IsPrefix(t, u) /\ ~IsPrefix(u, t)
    PROVE  Frontier(goal, {t}, {}, refused) /\ Alone({t}) /\ Cardinality({t}) = 1
<1>1. IsFiniteSet({t}) /\ Cardinality({t}) = 1
  BY FS_Singleton
<1> QED  BY <1>1 DEF Frontier, Below, Alone

\* What could not be opened before is below another top.
LEMMA UnreadElsewhere ==
    ASSUME ScanInv, pc \in {"index", "tree"}
    PROVE  /\ top \in Paths /\ top \in DOMAIN tree
           /\ \A u \in unread : ~IsPrefix(top, u) /\ ~IsPrefix(u, top)
<1>1. /\ top \in updated /\ updated \subseteq DOMAIN tree
      /\ \A s, t \in updated : IsPrefix(s, t) => s = t
      /\ \A u \in unread : u \in Paths /\ \E t \in updated : IsPrefix(t, u) /\ t # top
  BY DEF ScanInv, TopInv
<1>2. DOMAIN tree \subseteq Paths
  BY DEF ScanInv, TreeInv, IsTree
<1>3. ASSUME NEW u \in unread PROVE ~IsPrefix(top, u) /\ ~IsPrefix(u, top)
  <2>1. PICK t \in updated : IsPrefix(t, u) /\ t # top
    BY <1>1
  <2>2. /\ top \in Seq(Elements) /\ t \in Seq(Elements) /\ u \in Seq(Elements)
        /\ Len(top) \in Nat /\ Len(t) \in Nat
    BY <1>1, <1>2 DEF Paths
  <2>3. ~IsPrefix(t, top) /\ ~IsPrefix(top, t)
    BY <1>1, <2>1
  <2>4. ~IsPrefix(u, top)
    BY <2>1, <2>2, <2>3, PrefixOrder
  <2>5. ~IsPrefix(top, u)
    <3>1. CASE Len(t) <= Len(top)
      BY <2>1, <2>2, <2>3, <3>1, PrefixOrder
    <3>2. CASE Len(top) <= Len(t)
      BY <2>1, <2>2, <2>3, <3>2, PrefixOrder
    <3> QED  BY <2>2, <3>1, <3>2
  <2> QED  BY <2>4, <2>5
<1> QED  BY <1>1, <1>2, <1>3

\* gen_index_snapshot starts, or the top has failed.
LEMMA ScanIndexStep ==
    ASSUME ScanInv, ScanIndex
    PROVE  ScanInv'
<1>0. /\ pc = "index" /\ iwork = {} /\ twork = {} /\ isnap = {} /\ tsnap = {}
      /\ top \in Paths /\ counter = 0
  <2>1. pc = "index" /\ top \in Paths
    BY UnreadElsewhere DEF ScanIndex
  <2>2. iwork = {} /\ twork = {} /\ isnap = {} /\ tsnap = {}
    BY <2>1 DEF ScanInv, PhaseInv, Scanning
  <2> QED  BY <2>1, <2>2, FS_EmptySet DEF ScanInv, PoolInv
<1>1. UNCHANGED <<tree, version, index, lot, twork, isnap, tsnap, tops, top, rows, updated, unread>>
  BY DEF ScanIndex, treeVars, indexVars
<1>2. CASE /\ iwork' = {top} /\ counter' = counter + 1 /\ pc' = "tree"
           /\ UNCHANGED <<rc, failed>>
  <2>1. TreeInv' /\ RowInv' /\ PhaseInv' /\ TopInv'
    BY <1>0, <1>1, <1>2 DEF ScanInv, TreeInv, RowInv, PhaseInv, Scanning, TopInv
  <2>2. /\ IndexGoal \in SUBSET Below(DOMAIN index, top) /\ IndexGoal' = IndexGoal
    BY <1>1 DEF IndexGoal
  <2>3. Frontier(IndexGoal, {top}, {}, {}) /\ Alone({top}) /\ Cardinality({top}) = 1
    BY <1>0, <2>2, StartFrontier
  <2>4. PoolInv'
    <3>1. IsPrefix(top, top)
      BY <1>0, PrefixOrder DEF Paths
    <3> QED  BY <1>0, <1>1, <1>2, <2>3, <3>1, FS_EmptySet DEF ScanInv, PoolInv
  <2>5. PathsOf(isnap') = {}
    BY <1>0, <1>1 DEF PathsOf
  <2>6. CoverInv'
    BY <1>0, <1>1, <1>2, <2>2, <2>3, <2>5 DEF CoverInv, Scanning, ScanIsComplete
  <2> QED  BY <2>1, <2>4, <2>6 DEF ScanInv
<1>3. CASE /\ rc' = 1 /\ pc' = "wait" /\ Failed
           /\ UNCHANGED <<iwork, counter>>
  <2>1. TreeInv' /\ RowInv' /\ PhaseInv' /\ TopInv' /\ PoolInv'
    BY <1>0, <1>1, <1>3 DEF ScanInv, TreeInv, RowInv, PhaseInv, Scanning, TopInv, PoolInv
  <2>2. CoverInv'
    BY <1>1, <1>3 DEF CoverInv, Scanning, ScanIsComplete, Failed
  <2> QED  BY <2>1, <2>2 DEF ScanInv
<1> QED  BY <1>2, <1>3 DEF ScanIndex

\* find_suspects starts, or the top has failed while the other walk goes on.
LEMMA ScanTreeStep ==
    ASSUME ScanInv, ScanTree
    PROVE  ScanInv'
<1>0. /\ pc = "tree" /\ twork = {} /\ tsnap = {} /\ top \in Paths /\ top \in DOMAIN tree
      /\ \A u \in unread : ~IsPrefix(top, u) /\ ~IsPrefix(u, top)
      /\ counter = Cardinality(iwork) /\ Cardinality(iwork) \in Nat
  <2>1. /\ pc = "tree" /\ top \in Paths /\ top \in DOMAIN tree
        /\ \A u \in unread : ~IsPrefix(top, u) /\ ~IsPrefix(u, top)
    BY UnreadElsewhere DEF ScanTree
  <2>2. twork = {} /\ tsnap = {}
    BY <2>1 DEF ScanInv, PhaseInv
  <2>3. Cardinality(iwork) \in Nat
    BY FS_CardinalityType DEF ScanInv, PoolInv, Alone
  <2> QED  BY <2>1, <2>2, <2>3, FS_EmptySet DEF ScanInv, PoolInv
<1>1. /\ pc' = "wait"
      /\ UNCHANGED <<tree, version, index, lot, iwork, isnap, tsnap, tops, top, rows, updated, unread>>
  BY DEF ScanTree, treeVars, indexVars
<1>2. IndexGoal' = IndexGoal /\ TreeGoal' = TreeGoal
  BY <1>1 DEF IndexGoal, TreeGoal
<1>3. CASE twork' = {top} /\ counter' = counter + 1 /\ UNCHANGED <<rc, failed>>
  <2>1. TreeInv' /\ RowInv' /\ PhaseInv' /\ TopInv'
    BY <1>0, <1>1, <1>3 DEF ScanInv, TreeInv, RowInv, PhaseInv, Scanning, TopInv
  <2>2. TreeGoal \in SUBSET Below(DOMAIN tree, top)
    BY DEF TreeGoal
  <2>3. Frontier(TreeGoal, {top}, {}, unread) /\ Alone({top}) /\ Cardinality({top}) = 1
    BY <1>0, <2>2, StartFrontier
  <2>4. PoolInv'
    <3>1. IsPrefix(top, top)
      BY <1>0, PrefixOrder DEF Paths
    <3> QED  BY <1>0, <1>1, <1>3, <2>3, <3>1 DEF ScanInv, PoolInv
  <2>5. PathsOf(tsnap') = {} /\ PathsOf(isnap') = PathsOf(isnap)
    BY <1>0, <1>1 DEF PathsOf
  <2>6. top \notin failed => Frontier(IndexGoal, iwork, PathsOf(isnap), {})
    BY <1>0 DEF ScanInv, CoverInv, Scanning
  <2>7. CoverInv'
    BY <1>1, <1>2, <1>3, <2>3, <2>5, <2>6 DEF CoverInv, ScanIsComplete
  <2> QED  BY <2>1, <2>4, <2>7 DEF ScanInv
<1>4. CASE rc' = 1 /\ Failed /\ UNCHANGED <<twork, counter>>
  <2>1. TreeInv' /\ RowInv' /\ PhaseInv' /\ TopInv' /\ PoolInv'
    BY <1>0, <1>1, <1>4 DEF ScanInv, TreeInv, RowInv, PhaseInv, Scanning, TopInv, PoolInv
  <2>2. CoverInv'
    BY <1>1, <1>4 DEF CoverInv, Scanning, ScanIsComplete, Failed
  <2> QED  BY <2>1, <2>2 DEF ScanInv
<1> QED  BY <1>3, <1>4 DEF ScanTree

-----------------------------------------------------------------------------
(* The walks                                                               *)

\* Broadcast wakes main(), which is where it was or about to look again.
LEMMA BroadcastIs ==
    ASSUME Scanning, pc' = Broadcast
    PROVE  Scanning' /\ (pc' = "tree" <=> pc = "tree")
BY DEF Scanning, Broadcast

\* A directory of the index is read.
LEMMA IndexDirStep ==
    ASSUME ScanInv, NEW p \in iwork, IndexDir(p)
    PROVE  ScanInv'
<1> DEFINE subdirs == IF p \in DOMAIN index THEN Subdirectories(DOMAIN index, p) ELSE {}
           new == {q \in {p} \cap DOMAIN index : index[q] # Null}
<1>0. /\ iwork' = (iwork \ {p}) \cup subdirs
      /\ isnap' = isnap \cup
             {[path |-> q, inode |-> index[q].inode, pinode |-> index[q].pinode] : q \in new}
      /\ counter' = Count(subdirs) /\ pc' = Broadcast
      /\ UNCHANGED <<tree, version, index, lot, twork, tsnap, tops, top, rows, rc, updated, unread, failed>>
  BY DEF IndexDir, treeVars, indexVars, histVars
<1>1. /\ IsTree(DOMAIN index) /\ \A q \in DOMAIN index : index[q] \in Dbs \cup {Null}
      /\ Alone(iwork) /\ IsPrefix(top, p)
      /\ \A q \in iwork \cup twork : IsPrefix(top, q)
      /\ counter = Cardinality(iwork) + Cardinality(twork)
  BY DEF ScanInv, TreeInv, PoolInv
<1>2. Scanning /\ Scanning' /\ (pc' = "tree" <=> pc = "tree")
  <2>1. Scanning
    BY DEF ScanInv, PhaseInv
  <2> QED  BY <1>0, <2>1, BroadcastIs
<1>3. subdirs = Subdirectories(DOMAIN index, p)
  <2> SUFFICES ASSUME p \notin DOMAIN index, NEW s \in DOMAIN index, IsPrefix(p, s) PROVE FALSE
    BY DEF Subdirectories
  <2>1. p \in Paths
    BY <1>1 DEF Alone
  <2> QED  BY <1>1, <2>1, ClosedPrefix DEF IsTree
<1>4. /\ Alone(iwork') /\ Cardinality(iwork') = Cardinality(iwork) + Cardinality(subdirs) - 1
      /\ \A s \in subdirs : IsPrefix(p, s) /\ s \in DOMAIN index
      /\ Cardinality(subdirs) \in Nat
  <2> HIDE DEF subdirs
  <2>1. LET S == Subdirectories(DOMAIN index, p)
            next == (iwork \ {p}) \cup S
        IN  /\ Alone(next) /\ Cardinality(next) = Cardinality(iwork) + Cardinality(S) - 1
            /\ S \subseteq DOMAIN index /\ \A s \in S : IsPrefix(p, s)
            /\ Cardinality(S) \in Nat
    BY <1>1, DescendAlone
  <2> QED  BY <1>0, <1>3, <2>1
<1> HIDE DEF subdirs
<1>5. TreeInv' /\ PhaseInv' /\ TopInv'
  BY <1>0, <1>2 DEF ScanInv, TreeInv, PhaseInv, TopInv, Scanning
<1>6. RowInv'
  <2>1. \A q \in new : q \in Paths /\ index[q] \in Dbs
    BY <1>1 DEF IsTree
  <2>2. isnap' \subseteq IndexRows
    BY <1>0, <2>1 DEF ScanInv, RowInv, IndexRows, Dbs
  <2> QED  BY <1>0, <1>2, <2>2 DEF ScanInv, RowInv, Scanning
<1>7. PoolInv'
  <2>1. \A s \in subdirs : IsPrefix(top, s)
    <3> SUFFICES ASSUME NEW s \in subdirs PROVE IsPrefix(top, s)
      OBVIOUS
    <3>1. top \in Paths
      <4>1. top \in DOMAIN tree
        BY <1>2 DEF ScanInv, TopInv, Scanning
      <4> QED  BY <4>1 DEF ScanInv, TreeInv, IsTree
    <3>2. top \in Seq(Elements) /\ p \in Seq(Elements) /\ s \in Seq(Elements)
      BY <1>1, <1>4, <3>1 DEF Paths, Alone, IsTree
    <3> QED  BY <1>1, <1>4, <3>2, PrefixOrder
  <2>2. Cardinality(iwork) \in Nat /\ Cardinality(twork) \in Nat
    BY FS_CardinalityType DEF ScanInv, PoolInv, Alone
  <2>3. counter' = Cardinality(iwork') + Cardinality(twork)
    BY <1>0, <1>1, <1>4, <2>2 DEF Count
  <2> QED  BY <1>0, <1>1, <1>4, <2>1, <2>3 DEF ScanInv, PoolInv
<1>8. CoverInv'
  <2>1. IndexGoal' = IndexGoal /\ TreeGoal' = TreeGoal /\ PathsOf(tsnap') = PathsOf(tsnap)
    BY <1>0 DEF IndexGoal, TreeGoal, PathsOf
  <2>2. new = {p} \cap IndexGoal
    BY <1>1 DEF IndexGoal, Below
  <2>3. PathsOf(isnap') = PathsOf(isnap) \cup new
    <3> DEFINE row(q) == [path |-> q, inode |-> index[q].inode, pinode |-> index[q].pinode]
    <3>1. \A q : row(q).path = q
      OBVIOUS
    <3> HIDE DEF new
    <3>2. isnap' = isnap \cup {row(q) : q \in new}
      BY <1>0
    <3> HIDE DEF row
    <3> QED  BY <3>1, <3>2 DEF PathsOf
  <2>4. ASSUME top \notin failed PROVE Frontier(IndexGoal, iwork', PathsOf(isnap'), {})
    <3>1. Frontier(IndexGoal, iwork, PathsOf(isnap), {})
      BY <1>2, <2>4 DEF ScanInv, CoverInv
    <3>2. IndexGoal \in SUBSET DOMAIN index
      BY DEF IndexGoal, Below
    <3>3. Frontier(IndexGoal, (iwork \ {p}) \cup Subdirectories(DOMAIN index, p),
                   PathsOf(isnap) \cup ({p} \cap IndexGoal), {})
      BY <1>1, <3>1, <3>2, DescendFrontier
    <3> QED  BY <1>0, <1>3, <2>2, <2>3, <3>3
  <2>5. ScanIsComplete'
    BY <1>2 DEF ScanIsComplete, Scanning
  <2> QED  BY <1>0, <1>2, <2>1, <2>4, <2>5 DEF ScanInv, CoverInv
<1> QED  BY <1>5, <1>6, <1>7, <1>8 DEF ScanInv

\* A directory of the source tree is read.
LEMMA TreeDirStep ==
    ASSUME ScanInv, NEW p \in twork, TreeDir(p)
    PROVE  ScanInv'
<1> DEFINE subdirs == Subdirectories(DOMAIN tree, p)
           row == [path |-> p, inode |-> tree[p], pinode |-> PInode(p), suspect |-> Suspect(tree[p])]
<1>0. /\ twork' = (twork \ {p}) \cup subdirs
      /\ tsnap' = tsnap \cup {row}
      /\ lot' = IF Suspect(tree[p]) THEN With(lot, tree[p], Db(p)) ELSE lot
      /\ counter' = Count(subdirs) /\ pc' = Broadcast
      /\ UNCHANGED <<tree, version, index, iwork, isnap, tops, top, rows, rc, updated, unread, failed>>
  BY DEF TreeDir, treeVars, histVars
<1>1. /\ IsTree(DOMAIN tree) /\ \A q \in DOMAIN tree : tree[q] \in Inodes
      /\ version \in [Inodes -> Nat]
      /\ Alone(twork) /\ IsPrefix(top, p) /\ p \in DOMAIN tree
      /\ \A q \in iwork \cup twork : IsPrefix(top, q)
      /\ counter = Cardinality(iwork) + Cardinality(twork)
  BY DEF ScanInv, TreeInv, PoolInv
<1>2. /\ Scanning /\ pc # "tree" /\ Scanning' /\ pc' # "tree"
  <2>1. Scanning /\ pc # "tree"
    BY DEF ScanInv, PhaseInv
  <2> QED  BY <1>0, <2>1, BroadcastIs
<1>3. /\ Alone(twork') /\ Cardinality(twork') = Cardinality(twork) + Cardinality(subdirs) - 1
      /\ subdirs \subseteq DOMAIN tree /\ \A s \in subdirs : IsPrefix(p, s)
      /\ Cardinality(subdirs) \in Nat
  BY <1>0, <1>1, DescendAlone
<1> HIDE DEF subdirs
<1>4. p \in Paths /\ Db(p) \in Dbs /\ PInode(p) \in Inodes \cup {0}
  BY <1>1, DbType, TreeParent
<1>5. TreeInv'
  <2>1. DOMAIN lot' \subseteq Inodes /\ \A i \in DOMAIN lot' : lot'[i] \in Dbs
    BY <1>0, <1>1, <1>4 DEF ScanInv, TreeInv, With
  <2> QED  BY <1>0, <2>1 DEF ScanInv, TreeInv
<1>6. PhaseInv' /\ TopInv'
  BY <1>0, <1>2 DEF ScanInv, PhaseInv, TopInv, Scanning
<1>7. RowInv'
  <2>1. row \in TreeRows
    BY <1>1, <1>4 DEF TreeRows, Suspect
  <2> HIDE DEF row
  <2> QED  BY <1>0, <1>2, <2>1 DEF ScanInv, RowInv, Scanning
<1>8. PoolInv'
  <2>1. \A s \in subdirs : IsPrefix(top, s)
    <3> SUFFICES ASSUME NEW s \in subdirs PROVE IsPrefix(top, s)
      OBVIOUS
    <3>1. top \in DOMAIN tree
      BY <1>2 DEF ScanInv, TopInv, Scanning
    <3>2. top \in Seq(Elements) /\ p \in Seq(Elements) /\ s \in Seq(Elements)
      BY <1>1, <1>3, <3>1 DEF Paths, IsTree
    <3> QED  BY <1>1, <1>3, <3>2, PrefixOrder
  <2>2. Cardinality(iwork) \in Nat /\ Cardinality(twork) \in Nat
    BY FS_CardinalityType DEF ScanInv, PoolInv, Alone
  <2>3. counter' = Cardinality(iwork) + Cardinality(twork')
    BY <1>0, <1>1, <1>3, <2>2 DEF Count
  <2> QED  BY <1>0, <1>1, <1>3, <2>1, <2>3 DEF ScanInv, PoolInv
<1>9. CoverInv'
  <2>1. IndexGoal' = IndexGoal /\ TreeGoal' = TreeGoal /\ PathsOf(isnap') = PathsOf(isnap)
    BY <1>0 DEF IndexGoal, TreeGoal, PathsOf
  <2>2. {p} = {p} \cap TreeGoal
    BY <1>1 DEF TreeGoal, Below
  <2>3. PathsOf(tsnap') = PathsOf(tsnap) \cup {p}
    <3>1. row.path = p
      OBVIOUS
    <3> HIDE DEF row
    <3> QED  BY <1>0, <3>1 DEF PathsOf
  <2>4. ASSUME top \notin failed PROVE Frontier(TreeGoal, twork', PathsOf(tsnap'), unread)
    <3>1. Frontier(TreeGoal, twork, PathsOf(tsnap), unread)
      BY <1>2, <2>4 DEF ScanInv, CoverInv
    <3>2. TreeGoal \in SUBSET DOMAIN tree /\ unread \in SUBSET Paths
      BY DEF TreeGoal, Below, ScanInv, TopInv
    <3>3. Frontier(TreeGoal, (twork \ {p}) \cup Subdirectories(DOMAIN tree, p),
                   PathsOf(tsnap) \cup ({p} \cap TreeGoal), unread)
      BY <1>1, <3>1, <3>2, DescendFrontier
    <3> QED  BY <1>0, <2>2, <2>3, <3>3 DEF subdirs
  <2>5. ScanIsComplete'
    BY <1>2 DEF ScanIsComplete, Scanning
  <2> QED  BY <1>0, <1>2, <2>1, <2>4, <2>5 DEF ScanInv, CoverInv
<1> QED  BY <1>5, <1>6, <1>7, <1>8, <1>9 DEF ScanInv

\* A directory cannot be opened.
LEMMA TreeDirFailsStep ==
    ASSUME ScanInv, NEW p \in twork, TreeDirFails(p)
    PROVE  ScanInv'
<1>0. /\ twork' = twork \ {p} /\ counter' = Count({}) /\ pc' = Broadcast
      /\ unread' = unread \cup {p}
      /\ UNCHANGED <<tree, version, index, lot, iwork, isnap, tsnap, tops, top, rows, rc, updated, failed>>
  BY DEF TreeDirFails, treeVars, indexVars
<1>1. Alone(twork) /\ IsPrefix(top, p) /\ counter = Cardinality(iwork) + Cardinality(twork)
  BY DEF ScanInv, PoolInv
<1>2. /\ Scanning /\ pc # "tree" /\ Scanning' /\ pc' # "tree"
  <2>1. Scanning /\ pc # "tree"
    BY DEF ScanInv, PhaseInv
  <2> QED  BY <1>0, <2>1, BroadcastIs
<1>3. /\ Alone(twork') /\ Cardinality(twork') = Cardinality(twork) - 1
      /\ Cardinality(twork) \in Nat /\ Cardinality(iwork) \in Nat
  BY <1>0, RefuseAlone, FS_CardinalityType DEF ScanInv, PoolInv, Alone
<1>4. TreeInv' /\ PhaseInv' /\ RowInv'
  BY <1>0, <1>2 DEF ScanInv, TreeInv, PhaseInv, RowInv, Scanning
<1>5. TopInv'
  <2>1. top \in updated \ tops /\ p \in Paths
    BY <1>1, <1>2 DEF ScanInv, TopInv, Scanning, Alone
  <2> QED  BY <1>0, <1>1, <1>2, <2>1 DEF ScanInv, TopInv, Scanning
<1>6. PoolInv'
  <2>1. counter' = Cardinality(iwork) + Cardinality(twork')
    BY <1>0, <1>1, <1>3, FS_EmptySet DEF Count
  <2> QED  BY <1>0, <1>3, <2>1 DEF ScanInv, PoolInv
<1>7. CoverInv'
  <2>1. IndexGoal' = IndexGoal /\ TreeGoal' = TreeGoal /\ PathsOf(isnap') = PathsOf(isnap)
        /\ PathsOf(tsnap') = PathsOf(tsnap)
    BY <1>0 DEF IndexGoal, TreeGoal, PathsOf
  <2>2. ASSUME top \notin failed PROVE Frontier(TreeGoal, twork', PathsOf(tsnap'), unread')
    <3>1. Frontier(TreeGoal, twork, PathsOf(tsnap), unread)
      BY <1>2, <2>2 DEF ScanInv, CoverInv
    <3> QED  BY <1>0, <1>1, <2>1, <3>1, RefuseFrontier
  <2>3. ScanIsComplete'
    BY <1>2 DEF ScanIsComplete, Scanning
  <2> QED  BY <1>0, <1>2, <2>1, <2>2, <2>3 DEF ScanInv, CoverInv
<1> QED  BY <1>4, <1>5, <1>6, <1>7 DEF ScanInv

-----------------------------------------------------------------------------
(* The walks have ended                                                    *)

\* main() leaves the wait when nothing is in the pool: the snapshots are
\* complete.
LEMMA WaitStep ==
    ASSUME ScanInv, Wait
    PROVE  ScanInv'
<1>0. /\ pc = "wait"
      /\ UNCHANGED <<tree, version, index, lot, iwork, twork, counter, isnap, tsnap, tops, top,
                     rows, rc, updated, unread, failed>>
      /\ \/ counter # 0 /\ pc' = "asleep"
         \/ counter = 0 /\ top \in failed /\ pc' = "next"
         \/ counter = 0 /\ top \notin failed /\ pc' = "diff"
  BY DEF Wait, treeVars, indexVars, scanVars, histVars
<1>1. counter = 0 => iwork = {} /\ twork = {}
  <2>1. /\ IsFiniteSet(iwork) /\ IsFiniteSet(twork)
        /\ counter = Cardinality(iwork) + Cardinality(twork)
    BY DEF ScanInv, PoolInv, Alone
  <2>2. Cardinality(iwork) \in Nat /\ Cardinality(twork) \in Nat
    BY <2>1, FS_CardinalityType
  <2>3. counter = 0 => Cardinality(iwork) = 0 /\ Cardinality(twork) = 0
    BY <2>1, <2>2
  <2> QED  BY <2>1, <2>3, FS_EmptySet
<1>2. TreeInv' /\ RowInv' /\ PhaseInv' /\ TopInv' /\ PoolInv'
  BY <1>0, <1>1 DEF ScanInv, TreeInv, RowInv, PhaseInv, Scanning, TopInv, PoolInv
<1>3. IndexGoal' = IndexGoal /\ TreeGoal' = TreeGoal /\ PathsOf(isnap') = PathsOf(isnap)
      /\ PathsOf(tsnap') = PathsOf(tsnap)
  BY <1>0 DEF IndexGoal, TreeGoal, PathsOf
<1>4. top \notin failed => /\ Frontier(IndexGoal, iwork, PathsOf(isnap), {})
                           /\ Frontier(TreeGoal, twork, PathsOf(tsnap), unread)
  BY <1>0 DEF ScanInv, CoverInv, Scanning
<1>5. CASE pc' = "asleep"
  <2>1. ScanIsComplete'
    BY <1>5 DEF ScanIsComplete
  <2>2. CoverInv'
    BY <1>0, <1>3, <1>4, <2>1 DEF CoverInv
  <2> QED  BY <1>2, <2>2 DEF ScanInv
<1>6. CASE counter = 0 /\ top \in failed /\ pc' = "next"
  BY <1>2, <1>6 DEF ScanInv, CoverInv, Scanning, ScanIsComplete
<1>7. CASE counter = 0 /\ top \notin failed /\ pc' = "diff"
  <2>0. /\ Frontier(IndexGoal, {}, PathsOf(isnap), {})
        /\ Frontier(TreeGoal, {}, PathsOf(tsnap), unread)
    BY <1>1, <1>4, <1>7
  <2>1. PathsOf(isnap) = IndexGoal
    BY <2>0 DEF Frontier
  <2>2. PathsOf(tsnap) = {p \in TreeGoal : \A u \in unread : ~IsPrefix(u, p)}
    BY <2>0, FrontierEnds, Zenon
  <2>3. ScanIsComplete'
    <3>1. {r.path : r \in isnap} = {p \in Below(DOMAIN index, top) : index[p] # Null}
      BY <2>1 DEF PathsOf, IndexGoal
    <3>2. {t.path : t \in tsnap} = {p \in Below(DOMAIN tree, top) : Seen(p)}
      BY <2>2 DEF PathsOf, TreeGoal, Seen
    <3> QED  BY <1>0, <1>1, <1>7, <3>1, <3>2 DEF ScanIsComplete, Seen
  <2>4. CoverInv'
    BY <1>7, <2>3 DEF CoverInv, Scanning
  <2> QED  BY <1>2, <2>4 DEF ScanInv
<1> QED  BY <1>0, <1>5, <1>6, <1>7

\* The differences: what is moved or created has a row.
LEMMA DiffRows ==
    ASSUME RowInv, NEW d \in Diff
    PROVE  /\ d.tr # Null => d.tr \in tsnap
           /\ d.ix = Null \/ HasMoved(d) => d.tr # Null
<1>1. Null \notin IndexRows /\ Null \notin TreeRows
  BY RowAssumption DEF IndexRows, TreeRows, Paths, Elements
<1>2. Null \notin isnap /\ Null \notin tsnap
  BY <1>1 DEF RowInv
<1>3. d \in Urd \/ d \in Created
  BY DEF Diff, AllMatches
<1>4. CASE d \in Urd
  BY <1>2, <1>4 DEF Urd, HasMoved
<1>5. CASE d \in Created
  BY <1>2, <1>5 DEF Created
<1> QED  BY <1>3, <1>4, <1>5

\* The join of the two snapshots only computes the rows to go through.
LEMMA GetDiffStep ==
    ASSUME ScanInv, GetDiff
    PROVE  ScanInv'
<1>0. /\ pc = "diff"
      /\ UNCHANGED <<tree, version, index, lot, iwork, twork, counter, isnap, tsnap, tops, top,
                     rc, updated, unread>>
  BY DEF GetDiff, treeVars, indexVars, scanVars
<1>1. CASE /\ rows' = {d \in Diff : d.tr = Null \/ HasMoved(d)} /\ pc' = "remove"
           /\ UNCHANGED failed
  <2>1. TreeInv' /\ PhaseInv' /\ TopInv' /\ PoolInv'
    BY <1>0, <1>1 DEF ScanInv, TreeInv, PhaseInv, Scanning, TopInv, PoolInv
  <2>2. \A d \in rows' : d.tr # Null => d.tr \in tsnap
    BY <1>1, DiffRows DEF ScanInv
  <2>3. RowInv'
    BY <1>0, <1>1, <2>2 DEF ScanInv, RowInv
  <2>4. CoverInv'
    BY <1>0, <1>1 DEF ScanInv, CoverInv, Scanning, ScanIsComplete, Seen
  <2> QED  BY <2>1, <2>3, <2>4 DEF ScanInv
<1>2. CASE pc' = "next" /\ Failed /\ UNCHANGED rows
  <2>1. TreeInv' /\ RowInv' /\ PhaseInv' /\ TopInv' /\ PoolInv'
    BY <1>0, <1>2 DEF ScanInv, TreeInv, RowInv, PhaseInv, Scanning, TopInv, PoolInv
  <2>2. CoverInv'
    BY <1>2 DEF CoverInv, Scanning, ScanIsComplete
  <2> QED  BY <2>1, <2>2 DEF ScanInv
<1> QED  BY <1>1, <1>2 DEF GetDiff

\* The statement of the next phase only picks the rows of that phase.
LEMMA QueryStep ==
    ASSUME ScanInv, Query
    PROVE  ScanInv'
<1>0. /\ UNCHANGED <<tree, version, index, lot, iwork, twork, counter, isnap, tsnap, tops, top,
                     rc, updated, unread, failed>>
      /\ \/ /\ pc = "remove" /\ rows' = {d \in Diff : d.ix = Null \/ HasMoved(d)}
            /\ pc' = "create"
         \/ pc = "create" /\ pc' = "update"
         \/ pc = "update" /\ pc' = "next"
  BY DEF Query, treeVars, indexVars, scanVars, histVars
<1>1. TreeInv' /\ PhaseInv' /\ TopInv' /\ PoolInv'
  BY <1>0 DEF ScanInv, TreeInv, PhaseInv, Scanning, TopInv, PoolInv
<1>2. RowInv'
  <2>1. pc' = "create" => \A d \in rows' : d.tr # Null /\ d.tr \in tsnap
    BY <1>0, DiffRows DEF ScanInv
  <2> QED  BY <1>0, <2>1 DEF ScanInv, RowInv
<1>3. CoverInv'
  BY <1>0 DEF CoverInv, Scanning, ScanIsComplete
<1> QED  BY <1>1, <1>2, <1>3 DEF ScanInv

-----------------------------------------------------------------------------
(* The update keeps the index a tree                                       *)

\* A step of the update that leaves the index a tree keeps the invariant.
LEMMA UpdateStays ==
    ASSUME ScanInv, pc \in {"remove", "create", "update"},
           rows' \subseteq rows,
           IsTree(DOMAIN index'), \A p \in DOMAIN index' : index'[p] \in Dbs \cup {Null},
           DOMAIN lot' \subseteq Inodes, \A i \in DOMAIN lot' : lot'[i] \in Dbs,
           UNCHANGED <<treeVars, scanVars, pc, tops, top, rc, histVars>>
    PROVE  ScanInv'
<1>0. UNCHANGED <<tree, version, iwork, twork, counter, isnap, tsnap, pc, tops, top, rc,
                  updated, unread, failed>>
  BY DEF treeVars, scanVars, histVars
<1>1. TreeInv' /\ RowInv' /\ PhaseInv' /\ TopInv' /\ PoolInv'
  BY <1>0 DEF ScanInv, TreeInv, RowInv, PhaseInv, Scanning, TopInv, PoolInv
<1>2. CoverInv'
  BY <1>0 DEF ScanInv, CoverInv, Scanning, ScanIsComplete, Seen
<1> QED  BY <1>1, <1>2 DEF ScanInv

\* A directory of the parking lot has a path.
LEMMA LotPath ==
    ASSUME NEW i \in Inodes
    PROVE  <<i>> \in Paths
BY DEF Paths, IsPath, Elements

\* The first phase deletes or parks a directory of the index.
LEMMA RemoveStep ==
    ASSUME ScanInv, NEW d \in rows, RemoveOrMoveOut(d)
    PROVE  ScanInv'
<1> DEFINE p == d.ix.path
           r == <<d.tr.inode>>
<1>0. /\ pc = "remove" /\ rows' = rows \ {d}
      /\ index' = CASE d.tr = Null /\ p \in DOMAIN index /\ index[p] # Null -> Deleted(index, p)
                    [] d.tr # Null /\ CanRename(index, p, r) -> Moved(index, p, r)
                    [] OTHER -> index
      /\ UNCHANGED lot
      /\ UNCHANGED <<treeVars, scanVars, pc, tops, top, rc, histVars>>
  BY DEF RemoveOrMoveOut
<1>1. /\ IsTree(DOMAIN index) /\ \A q \in DOMAIN index : index[q] \in Dbs \cup {Null}
      /\ DOMAIN lot \subseteq Inodes /\ \A i \in DOMAIN lot : lot[i] \in Dbs
  BY DEF ScanInv, TreeInv
<1>2. IsTree(DOMAIN index') /\ \A q \in DOMAIN index' : index'[q] \in Dbs \cup {Null}
  <2>1. CASE d.tr = Null /\ p \in DOMAIN index /\ index[p] # Null /\ index' = Deleted(index, p)
    <3>1. CASE Below(DOMAIN index, p) = {p}
      BY <1>1, <2>1, <3>1, RemovedTree DEF Deleted
    <3>2. CASE Below(DOMAIN index, p) # {p}
      <4>1. p \in Paths /\ HasParent(index, p) /\ index' = With(index, p, Null)
        BY <1>1, <2>1, <3>2, TreeParent DEF Deleted
      <4> QED  BY <1>1, <4>1, WithTree
    <3> QED  BY <3>1, <3>2
  <2>2. CASE d.tr # Null /\ CanRename(index, p, r) /\ index' = Moved(index, p, r)
    <3>1. d.tr \in TreeRows
      BY <1>0, <2>2 DEF ScanInv, RowInv
    <3>2. r \in Paths
      BY <3>1, LotPath DEF TreeRows
    <3>3. p \in DOMAIN index /\ HasParent(index, r) /\ ~IsPrefix(p, r)
      BY <2>2 DEF CanRename
    <3> QED  BY <1>1, <2>2, <3>2, <3>3, MovedTree
  <2>3. CASE index' = index
    BY <1>1, <2>3
  <2> QED  BY <1>0, <2>1, <2>2, <2>3
<1> QED  BY <1>0, <1>1, <1>2, UpdateStays

\* The second phase makes a directory or moves a parked one in.
LEMMA CreateStep ==
    ASSUME ScanInv, NEW d \in rows, CreateOrMoveIn(d)
    PROVE  ScanInv'
<1> DEFINE p == d.tr.path
           l == <<d.tr.inode>>
<1>0. /\ pc = "create" /\ rows' = rows \ {d}
      /\ index' = CASE d.ix = Null /\ p \notin DOMAIN index /\ HasParent(index, p) ->
                           With(index, p, Null)
                    [] d.ix # Null /\ CanRename(index, l, p) -> Moved(index, l, p)
                    [] OTHER -> index
      /\ UNCHANGED lot
      /\ UNCHANGED <<treeVars, scanVars, pc, tops, top, rc, histVars>>
  BY DEF CreateOrMoveIn
<1>1. /\ IsTree(DOMAIN index) /\ \A q \in DOMAIN index : index[q] \in Dbs \cup {Null}
      /\ DOMAIN lot \subseteq Inodes /\ \A i \in DOMAIN lot : lot[i] \in Dbs
  BY DEF ScanInv, TreeInv
<1>2. p \in Paths
  BY <1>0 DEF ScanInv, RowInv, TreeRows
<1> HIDE DEF p, l
<1>3. IsTree(DOMAIN index') /\ \A q \in DOMAIN index' : index'[q] \in Dbs \cup {Null}
  <2>1. CASE HasParent(index, p) /\ index' = With(index, p, Null)
    BY <1>1, <1>2, <2>1, WithTree
  <2>2. CASE CanRename(index, l, p) /\ index' = Moved(index, l, p)
    <3>1. l \in DOMAIN index /\ HasParent(index, p) /\ ~IsPrefix(l, p)
      BY <2>2 DEF CanRename
    <3> QED  BY <1>1, <1>2, <2>2, <3>1, MovedTree
  <2>3. CASE index' = index
    BY <1>1, <2>3
  <2> QED  BY <1>0, <2>1, <2>2, <2>3
<1> QED  BY <1>0, <1>1, <1>3, UpdateStays

\* The third phase puts a parked database into its new place.
LEMMA UpdateStep ==
    ASSUME ScanInv, NEW d \in rows, Update(d)
    PROVE  ScanInv'
<1> DEFINE i == d.tr.inode
           p == d.tr.path
           moves == i \in DOMAIN lot /\ p \in DOMAIN index
<1>0. /\ pc = "update" /\ rows' = rows \ {d}
      /\ index' = IF moves THEN With(index, p, lot[i]) ELSE index
      /\ lot' = IF moves THEN Removed(lot, i) ELSE lot
      /\ UNCHANGED <<treeVars, scanVars, pc, tops, top, rc, histVars>>
  BY DEF Update
<1>1. /\ IsTree(DOMAIN index) /\ \A q \in DOMAIN index : index[q] \in Dbs \cup {Null}
      /\ DOMAIN lot \subseteq Inodes /\ \A j \in DOMAIN lot : lot[j] \in Dbs
  BY DEF ScanInv, TreeInv
<1> HIDE DEF i, p
<1>2. CASE moves
  <2>1. p \in Paths /\ HasParent(index, p) /\ lot[i] \in Dbs
    BY <1>1, <1>2, TreeParent
  <2>2. IsTree(DOMAIN index') /\ \A q \in DOMAIN index' : index'[q] \in Dbs \cup {Null}
    BY <1>0, <1>1, <1>2, <2>1, WithTree
  <2>3. DOMAIN lot' \subseteq Inodes /\ \A j \in DOMAIN lot' : lot'[j] \in Dbs
    BY <1>0, <1>1, <1>2 DEF Removed
  <2> QED  BY <1>0, <2>2, <2>3, UpdateStays
<1>3. CASE ~moves
  BY <1>0, <1>1, <1>3, UpdateStays
<1> QED  BY <1>2, <1>3

-----------------------------------------------------------------------------
(* The theorems                                                            *)

\* Every step keeps the invariant.
LEMMA ScanStep ==
    ASSUME ScanInv, [Next]_vars
    PROVE  ScanInv'
<1>1. CASE UNCHANGED vars
  <2>1. UNCHANGED <<tree, version, index, lot, pc, tops, top, iwork, twork, counter, isnap, tsnap,
                    rows, rc, updated, unread, failed>>
    BY <1>1 DEF vars, treeVars, indexVars, scanVars, histVars
  <2>2. TreeInv' /\ RowInv' /\ PhaseInv' /\ TopInv' /\ PoolInv'
    BY <2>1 DEF ScanInv, TreeInv, RowInv, PhaseInv, Scanning, TopInv, PoolInv
  <2>3. IndexGoal' = IndexGoal /\ TreeGoal' = TreeGoal /\ PathsOf(isnap') = PathsOf(isnap)
        /\ PathsOf(tsnap') = PathsOf(tsnap)
    BY <2>1 DEF IndexGoal, TreeGoal, PathsOf
  <2>4. ScanIsComplete'
    BY <2>1 DEF ScanInv, CoverInv, ScanIsComplete, Seen
  <2>5. CoverInv'
    BY <2>1, <2>3, <2>4 DEF ScanInv, CoverInv, Scanning
  <2> QED  BY <2>2, <2>5 DEF ScanInv
<1>2. CASE Users
  BY <1>2, UsersStep
<1>3. CASE MainSteps
  BY <1>3, FindTopsStep, NextTopStep, ScanIndexStep, ScanTreeStep, WaitStep, GetDiffStep,
     QueryStep, RemoveStep, CreateStep, UpdateStep, FinishStep DEF MainSteps
<1>4. CASE PoolSteps
  BY <1>4, IndexDirStep, TreeDirStep, TreeDirFailsStep DEF PoolSteps
<1> QED  BY <1>1, <1>2, <1>3, <1>4 DEF Next, Terminated

\* What is in the pool, in the snapshots and in the index at every moment of
\* an update: the walks have what they have not found in front of them, each
\* directory once, and main() counts it.
THEOREM Invariant == Spec => []ScanInv
<1>1. Init => ScanInv
  BY InitScan
<1>2. ScanInv /\ [Next]_vars => ScanInv'
  BY ScanStep
<1> QED  BY <1>1, <1>2, PTL DEF Spec

\* The variables have their types, the source tree and the index stay trees
\* through every rename, and the counter of compare_and_update is the number
\* of directories in the pool.
THEOREM TypeCorrect == Spec => []TypeOK
<1>1. ScanInv => TypeOK
  <2> SUFFICES ASSUME ScanInv PROVE TypeOK
    OBVIOUS
  <2>1. IsTree(DOMAIN tree) /\ IsTree(DOMAIN index)
    BY DEF ScanInv, TreeInv
  <2>2. \A p \in DOMAIN tree : p \in Paths /\ HasParent(tree, p)
    BY <2>1, TreeParent
  <2>3. \A p \in DOMAIN index : p \in Paths /\ HasParent(index, p)
    BY <2>1, TreeParent
  <2>4. \A p \in Paths : IsPath(p)
    BY DEF Paths
  <2> QED  BY <2>2, <2>3, <2>4 DEF ScanInv, TreeInv, PhaseInv, PoolInv, TypeOK
<1> QED  BY <1>1, Invariant, PTL

\* The snapshots are compared only when both walks have ended, and then they
\* hold every database of the index and every directory of the tree below the
\* top that could be opened, whatever order the threads walked in, for every
\* tree, every change to it and every combination of failures
\* (compare_and_update, gen_index_snapshot, find_suspects).
THEOREM SnapshotsAreComplete == Spec => []ScanIsComplete
<1>1. ScanInv => ScanIsComplete
  BY DEF ScanInv, CoverInv
<1> QED  BY <1>1, Invariant, PTL
=============================================================================
