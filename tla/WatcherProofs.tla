---------------------------- MODULE WatcherProofs ----------------------------
(***************************************************************************)
(* TLAPS proofs about the watcher, for any tree, any number of changes of  *)
(* the file system and any queue: its type and the gate's count for any    *)
(* roots, the two promises of events() for roots that stand apart.         *)
(***************************************************************************)
EXTENDS Watcher, FiniteSetTheorems, NaturalsInduction, SequenceTheorems, WellFoundedInduction, TLAPS

(* The invariant *)

Item == [wd : Inode \cup {Dead}, at : DirPath \cup {<<>>},
         name : Name \cup FileName \cup {"overflow"}, kind : {"appeared", "gone", "overflow"}]

(* Every directory has an inode of its own and stands in directories. *)
TreeOk == /\ DOMAIN dirs \subseteq DirPath /\ dirs \in [DOMAIN dirs -> Inode] /\ IsInjective(dirs)
          /\ \A p \in DOMAIN dirs : \A k \in 1 .. Len(p) : SubSeq(p, 1, k) \in DOMAIN dirs

FilesOk == /\ files \subseteq FilePath /\ \A f \in files : Parent(f) \in DOMAIN dirs
           /\ owed \subseteq files /\ changes \in 0 .. MaxChanges

(* A queue overflows once. *)
QueueOk(q) == /\ q \in Seq(Item) /\ Len(q) <= QueueMax + 1
              /\ Len(q) = QueueMax + 1 => Overflow \in Range(q)

WatchesOk == /\ DOMAIN live \subseteq Inode /\ live \in [DOMAIN live -> DirPath]
             /\ DOMAIN watches \subseteq DirPath /\ watches \in [DOMAIN watches -> Inode \cup {Dead}]

WatcherOk == /\ roots \in RootSets \cup {{}} /\ closing \in BOOLEAN /\ silent \in BOOLEAN
             /\ pending \cup visit \subseteq Seq(Name)
             /\ missed \subseteq DirPath \cup FilePath
             /\ listing = NoListing \/ (listing.dir \in DirPath /\ listing.files \subseteq FilePath)

IInv == TreeOk /\ FilesOk /\ QueueOk(queue) /\ WatchesOk /\ WatcherOk

----------------------------------------------------------------------------
(* Paths *)

(* The empty function *)
LEMMA EmptyFunction == DOMAIN <<>> = {} /\ \A S : <<>> \in [{} -> S]
OBVIOUS

(* A prefix, by its elements *)
LEMMA PrefixIs ==
    ASSUME NEW S, NEW p \in Seq(S), NEW q \in Seq(S)
    PROVE  IsPrefix(p, q) <=> Len(p) <= Len(q) /\ \A i \in 1 .. Len(p) : p[i] = q[i]
<1>1. Len(p) \in Nat /\ Len(q) \in Nat /\ SubSeq(p, 1, Len(p)) = p
  BY LenProperties, SubSeqFull
<1>2. ASSUME Len(p) <= Len(q)
      PROVE  /\ SubSeq(q, 1, Len(p)) \in Seq(S) /\ Len(SubSeq(q, 1, Len(p))) = Len(p)
             /\ \A i \in 1 .. Len(p) : SubSeq(q, 1, Len(p))[i] = q[i]
  <2>1. \A i \in 1 .. Len(p) : q[i] \in S
    BY <1>1, <1>2, ElementOfSeq
  <2> QED
    BY <1>1, <2>1, SubSeqProperties
<1>3. IsPrefix(p, q) <=> Len(p) <= Len(q) /\ p = SubSeq(q, 1, Len(p))
  BY <1>1 DEF IsPrefix
<1>4. ASSUME Len(p) <= Len(q), \A i \in 1 .. Len(p) : p[i] = q[i] PROVE p = SubSeq(q, 1, Len(p))
  <2> DEFINE r == SubSeq(q, 1, Len(p))
  <2>1. r \in Seq(S) /\ Len(r) = Len(p) /\ \A i \in 1 .. Len(p) : r[i] = p[i]
    BY <1>2, <1>4
  <2> HIDE DEF r
  <2>2. r = p
    BY <1>1, <2>1, SeqEqual
  <2> QED
    BY <2>2 DEF r
<1> QED
  BY <1>1, <1>2, <1>3, <1>4

(* The path up to some element *)
LEMMA UpTo ==
    ASSUME NEW S, NEW p \in Seq(S), NEW k \in 0 .. Len(p)
    PROVE  /\ SubSeq(p, 1, k) \in Seq(S) /\ Len(SubSeq(p, 1, k)) = k
           /\ \A i \in 1 .. k : SubSeq(p, 1, k)[i] = p[i]
           /\ IsPrefix(SubSeq(p, 1, k), p)
<1>1. Len(p) \in Nat
  BY LenProperties
<1>2. \A i \in 1 .. k : p[i] \in S
  BY <1>1, ElementOfSeq
<1> DEFINE u == SubSeq(p, 1, k)
<1>3. u \in Seq(S) /\ Len(u) = k /\ \A i \in 1 .. k : u[i] = p[i]
  BY <1>1, <1>2, SubSeqProperties
<1> HIDE DEF u
<1>4. IsPrefix(u, p)
  BY <1>1, <1>3, PrefixIs
<1> QED
  BY <1>3, <1>4 DEF u

(* The beginning of a beginning *)
LEMMA UpToUpTo ==
    ASSUME NEW S, NEW p \in Seq(S), NEW n \in 0 .. Len(p), NEW k \in 0 .. n
    PROVE  SubSeq(SubSeq(p, 1, n), 1, k) = SubSeq(p, 1, k) /\ Len(SubSeq(p, 1, n)) = n
<1> DEFINE u == SubSeq(p, 1, n)
           v == SubSeq(u, 1, k)
           w == SubSeq(p, 1, k)
<1>1. Len(p) \in Nat /\ k \in 0 .. Len(p)
  BY LenProperties
<1>2. u \in Seq(S) /\ Len(u) = n /\ \A i \in 1 .. n : u[i] = p[i]
  BY UpTo
<1>3. w \in Seq(S) /\ Len(w) = k /\ \A i \in 1 .. k : w[i] = p[i]
  BY <1>1, UpTo
<1> HIDE DEF u, w
<1>4. v \in Seq(S) /\ Len(v) = k /\ \A i \in 1 .. k : v[i] = u[i]
  BY <1>2, UpTo
<1> HIDE DEF v
<1>5. v = w
  BY <1>1, <1>2, <1>3, <1>4, SeqEqual
<1> QED
  BY <1>2, <1>5 DEF u, v, w

(* The path from some element on *)
LEMMA Onwards ==
    ASSUME NEW S, NEW p \in Seq(S), NEW k \in 0 .. Len(p)
    PROVE  /\ SubSeq(p, k + 1, Len(p)) \in Seq(S) /\ Len(SubSeq(p, k + 1, Len(p))) = Len(p) - k
           /\ \A i \in 1 .. Len(p) - k : SubSeq(p, k + 1, Len(p))[i] = p[k + i]
<1>1. Len(p) \in Nat /\ \A i \in k + 1 .. Len(p) : p[i] \in S
  BY LenProperties, ElementOfSeq
<1> QED
  BY <1>1, SubSeqProperties

(* Prefixes of prefixes, and of longer beginnings *)
LEMMA PrefixOf ==
    ASSUME NEW S, NEW p \in Seq(S), NEW q \in Seq(S), NEW x \in Seq(S)
    PROVE  /\ IsPrefix(p, q) /\ IsPrefix(q, x) => IsPrefix(p, x)
           /\ IsPrefix(p, x) => \A k \in Len(p) .. Len(x) : IsPrefix(p, SubSeq(x, 1, k))
           /\ IsPrefix(p, x) => p = x \/ Len(p) < Len(x)
           /\ IsPrefix(p, x) => p = SubSeq(x, 1, Len(p))
<1>1. Len(p) \in Nat /\ Len(q) \in Nat /\ Len(x) \in Nat
  BY LenProperties
<1>2. IsPrefix(p, q) /\ IsPrefix(q, x) => IsPrefix(p, x)
  BY <1>1, PrefixIs
<1>3. ASSUME IsPrefix(p, x), NEW k \in Len(p) .. Len(x) PROVE IsPrefix(p, SubSeq(x, 1, k))
  <2> DEFINE u == SubSeq(x, 1, k)
  <2>1. k \in 0 .. Len(x)
    BY <1>1
  <2>2. u \in Seq(S) /\ Len(u) = k /\ \A i \in 1 .. k : u[i] = x[i]
    BY <2>1, UpTo
  <2> HIDE DEF u
  <2>3. Len(p) <= Len(u) /\ \A i \in 1 .. Len(p) : p[i] = u[i]
    BY <1>1, <1>3, <2>2, PrefixIs
  <2>4. IsPrefix(p, u)
    BY <2>2, <2>3, PrefixIs
  <2> QED
    BY <2>4 DEF u
<1>4. IsPrefix(p, x) => p = x \/ Len(p) < Len(x)
  BY <1>1, PrefixIs, SeqEqual
<1>5. IsPrefix(p, x) => p = SubSeq(x, 1, Len(p))
  BY SubSeqFull DEF IsPrefix
<1> QED
  BY <1>2, <1>3, <1>4, <1>5

(* What Rename does to a path x at or below p *)
Moved(p, q, x) == q \o SubSeq(x, Len(p) + 1, Len(x))

(* ... element by element *)
IsMoved(p, q, x, y) == /\ Len(y) = Len(q) + Len(x) - Len(p)
                       /\ \A i \in 1 .. Len(q) : y[i] = q[i]
                       /\ \A i \in Len(q) + 1 .. Len(y) : y[i] = x[i - Len(q) + Len(p)]

(* A moved path keeps what follows, and moves back. *)
LEMMA MovedIs ==
    ASSUME NEW S, NEW p \in Seq(S), NEW q \in Seq(S), NEW x \in Seq(S), IsPrefix(p, x)
    PROVE  /\ Moved(p, q, x) \in Seq(S) /\ IsMoved(p, q, x, Moved(p, q, x))
           /\ IsPrefix(q, Moved(p, q, x)) /\ Moved(q, p, Moved(p, q, x)) = x
<1> DEFINE rest == SubSeq(x, Len(p) + 1, Len(x))
           y == Moved(p, q, x)
<1>1. /\ Len(p) \in Nat /\ Len(q) \in Nat /\ Len(x) \in Nat /\ Len(p) <= Len(x)
      /\ \A i \in 1 .. Len(p) : p[i] = x[i]
  BY LenProperties, PrefixIs
<1>2. Len(p) \in 0 .. Len(x)
  BY <1>1
<1>3. /\ rest \in Seq(S) /\ Len(rest) = Len(x) - Len(p)
      /\ \A i \in 1 .. Len(x) - Len(p) : rest[i] = x[Len(p) + i]
  BY <1>2, Onwards
<1>4. y = q \o rest
  BY DEF Moved
<1> HIDE DEF rest, y
<1>5. /\ y \in Seq(S) /\ Len(y) = Len(q) + Len(rest)
      /\ \A i \in 1 .. Len(q) + Len(rest) : y[i] = IF i <= Len(q) THEN q[i] ELSE rest[i - Len(q)]
  BY <1>3, <1>4, ConcatProperties
<1>6. Len(y) = Len(q) + Len(x) - Len(p) /\ \A i \in 1 .. Len(q) : y[i] = q[i]
  <2>1. Len(rest) \in Nat
    BY <1>3, LenProperties
  <2>2. Len(y) = Len(q) + Len(x) - Len(p)
    BY <1>1, <1>3, <1>5
  <2> QED
    BY <1>1, <1>5, <2>1, <2>2
<1>7. ASSUME NEW i \in Len(q) + 1 .. Len(y) PROVE y[i] = x[i - Len(q) + Len(p)]
  <2>1. y[i] = rest[i - Len(q)] /\ i - Len(q) \in 1 .. Len(x) - Len(p)
    BY <1>1, <1>3, <1>5
  <2>2. Len(p) + (i - Len(q)) = i - Len(q) + Len(p)
    BY <1>1, <1>6
  <2> QED
    BY <1>3, <2>1, <2>2
<1>8. IsPrefix(q, y)
  <2>1. Len(q) <= Len(y)
    BY <1>1, <1>6
  <2> QED
    BY <1>1, <1>5, <1>6, <2>1, PrefixIs
<1>9. Moved(q, p, y) = x
  <2> DEFINE back == SubSeq(y, Len(q) + 1, Len(y))
             z == Moved(q, p, y)
  <2>1. Len(q) \in 0 .. Len(y)
    BY <1>1, <1>6
  <2>2. /\ back \in Seq(S) /\ Len(back) = Len(y) - Len(q)
        /\ \A i \in 1 .. Len(y) - Len(q) : back[i] = y[Len(q) + i]
    BY <1>5, <2>1, Onwards
  <2>3. z = p \o back
    BY DEF Moved
  <2> HIDE DEF back, z
  <2>4. /\ z \in Seq(S) /\ Len(z) = Len(p) + Len(back)
        /\ \A i \in 1 .. Len(p) + Len(back) : z[i] = IF i <= Len(p) THEN p[i] ELSE back[i - Len(p)]
    BY <2>2, <2>3, ConcatProperties
  <2>5. Len(z) = Len(x)
    BY <1>1, <1>6, <2>2, <2>4
  <2>6. ASSUME NEW i \in 1 .. Len(z) PROVE z[i] = x[i]
    <3>1. CASE i <= Len(p)
      BY <1>1, <2>4, <3>1
    <3>2. CASE i > Len(p)
      <4>1. z[i] = back[i - Len(p)] /\ i - Len(p) \in 1 .. Len(y) - Len(q)
        BY <1>1, <1>6, <2>2, <2>4, <3>2
      <4>2. z[i] = y[Len(q) + (i - Len(p))] /\ Len(q) + (i - Len(p)) \in Len(q) + 1 .. Len(y)
        BY <1>1, <1>6, <2>2, <4>1
      <4>3. Len(q) + (i - Len(p)) - Len(q) + Len(p) = i
        BY <1>1, <2>5
      <4> QED
        BY <1>7, <4>2, <4>3
    <3> QED
      BY <1>1, <2>5, <3>1, <3>2
  <2>7. z = x
    BY <2>4, <2>5, <2>6, SeqEqual
  <2> QED
    BY <2>7 DEF z
<1>10. IsMoved(p, q, x, y)
  BY <1>6, <1>7 DEF IsMoved
<1> QED
  BY <1>5, <1>8, <1>9, <1>10 DEF y

(* A longer beginning moves with the path. *)
LEMMA MovedUpTo ==
    ASSUME NEW S, NEW p \in Seq(S), NEW q \in Seq(S), NEW x \in Seq(S), IsPrefix(p, x),
           NEW k \in Nat, k >= Len(q), k <= Len(Moved(p, q, x))
    PROVE  \E j \in Len(p) .. Len(x) : /\ j = k - Len(q) + Len(p)
                                       /\ SubSeq(Moved(p, q, x), 1, k) = Moved(p, q, SubSeq(x, 1, j))
<1> DEFINE y == Moved(p, q, x)
<1>1. Len(p) \in Nat /\ Len(q) \in Nat /\ Len(x) \in Nat /\ Len(p) <= Len(x) /\ k \in Nat
  BY LenProperties, PrefixIs
<1>2. PICK j \in Len(p) .. Len(x) : j = k - Len(q) + Len(p)
  <2>1. k >= Len(q) /\ k <= Len(q) + Len(x) - Len(p)
    <3>1. IsMoved(p, q, x, y)
      BY MovedIs
    <3> QED
      BY <3>1 DEF IsMoved
  <2>2. k - Len(q) + Len(p) \in Len(p) .. Len(x)
    BY <1>1, <2>1
  <2> QED
    BY <2>2
<1> DEFINE u == SubSeq(x, 1, j)
           v == Moved(p, q, u)
           w == SubSeq(y, 1, k)
<1>3. /\ y \in Seq(S) /\ Len(y) = Len(q) + Len(x) - Len(p)
      /\ \A i \in 1 .. Len(q) : y[i] = q[i]
      /\ \A i \in Len(q) + 1 .. Len(y) : y[i] = x[i - Len(q) + Len(p)]
  <2>1. y \in Seq(S) /\ IsMoved(p, q, x, y)
    BY MovedIs
  <2> HIDE DEF y
  <2> QED
    BY <2>1 DEF IsMoved
<1>4. u \in Seq(S) /\ Len(u) = j /\ (\A i \in 1 .. j : u[i] = x[i]) /\ IsPrefix(p, u)
  <2>1. j \in 0 .. Len(x)
    BY <1>1
  <2>2. u \in Seq(S) /\ Len(u) = j /\ \A i \in 1 .. j : u[i] = x[i]
    BY <2>1, UpTo
  <2>3. IsPrefix(p, u)
    BY PrefixOf, Zenon
  <2> QED
    BY <2>2, <2>3
<1>5. k <= Len(y)
  OBVIOUS
<1> HIDE DEF u, y
<1>6. /\ v \in Seq(S) /\ Len(v) = Len(q) + Len(u) - Len(p)
      /\ \A i \in 1 .. Len(q) : v[i] = q[i]
      /\ \A i \in Len(q) + 1 .. Len(v) : v[i] = u[i - Len(q) + Len(p)]
  <2>1. v \in Seq(S) /\ IsMoved(p, q, u, v)
    BY <1>4, MovedIs
  <2> HIDE DEF v
  <2> QED
    BY <2>1 DEF IsMoved
<1>7. k \in 0 .. Len(y)
  BY <1>1, <1>3, <1>5
<1>8. w \in Seq(S) /\ Len(w) = k /\ \A i \in 1 .. k : w[i] = y[i]
  BY <1>3, <1>7, UpTo
<1> HIDE DEF v, w
<1>9. Len(v) = k
  BY <1>1, <1>2, <1>4, <1>6
<1>10. ASSUME NEW i \in 1 .. k PROVE v[i] = w[i]
  <2>1. CASE i <= Len(q)
    <3>1. i \in 1 .. Len(q)
      BY <1>1, <2>1
    <3> QED
      BY <1>3, <1>6, <1>8, <3>1
  <2>2. CASE i > Len(q)
    <3>1. i \in Len(q) + 1 .. Len(v) /\ i \in Len(q) + 1 .. Len(y) /\ i - Len(q) + Len(p) \in 1 .. j
      BY <1>1, <1>2, <1>3, <1>7, <1>9, <2>2
    <3> QED
      BY <1>3, <1>4, <1>6, <1>8, <3>1
  <2> QED
    BY <1>1, <2>1, <2>2
<1>11. v = w
  BY <1>6, <1>8, <1>9, <1>10, SeqEqual
<1> QED
  BY <1>2, <1>11 DEF v, w, u, y

(* A path is what it is in and its name. *)
LEMMA FrontLast ==
    ASSUME NEW S, NEW p \in Seq(S), Len(p) > 0
    PROVE  p = Append(Front(p), Last(p))
<1> DEFINE u == SubSeq(p, 1, Len(p) - 1)
           r == Append(u, Last(p))
<1>1. Len(p) \in Nat /\ Len(p) - 1 \in 0 .. Len(p) /\ Last(p) \in S
  BY LenProperties, ElementOfSeq DEF Last
<1>2. u \in Seq(S) /\ Len(u) = Len(p) - 1 /\ \A i \in 1 .. Len(p) - 1 : u[i] = p[i]
  BY <1>1, UpTo
<1>3. u = Front(p)
  BY DEF Front
<1> HIDE DEF u
<1>4. r \in Seq(S) /\ Len(r) = Len(u) + 1 /\ (\A i \in 1 .. Len(u) : r[i] = u[i]) /\ r[Len(u) + 1] = Last(p)
  BY <1>1, <1>2, AppendProperties
<1> HIDE DEF r
<1>5. \A i \in 1 .. Len(p) : r[i] = p[i]
  BY <1>1, <1>2, <1>4 DEF Last
<1>6. r = p
  BY <1>1, <1>2, <1>4, <1>5, SeqEqual
<1> QED
  BY <1>3, <1>6 DEF r

(* Directories are sequences of names, files end in a file name. *)
LEMMA Paths ==
    /\ \A p \in DirPath : /\ p \in Seq(Name) /\ p \in Seq(Name \cup FileName)
                          /\ p # <<>> /\ Len(p) \in Nat \ {0} /\ Last(p) \in Name
                          /\ Len(p) > 1 => Parent(p) \in DirPath
    /\ \A f \in FilePath : /\ f \in Seq(Name \cup FileName) /\ f # <<>>
                           /\ Parent(f) \in DirPath /\ Last(f) \in FileName
                           /\ f = Append(Parent(f), Last(f)) /\ Len(f) = Len(Parent(f)) + 1
<1>1. ASSUME NEW p \in DirPath
      PROVE  /\ p \in Seq(Name) /\ p \in Seq(Name \cup FileName)
             /\ p # <<>> /\ Len(p) \in Nat \ {0} /\ Last(p) \in Name
             /\ Len(p) > 1 => Parent(p) \in DirPath
  <2>1. p \in Seq(Name) /\ p # <<>> /\ (Len(p) > 1 => Parent(p) \in DirPath)
    BY PathAssumption DEF Parent
  <2>2. Len(p) \in Nat \ {0} /\ p \in Seq(Name \cup FileName)
    BY <2>1, EmptySeq, SeqMonotonic
  <2>3. Last(p) \in Name
    BY <2>1, <2>2, ElementOfSeq DEF Last
  <2> QED
    BY <2>1, <2>2, <2>3
<1>2. ASSUME NEW f \in FilePath
      PROVE  /\ f \in Seq(Name \cup FileName) /\ f # <<>>
             /\ Parent(f) \in DirPath /\ Last(f) \in FileName
             /\ f = Append(Parent(f), Last(f)) /\ Len(f) = Len(Parent(f)) + 1
  <2>1. PICK d \in DirPath, n \in FileName : f = Append(d, n)
    BY DEF FilePath
  <2>2. d \in Seq(Name \cup FileName) /\ n \in Name \cup FileName /\ Len(d) \in Nat
    BY <1>1
  <2>3. /\ f \in Seq(Name \cup FileName) /\ f # <<>> /\ Len(f) = Len(d) + 1
        /\ \A i \in 1 .. Len(d) : f[i] = d[i]
        /\ f[Len(d) + 1] = n
    BY <2>1, <2>2, AppendProperties
  <2>4. Last(f) = n
    BY <2>3 DEF Last
  <2> DEFINE u == SubSeq(f, 1, Len(d))
  <2>5. u \in Seq(Name \cup FileName) /\ Len(u) = Len(d) /\ \A i \in 1 .. Len(d) : u[i] = f[i]
    <3>1. Len(d) \in 0 .. Len(f)
      BY <2>2, <2>3
    <3> QED
      BY <2>3, <3>1, UpTo
  <2>6. u = Parent(f)
    BY <2>2, <2>3 DEF Parent, Front
  <2> HIDE DEF u
  <2>7. u = d
    BY <2>2, <2>3, <2>5, SeqEqual
  <2> QED
    BY <2>1, <2>3, <2>4, <2>6, <2>7
<1> QED
  BY <1>1, <1>2

----------------------------------------------------------------------------
(* The queue *)

(* Appending to a queue that is full appends an overflow, once. *)
LEMMA QueuedOk ==
    ASSUME NEW q, QueueOk(q), NEW e \in Item
    PROVE  QueueOk(Queued(q, e))
<1>1. q \in Seq(Item) /\ Len(q) \in Nat /\ QueueMax \in Nat \ {0} /\ Len(q) <= QueueMax + 1
  BY LenProperties, BoundsAssumption DEF QueueOk
<1>2. CASE Len(q) < QueueMax
  <2>1. Append(q, e) \in Seq(Item) /\ Len(Append(q, e)) = Len(q) + 1
    BY <1>1, AppendProperties
  <2> QED
    BY <1>1, <1>2, <2>1 DEF QueueOk, Queued
<1>3. CASE Len(q) >= QueueMax /\ Overflow \in Range(q)
  BY <1>1, <1>3 DEF QueueOk, Queued
<1>4. CASE Len(q) >= QueueMax /\ Overflow \notin Range(q)
  <2>1. Overflow \in Item /\ Len(q) = QueueMax
    BY <1>1, <1>4 DEF QueueOk, Item, Overflow
  <2> DEFINE r == Append(q, Overflow)
  <2>2. r \in Seq(Item) /\ Len(r) = Len(q) + 1 /\ r[Len(q) + 1] = Overflow
    BY <1>1, <2>1, AppendProperties
  <2>3. Queued(q, e) = r
    BY <1>1, <1>4 DEF Queued
  <2> HIDE DEF r
  <2>4. Overflow \in Range(r)
    BY <1>1, <2>2, LenProperties DEF Range
  <2> QED
    BY <1>1, <2>1, <2>2, <2>3, <2>4 DEF QueueOk
<1> QED
  BY <1>1, <1>2, <1>3, <1>4

(* So does the event of a change. *)
LEMMA PostedOk ==
    ASSUME TreeOk, WatchesOk, NEW q, QueueOk(q), NEW d,
           NEW name \in Name \cup FileName, NEW kind \in {"appeared", "gone"}
    PROVE  QueueOk(Posted(q, d, name, kind))
<1>1. CASE d \in DOMAIN dirs /\ dirs[d] \in DOMAIN live
  <2> DEFINE e == [wd |-> dirs[d], at |-> live[dirs[d]], name |-> name, kind |-> kind]
  <2>1. e \in Item
    BY <1>1 DEF TreeOk, WatchesOk, Item
  <2>2. Posted(q, d, name, kind) = Queued(q, e)
    BY <1>1 DEF Posted
  <2> HIDE DEF e
  <2> QED
    BY <2>1, <2>2, QueuedOk
<1>2. CASE ~(d \in DOMAIN dirs /\ dirs[d] \in DOMAIN live)
  BY <1>2 DEF Posted
<1> QED
  BY <1>1, <1>2

(* What changes events of live watches only keeps the overflow. *)
LEMMA ChangedOk ==
    ASSUME NEW q, QueueOk(q), NEW r \in [DOMAIN q -> Item],
           \A n \in DOMAIN q : q[n].wd = Dead => r[n] = q[n]
    PROVE  QueueOk(r)
<1>1. q \in Seq(Item) /\ Len(q) \in Nat /\ DOMAIN q = 1 .. Len(q)
  BY LenProperties DEF QueueOk
<1>2. r \in Seq(Item)
  BY <1>1, SeqDef
<1>3. Len(r) = Len(q)
  BY <1>1, <1>2, LenProperties
<1>4. ASSUME Overflow \in Range(q) PROVE Overflow \in Range(r)
  <2>1. PICK n \in DOMAIN q : q[n] = Overflow
    BY <1>4 DEF Range
  <2>2. r[n] = Overflow
    BY <2>1 DEF Overflow
  <2> QED
    BY <2>2 DEF Range
<1> QED
  BY <1>2, <1>3, <1>4 DEF QueueOk

(* Events of watches that are gone keep their place. *)
LEMMA VoidOk ==
    ASSUME NEW q, QueueOk(q), NEW lost, Dead \notin lost
    PROVE  QueueOk(Void(q, lost))
<1>1. q \in [DOMAIN q -> Item]
  BY LenProperties DEF QueueOk
<1> DEFINE r == Void(q, lost)
<1>2. r \in [DOMAIN q -> Item]
  BY <1>1 DEF Void, Item
<1>3. \A n \in DOMAIN q : q[n].wd = Dead => r[n] = q[n]
  BY DEF Void
<1> HIDE DEF r
<1>4. QueueOk(r)
  BY <1>2, <1>3, ChangedOk
<1> QED
  BY <1>4 DEF r

(* The queue without the event just read *)
LEMMA TailOk ==
    ASSUME NEW q, QueueOk(q), q # <<>>
    PROVE  QueueOk(Tail(q)) /\ Head(q) \in Item
<1>1. q \in Seq(Item) /\ Len(q) \in Nat /\ Len(q) <= QueueMax + 1 /\ QueueMax \in Nat
  BY LenProperties, BoundsAssumption DEF QueueOk
<1> DEFINE r == Tail(q)
<1>2. r \in Seq(Item) /\ Len(r) = Len(q) - 1 /\ Head(q) \in Item
  BY <1>1, HeadTailProperties
<1> HIDE DEF r
<1>3. Len(r) <= QueueMax + 1 /\ Len(r) # QueueMax + 1
  BY <1>1, <1>2
<1>4. QueueOk(r)
  BY <1>2, <1>3 DEF QueueOk
<1> QED
  BY <1>2, <1>4 DEF r

----------------------------------------------------------------------------
(* The file system *)

(* A set of natural numbers has a least one. *)
LEMMA Least == ASSUME NEW T, T \subseteq Nat, T # {} PROVE \E m \in T : \A y \in T : m <= y
<1> DEFINE Less == {ss \in Nat \X Nat : ss[1] < ss[2]}
<1>1. IsWellFoundedOn(Less, Nat)
  BY NatLessThanWellFounded, Zenon DEF OpToRel
<1> HIDE DEF Less
<1>2. PICK m \in T : \A y \in T : ~ (<<y, m>> \in Less)
  BY <1>1, WFMin
<1>3. ASSUME NEW y \in T PROVE m <= y
  <2>1. m \in Nat /\ y \in Nat /\ <<y, m>> \notin Less
    BY <1>2
  <2>2. ~(y < m)
    BY <2>1 DEF Less
  <2> QED
    BY <2>1, <2>2
<1> QED
  BY <1>3

(* There is an inode left for a new directory. *)
LEMMA FreeInodeIs ==
    ASSUME TreeOk, Range(dirs) # Inode
    PROVE  FreeInode \in Inode \ Range(dirs)
<1> DEFINE T == Inode \ Range(dirs)
<1>1. T \subseteq Nat /\ T # {}
  BY BoundsAssumption DEF TreeOk, Inode, Range
<1> HIDE DEF T
<1>2. Min(T) \in T
  BY <1>1, Least DEF Min
<1> QED
  BY <1>2 DEF FreeInode, T

(* A new directory stands in one that is there. *)
LEMMA MkDirInv == ASSUME IInv, NEW p \in DirPath, MkDir(p) PROVE IInv'
<1>1. /\ p \notin DOMAIN dirs /\ Range(dirs) # Inode /\ (Len(p) > 1 => Parent(p) \in DOMAIN dirs)
      /\ dirs' = With(dirs, p, FreeInode)
      /\ queue' = Posted(queue, Parent(p), Last(p), "appeared")
      /\ missed' = missed \cup (IF Len(p) > 1 THEN Slips(p) ELSE {})
      /\ changes < MaxChanges /\ changes' = changes + 1
      /\ UNCHANGED <<files, live, watches, roots, closing, pending, visit, listing, silent, owed>>
  BY DEF MkDir, Appears, Change, walk
<1>2. FreeInode \in Inode \ Range(dirs)
  BY <1>1, FreeInodeIs DEF IInv
<1>3. /\ DOMAIN dirs' = DOMAIN dirs \cup {p} /\ dirs'[p] = FreeInode
      /\ \A x \in DOMAIN dirs : dirs'[x] = dirs[x]
      /\ dirs' \in [DOMAIN dirs' -> Inode]
  BY <1>1, <1>2 DEF IInv, TreeOk, With
<1>4. IsInjective(dirs')
  BY <1>2, <1>3 DEF IInv, TreeOk, IsInjective, Range
<1>5. ASSUME NEW x \in DOMAIN dirs', NEW k \in 1 .. Len(x) PROVE SubSeq(x, 1, k) \in DOMAIN dirs'
  <2>1. CASE x \in DOMAIN dirs
    BY <1>3, <1>5, <2>1 DEF IInv, TreeOk
  <2>2. CASE x = p /\ k = Len(p)
    BY <1>3, <2>2, Paths, SubSeqFull
  <2>3. CASE x = p /\ k < Len(p)
    <3>1. p \in Seq(Name) /\ Len(p) \in Nat /\ k \in Nat /\ k >= 1 /\ Len(p) > 1
      BY <1>5, <2>3, Paths
    <3>2. Parent(p) \in DOMAIN dirs /\ Parent(p) = SubSeq(p, 1, Len(p) - 1)
      BY <1>1, <3>1 DEF Parent, Front
    <3>3. SubSeq(Parent(p), 1, k) = SubSeq(p, 1, k) /\ k \in 1 .. Len(Parent(p))
      BY <2>3, <3>1, <3>2, UpToUpTo
    <3> QED
      BY <1>3, <2>3, <3>2, <3>3 DEF IInv, TreeOk
  <2> QED
    BY <1>3, <1>5, <2>1, <2>2, <2>3, Paths
<1>6. TreeOk'
  BY <1>3, <1>4, <1>5 DEF IInv, TreeOk
<1>7. FilesOk' /\ WatchesOk'
  BY <1>1, <1>3, BoundsAssumption DEF IInv, FilesOk, WatchesOk
<1>8. QueueOk(queue)'
  BY <1>1, PostedOk, Paths DEF IInv, QueueOk
<1>9. WatcherOk'
  BY <1>1 DEF IInv, WatcherOk, Slips
<1> QED
  BY <1>6, <1>7, <1>8, <1>9 DEF IInv

(* A new file *)
LEMMA CreateInv == ASSUME IInv, NEW p \in FilePath, Create(p) PROVE IInv'
<1>1. /\ Parent(p) \in DOMAIN dirs /\ files' = files \cup {p}
      /\ owed' = IF Covered(p, roots) THEN owed \cup {p} ELSE owed
      /\ queue' = Posted(queue, Parent(p), Last(p), "appeared")
      /\ missed' = (missed \ {p}) \cup Slips(p)
      /\ changes < MaxChanges /\ changes' = changes + 1
      /\ UNCHANGED <<dirs, live, watches, roots, closing, pending, visit, listing, silent>>
  BY DEF Create, Change, walk
<1>2. TreeOk' /\ WatchesOk'
  BY <1>1 DEF IInv, TreeOk, WatchesOk
<1>3. FilesOk'
  BY <1>1, BoundsAssumption DEF IInv, FilesOk
<1>4. QueueOk(queue)'
  BY <1>1, PostedOk, Paths DEF IInv, QueueOk
<1>5. WatcherOk'
  BY <1>1 DEF IInv, WatcherOk, Slips
<1> QED
  BY <1>2, <1>3, <1>4, <1>5 DEF IInv

(* A file is deleted. *)
LEMMA DeleteInv == ASSUME IInv, NEW p \in FilePath, Delete(p) PROVE IInv'
<1>1. /\ files' = files \ {p} /\ owed' = owed \ {p}
      /\ queue' = Posted(queue, Parent(p), Last(p), "gone")
      /\ changes < MaxChanges /\ changes' = changes + 1
      /\ UNCHANGED <<dirs, live, watches, roots, closing, pending, visit, listing, silent, missed>>
  BY DEF Delete, Change, walk
<1>2. TreeOk' /\ WatchesOk' /\ WatcherOk'
  BY <1>1 DEF IInv, TreeOk, WatchesOk, WatcherOk
<1>3. FilesOk'
  BY <1>1, BoundsAssumption DEF IInv, FilesOk
<1>4. QueueOk(queue)'
  BY <1>1, PostedOk, Paths DEF IInv, QueueOk
<1> QED
  BY <1>2, <1>3, <1>4 DEF IInv

(* What is left of _watches and of the kernel's watches *)
LEMMA KeptOk ==
    ASSUME WatchesOk, NEW doomed, NEW lost,
           live' = Unwatched(lost), watches' = Kept(doomed, lost)
    PROVE  WatchesOk'
BY DEF WatchesOk, Unwatched, Kept

(* An empty directory is removed: none stands in it. *)
LEMMA RmDirInv == ASSUME IInv, NEW p \in DirPath, RmDir(p) PROVE IInv'
<1>1. /\ p \in DOMAIN dirs /\ SubDirs(p) = {} /\ FilesIn(p) = {}
      /\ dirs' = [q \in DOMAIN dirs \ {p} |-> dirs[q]]
      /\ live' = Unwatched({dirs[p]}) /\ watches' = Kept({}, {dirs[p]})
      /\ queue' = Void(Posted(queue, Parent(p), Last(p), "gone"), {dirs[p]})
      /\ missed' = missed \cup Unnoticed(p)
      /\ changes < MaxChanges /\ changes' = changes + 1
      /\ UNCHANGED <<files, roots, closing, pending, visit, listing, silent, owed>>
  BY DEF RmDir, Change, walk
<1>2. ASSUME NEW x \in DOMAIN dirs', NEW k \in 1 .. Len(x) PROVE SubSeq(x, 1, k) \in DOMAIN dirs'
  <2>1. x \in DOMAIN dirs /\ x # p /\ SubSeq(x, 1, k) \in DOMAIN dirs
    BY <1>1, <1>2 DEF IInv, TreeOk
  <2>2. x \in Seq(Name) /\ Len(x) \in Nat
    BY <2>1, Paths DEF IInv, TreeOk
  <2>3. SUFFICES ASSUME SubSeq(x, 1, k) = p PROVE FALSE
    BY <1>1, <2>1
  <2>4. k < Len(x)
    BY <1>2, <2>1, <2>2, <2>3, SubSeqFull
  <2> DEFINE child == SubSeq(x, 1, k + 1)
  <2>5. child \in DOMAIN dirs
    BY <2>1, <2>2, <2>4 DEF IInv, TreeOk
  <2>6. Len(child) = k + 1 /\ SubSeq(child, 1, k) = p
    BY <2>2, <2>3, <2>4, UpToUpTo
  <2>7. Len(p) = k
    BY <2>2, <2>3, UpTo
  <2>8. Parent(child) = p /\ child # p
    BY <2>2, <2>6, <2>7 DEF Parent, Front
  <2> QED
    BY <1>1, <2>5, <2>8 DEF SubDirs
<1>3. TreeOk'
  BY <1>1, <1>2 DEF IInv, TreeOk, IsInjective
<1>4. FilesOk'
  <2>1. \A f \in files : Parent(f) # p
    BY <1>1 DEF FilesIn
  <2> QED
    BY <1>1, <2>1, BoundsAssumption DEF IInv, FilesOk
<1>5. WatchesOk'
  BY <1>1, KeptOk DEF IInv
<1>6. QueueOk(queue)'
  <2> DEFINE q == Posted(queue, Parent(p), Last(p), "gone")
  <2>1. QueueOk(q)
    BY PostedOk, Paths DEF IInv
  <2>2. dirs[p] # Dead
    BY <1>1, BoundsAssumption DEF IInv, TreeOk, Inode, Dead
  <2> HIDE DEF q
  <2>3. QueueOk(Void(q, {dirs[p]}))
    BY <2>1, <2>2, VoidOk
  <2> QED
    BY <1>1, <2>3 DEF q, QueueOk
<1>7. WatcherOk'
  <2>1. Unnoticed(p) \subseteq DirPath
    BY DEF IInv, WatchesOk, Unnoticed, Below
  <2> QED
    BY <1>1, <2>1 DEF IInv, WatcherOk
<1> QED
  BY <1>3, <1>4, <1>5, <1>6, <1>7 DEF IInv

(* What a file is in *)
LEMMA ParentAbove == ASSUME NEW f \in FilePath PROVE IsPrefix(Parent(f), f)
<1>1. f \in Seq(Name \cup FileName) /\ Len(f) \in Nat /\ Len(f) - 1 \in 0 .. Len(f)
  BY Paths, LenProperties
<1> QED
  BY <1>1, UpTo DEF Parent, Front

(* A file that is below a directory is in it or below it. *)
LEMMA ParentBelow ==
    ASSUME NEW p \in DirPath, NEW f \in FilePath, IsPrefix(p, f)
    PROVE  IsPrefix(p, Parent(f)) /\ Len(p) < Len(f)
<1> DEFINE Seg == Name \cup FileName
<1>1. p \in Seq(Seg) /\ f \in Seq(Seg) /\ Len(p) \in Nat /\ Len(f) \in Nat /\ p # f
  BY Paths, PathAssumption, LenProperties
<1> HIDE DEF Seg
<1>2. Len(p) < Len(f)
  BY <1>1, PrefixOf
<1>3. Parent(f) = SubSeq(f, 1, Len(f) - 1) /\ Len(f) - 1 \in Len(p) .. Len(f)
  BY <1>1, <1>2 DEF Parent, Front
<1> QED
  BY <1>1, <1>2, <1>3, PrefixOf

(* What is in a directory moves with it. *)
LEMMA MovedFile ==
    ASSUME NEW p \in DirPath, NEW q \in DirPath, NEW f \in FilePath, IsPrefix(p, f),
           Moved(p, q, Parent(f)) \in DirPath
    PROVE  /\ IsPrefix(p, Parent(f)) /\ Moved(p, q, f) \in FilePath
           /\ Parent(Moved(p, q, f)) = Moved(p, q, Parent(f))
<1> DEFINE d == Parent(f)
           y == Moved(p, q, f)
           Seg == Name \cup FileName
<1>1. p \in Seq(Seg) /\ q \in Seq(Seg) /\ f \in Seq(Seg) /\ d \in Seq(Seg)
  BY Paths
<1>2. Len(p) \in Nat /\ Len(q) \in Nat /\ Len(f) \in Nat /\ Last(f) \in FileName
  BY <1>1, Paths, LenProperties
<1> HIDE DEF Seg
<1>3. Len(p) < Len(f) /\ IsPrefix(p, d)
  BY ParentBelow
<1>4. d = SubSeq(f, 1, Len(f) - 1)
  BY DEF Parent, Front
<1>5. y \in Seq(Seg) /\ IsMoved(p, q, f, y)
  BY <1>1, MovedIs
<1>6. Parent(y) = Moved(p, q, d) /\ Len(y) \in Nat /\ Len(y) > Len(q)
  <2>1. Len(y) = Len(q) + Len(f) - Len(p)
    BY <1>5 DEF IsMoved
  <2>2. PICK k \in Nat : k = Len(y) - 1 /\ k >= Len(q) /\ k <= Len(y)
    <3> HIDE DEF y
    <3>1. Len(y) - 1 \in Nat /\ Len(y) - 1 >= Len(q) /\ Len(y) - 1 <= Len(y)
      BY <1>2, <1>3, <2>1
    <3> QED
      BY <3>1
  <2>3. k - Len(q) + Len(p) = Len(f) - 1
    BY <1>2, <2>1, <2>2
  <2>4. SubSeq(y, 1, k) = Moved(p, q, SubSeq(f, 1, Len(f) - 1))
    <3>1. \E j \in Len(p) .. Len(f) : /\ j = k - Len(q) + Len(p)
                                      /\ SubSeq(y, 1, k) = Moved(p, q, SubSeq(f, 1, j))
      <4>1. k >= Len(q) /\ k <= Len(Moved(p, q, f))
        BY <2>2
      <4> QED
        BY <1>1, <4>1, MovedUpTo
    <3> HIDE DEF y
    <3> QED
      BY <2>3, <3>1
  <2> QED
    BY <1>2, <1>3, <1>4, <2>1, <2>2, <2>4 DEF Parent, Front
<1>7. Last(y) = Last(f)
  <2> HIDE DEF y
  <2>1. Len(y) \in Len(q) + 1 .. Len(y) /\ Len(y) - Len(q) + Len(p) = Len(f)
    BY <1>2, <1>5, <1>6 DEF IsMoved
  <2> QED
    BY <1>5, <2>1 DEF IsMoved, Last
<1>8. y = Append(Parent(y), Last(y))
  <2> HIDE DEF y
  <2> QED
    BY <1>2, <1>5, <1>6, FrontLast DEF Parent
<1>9. y \in FilePath
  BY <1>2, <1>6, <1>7, <1>8 DEF FilePath
<1> QED
  BY <1>3, <1>6, <1>9

(* Nothing is below a path that no directory has. *)
LEMMA NoneBelow ==
    ASSUME TreeOk, NEW q \in DirPath, NEW x \in DOMAIN dirs, IsPrefix(q, x)
    PROVE  q \in DOMAIN dirs
<1>1. x \in Seq(Name) /\ q \in Seq(Name) /\ Len(q) \in Nat \ {0}
  BY Paths DEF TreeOk
<1>2. q = SubSeq(x, 1, Len(q)) /\ Len(q) <= Len(x) /\ Len(x) \in Nat
  BY <1>1, PrefixOf, PrefixIs, LenProperties
<1>3. Len(q) \in 1 .. Len(x)
  BY <1>1, <1>2
<1> QED
  BY <1>2, <1>3 DEF TreeOk

(* A tree of directories moves as a whole. *)
LEMMA RenameTree ==
    ASSUME IInv, NEW p \in DirPath, NEW q \in DirPath, Rename(p, q)
    PROVE  /\ TreeOk' /\ q \notin DOMAIN dirs
           /\ DOMAIN dirs' = (DOMAIN dirs \ Below(DOMAIN dirs, p))
                              \cup {Moved(p, q, x) : x \in Below(DOMAIN dirs, p)}
           /\ \A x \in Below(DOMAIN dirs, p) : Moved(p, q, x) \in DirPath
<1> DEFINE trees == Below(DOMAIN dirs, p)
           M(x) == Moved(p, q, x)
<1>1. /\ p \in DOMAIN dirs /\ q \notin DOMAIN dirs
      /\ Len(q) > 1 /\ Parent(q) \in DOMAIN dirs /\ ~IsPrefix(p, q)
      /\ \A x \in trees : M(x) \in DirPath
      /\ dirs' = [x \in (DOMAIN dirs \ trees) \cup {M(x) : x \in trees} |->
                      IF IsPrefix(q, x) THEN dirs[Moved(q, p, x)] ELSE dirs[x]]
  BY DEF Rename, Moved
<1>2. TreeOk /\ DOMAIN dirs \subseteq DirPath /\ p \in Seq(Name) /\ q \in Seq(Name)
  BY Paths DEF IInv, TreeOk
<1>3. ASSUME NEW x \in DOMAIN dirs PROVE x \in Seq(Name) /\ Len(x) \in Nat /\ ~IsPrefix(q, x)
  BY <1>1, <1>2, Paths, NoneBelow
<1>4. ASSUME NEW x \in trees
      PROVE  M(x) \in Seq(Name) /\ IsPrefix(q, M(x)) /\ Moved(q, p, M(x)) = x /\ x \in DOMAIN dirs
  BY <1>2, <1>3, MovedIs DEF Below
<1> HIDE DEF M, trees
<1>5. DOMAIN dirs' = (DOMAIN dirs \ trees) \cup {M(x) : x \in trees}
  BY <1>1
<1>6. \A x \in DOMAIN dirs \ trees : dirs'[x] = dirs[x]
  BY <1>1, <1>3
<1>7. \A x \in trees : dirs'[M(x)] = dirs[x]
  BY <1>1, <1>4
<1>8. ASSUME NEW y \in DOMAIN dirs'
      PROVE  \E x \in DOMAIN dirs : dirs'[y] = dirs[x] /\ y = IF x \in trees THEN M(x) ELSE x
  BY <1>4, <1>5, <1>6, <1>7
<1>9. IsInjective(dirs')
  <2> SUFFICES ASSUME NEW a \in DOMAIN dirs', NEW b \in DOMAIN dirs', dirs'[a] = dirs'[b] PROVE a = b
    BY DEF IsInjective
  <2>1. PICK x \in DOMAIN dirs : dirs'[a] = dirs[x] /\ a = IF x \in trees THEN M(x) ELSE x
    BY <1>8
  <2>2. PICK y \in DOMAIN dirs : dirs'[b] = dirs[y] /\ b = IF y \in trees THEN M(y) ELSE y
    BY <1>8
  <2>3. x = y
    BY <1>2, <2>1, <2>2 DEF TreeOk, IsInjective
  <2> QED
    BY <2>1, <2>2, <2>3
<1>10. DOMAIN dirs' \subseteq DirPath /\ dirs' \in [DOMAIN dirs' -> Inode]
  <2>1. DOMAIN dirs' \subseteq DirPath
    BY <1>1, <1>2, <1>5
  <2>2. \A y \in DOMAIN dirs' : dirs'[y] \in Inode
    BY <1>2, <1>8 DEF TreeOk
  <2>3. dirs' = [y \in DOMAIN dirs' |-> dirs'[y]]
    BY <1>1
  <2> QED
    BY <2>1, <2>2, <2>3
<1>11. ASSUME NEW x \in DOMAIN dirs \ trees, NEW k \in 1 .. Len(x) PROVE SubSeq(x, 1, k) \in DOMAIN dirs'
  <2> DEFINE u == SubSeq(x, 1, k)
  <2>1. u \in DOMAIN dirs /\ u \in Seq(Name)
    BY <1>2, <1>3 DEF TreeOk
  <2>2. IsPrefix(u, x)
    BY <1>3, <1>11, UpTo
  <2> HIDE DEF u
  <2>3. u \notin trees
    BY <1>2, <1>3, <1>11, <2>1, <2>2, PrefixOf DEF trees, Below
  <2> QED
    BY <1>5, <2>1, <2>3 DEF u
<1>12. ASSUME NEW x \in trees, NEW k \in 1 .. Len(M(x)) PROVE SubSeq(M(x), 1, k) \in DOMAIN dirs'
  <2>1. /\ x \in Seq(Name) /\ IsPrefix(p, x) /\ Len(x) \in Nat /\ Len(p) \in Nat \ {0} /\ Len(q) \in Nat
        /\ k \in Nat /\ M(x) \in Seq(Name) /\ Len(M(x)) \in Nat /\ x \in DOMAIN dirs
    BY <1>2, <1>3, <1>4, Paths, LenProperties DEF trees, Below
  <2>2. CASE k >= Len(q)
    <3>1. k <= Len(M(x))
      BY <1>12, <2>1
    <3>2. PICK j \in Len(p) .. Len(x) : SubSeq(M(x), 1, k) = M(SubSeq(x, 1, j))
      BY <1>2, <2>1, <2>2, <3>1, MovedUpTo DEF M
    <3> DEFINE v == SubSeq(x, 1, j)
    <3>4. v \in DOMAIN dirs
      BY <1>2, <2>1 DEF TreeOk
    <3>5. IsPrefix(p, v)
      BY <1>2, <2>1, PrefixOf
    <3> HIDE DEF v
    <3>6. v \in trees
      BY <3>4, <3>5 DEF trees, Below
    <3> QED
      BY <1>5, <3>2, <3>6 DEF v
  <2>3. CASE k < Len(q)
    <3> DEFINE u == SubSeq(q, 1, k)
    <3>1. q = SubSeq(M(x), 1, Len(q)) /\ k \in 0 .. Len(q) /\ Len(q) <= Len(M(x))
      <4>1. IsPrefix(q, M(x))
        BY <1>4
      <4>2. q = SubSeq(M(x), 1, Len(q))
        BY <1>2, <2>1, <4>1, PrefixOf
      <4>3. Len(q) <= Len(M(x))
        BY <1>2, <2>1, <4>1, PrefixIs
      <4> QED
        BY <2>1, <2>3, <4>2, <4>3
    <3>2. SubSeq(M(x), 1, k) = u
      <4>1. Len(q) \in 0 .. Len(M(x))
        BY <2>1, <3>1
      <4>2. SubSeq(SubSeq(M(x), 1, Len(q)), 1, k) = SubSeq(M(x), 1, k)
        BY <2>1, <3>1, <4>1, UpToUpTo
      <4> QED
        BY <3>1, <4>2
    <3>3. u = SubSeq(Parent(q), 1, k) /\ k \in 1 .. Len(Parent(q))
      <4>1. Parent(q) = SubSeq(q, 1, Len(q) - 1) /\ Len(q) - 1 \in 0 .. Len(q) /\ k \in 0 .. Len(q) - 1
        BY <1>1, <2>1, <2>3 DEF Parent, Front
      <4>2. SubSeq(SubSeq(q, 1, Len(q) - 1), 1, k) = u /\ Len(SubSeq(q, 1, Len(q) - 1)) = Len(q) - 1
        BY <1>2, <4>1, UpToUpTo
      <4> QED
        BY <1>12, <2>1, <2>3, <4>1, <4>2
    <3>4. u \in DOMAIN dirs
      BY <1>1, <1>2, <3>3 DEF TreeOk
    <3>5. IsPrefix(u, q) /\ u \in Seq(Name)
      BY <1>2, <3>1, UpTo
    <3> HIDE DEF u
    <3>6. u \notin trees
      BY <1>1, <1>2, <3>5, PrefixOf DEF trees, Below
    <3> QED
      BY <1>5, <3>2, <3>4, <3>6
  <2> QED
    BY <2>1, <2>2, <2>3
<1>13. TreeOk'
  <2>1. \A y \in DOMAIN dirs' : \A k \in 1 .. Len(y) : SubSeq(y, 1, k) \in DOMAIN dirs'
    BY <1>5, <1>11, <1>12
  <2> QED
    BY <1>9, <1>10, <2>1 DEF TreeOk
<1> QED
  BY <1>1, <1>5, <1>13 DEF M, trees

(* The files of a tree move with it, and stand in directories as before. *)
LEMMA RenameInv ==
    ASSUME IInv, NEW p \in DirPath, NEW q \in DirPath, Rename(p, q)
    PROVE  IInv'
<1> DEFINE trees == Below(DOMAIN dirs, p)
           M(x) == Moved(p, q, x)
<1>1. /\ p \in DOMAIN dirs /\ q \notin DOMAIN dirs
      /\ files' = (files \ Below(files, p)) \cup {M(f) : f \in Below(files, p)}
      /\ owed' = (owed \ Below(owed, p)) \cup
                  {M(f) : f \in {g \in Below(files, p) : Covered(q, roots)}}
      /\ queue' = Posted(Posted(queue, Parent(p), Last(p), "gone"), Parent(q), Last(q), "appeared")
      /\ missed' = missed \cup Unnoticed(p) \cup Slips(q)
      /\ changes < MaxChanges /\ changes' = changes + 1
      /\ UNCHANGED <<live, watches, roots, closing, pending, visit, listing, silent>>
  BY DEF Rename, Moved, Change, walk
<1>2. /\ TreeOk'
      /\ DOMAIN dirs' = (DOMAIN dirs \ trees) \cup {M(x) : x \in trees}
      /\ \A x \in trees : M(x) \in DirPath
  BY RenameTree
<1>3. ASSUME NEW f \in Below(files, p)
      PROVE  M(f) \in FilePath /\ Parent(M(f)) \in DOMAIN dirs'
  <2>1. f \in FilePath /\ IsPrefix(p, f) /\ Parent(f) \in DOMAIN dirs
    BY DEF IInv, FilesOk, Below
  <2>2. IsPrefix(p, Parent(f))
    BY <2>1, ParentBelow
  <2>3. Parent(f) \in trees
    BY <2>1, <2>2 DEF Below
  <2>4. M(Parent(f)) \in DirPath
    BY <1>2, <2>3
  <2>5. M(f) \in FilePath /\ Parent(M(f)) = M(Parent(f))
    BY <2>1, <2>4, MovedFile
  <2> HIDE DEF M, trees
  <2> QED
    BY <1>2, <2>3, <2>5
<1>4. ASSUME NEW f \in files \ Below(files, p)
      PROVE  Parent(f) \in DOMAIN dirs'
  <2>1. f \in FilePath /\ ~IsPrefix(p, f) /\ Parent(f) \in DOMAIN dirs
    BY DEF IInv, FilesOk, Below
  <2>2. IsPrefix(Parent(f), f)
    BY <2>1, Paths, ParentAbove
  <2>3. ~IsPrefix(p, Parent(f))
    BY <2>1, <2>2, Paths, PrefixOf
  <2> QED
    BY <1>2, <2>1, <2>3 DEF Below
<1> HIDE DEF M, trees
<1>5. FilesOk'
  <2>1. files' \subseteq FilePath /\ \A f \in files' : Parent(f) \in DOMAIN dirs'
    BY <1>1, <1>3, <1>4 DEF IInv, FilesOk
  <2>2. owed' \subseteq files'
    BY <1>1 DEF IInv, FilesOk, Below
  <2>3. changes' \in 0 .. MaxChanges
    BY <1>1, BoundsAssumption DEF IInv, FilesOk
  <2> QED
    BY <2>1, <2>2, <2>3 DEF FilesOk
<1>6. QueueOk(queue)'
  <2> DEFINE r == Posted(queue, Parent(p), Last(p), "gone")
  <2>1. QueueOk(r) /\ Last(q) \in Name
    BY PostedOk, Paths DEF IInv
  <2> HIDE DEF r
  <2>2. QueueOk(Posted(r, Parent(q), Last(q), "appeared"))
    BY <2>1, PostedOk DEF IInv
  <2> QED
    BY <1>1, <2>2 DEF r, QueueOk
<1>7. WatcherOk'
  <2>1. Unnoticed(p) \subseteq DirPath /\ Slips(q) \subseteq DirPath
    BY DEF IInv, WatchesOk, Unnoticed, Below, Slips
  <2> QED
    BY <1>1, <2>1 DEF IInv, WatcherOk
<1>8. WatchesOk'
  BY <1>1 DEF IInv, WatchesOk
<1> QED
  BY <1>2, <1>5, <1>6, <1>7, <1>8 DEF IInv

----------------------------------------------------------------------------
(* The loop and the engine's calls *)

(* What leaves the file system alone *)
LEMMA SameSystem ==
    ASSUME IInv, UNCHANGED system, owed' \subseteq owed
    PROVE  TreeOk' /\ FilesOk'
BY DEF IInv, TreeOk, FilesOk, system

(* The walk finds only directories and files that are there. *)
LEMMA ListDirInv == ASSUME IInv, NEW d \in visit, ListDir(d) PROVE IInv'
<1>1. /\ visit' = (visit \ {d}) \cup {q \in SubDirs(d) : Last(q) \notin Ignored}
      /\ listing' = IF d \in DOMAIN dirs /\ ~IsIgnored(d)
                    THEN [dir |-> d, files |-> FilesIn(d)] ELSE NoListing
      /\ silent' = (silent /\ <<visit, listing>>' # <<{}, NoListing>>)
      /\ missed' = IF d \in roots \ DOMAIN dirs THEN missed \cup {d} ELSE missed
      /\ UNCHANGED <<system, live, queue, watches, roots, closing, pending, owed>>
  BY DEF ListDir
<1>2. TreeOk' /\ FilesOk'
  BY <1>1, SameSystem
<1>3. WatchesOk' /\ QueueOk(queue)'
  BY <1>1 DEF IInv, WatchesOk, QueueOk
<1>4. pending' \cup visit' \subseteq Seq(Name)
  <2>1. SubDirs(d) \subseteq Seq(Name)
    BY Paths DEF SubDirs, IInv, TreeOk
  <2> QED
    BY <1>1, <2>1 DEF IInv, WatcherOk
<1>5. missed' \subseteq DirPath \cup FilePath
  BY <1>1, RootsAssumption DEF IInv, WatcherOk
<1>6. listing' = NoListing \/ (listing'.dir \in DirPath /\ listing'.files \subseteq FilePath)
  BY <1>1 DEF IInv, TreeOk, FilesOk, FilesIn
<1>7. silent' \in BOOLEAN
  BY <1>1 DEF IInv, WatcherOk
<1> QED
  BY <1>1, <1>2, <1>3, <1>4, <1>5, <1>6, <1>7 DEF IInv, WatcherOk

(* A watch is added for a directory that is there. *)
LEMMA AttachInv == ASSUME IInv, Attach PROVE IInv'
<1> DEFINE d == listing.dir
<1>1. /\ d \in DirPath /\ AddWatch(d) /\ owed' = owed \ listing.files /\ listing' = NoListing
      /\ silent' = (silent /\ visit # {})
      /\ UNCHANGED <<system, roots, closing, pending, visit>>
  BY DEF Attach, IInv, WatcherOk
<1>2. TreeOk' /\ FilesOk'
  BY <1>1, SameSystem
<1>3. CASE d \in DOMAIN dirs /\ live' = With(live, dirs[d], d) /\ watches' = With(watches, d, dirs[d])
           /\ queue' = [n \in DOMAIN queue |-> IF queue[n].wd = dirs[d]
                                               THEN [queue[n] EXCEPT !.at = d] ELSE queue[n]]
           /\ missed' = missed \ {d}
  <2>1. dirs[d] \in Inode /\ dirs[d] # Dead
    BY <1>3, BoundsAssumption DEF IInv, TreeOk, Inode, Dead
  <2>2. WatchesOk'
    BY <1>1, <1>3, <2>1 DEF IInv, WatchesOk, With
  <2>3. queue \in [DOMAIN queue -> Item]
    BY LenProperties DEF IInv, QueueOk
  <2>4. queue' \in [DOMAIN queue -> Item] /\ \A n \in DOMAIN queue : queue[n].wd = Dead => queue'[n] = queue[n]
    BY <1>1, <1>3, <2>1, <2>3 DEF Item
  <2>5. QueueOk(queue')
    BY <2>4, ChangedOk DEF IInv
  <2>6. QueueOk(queue)' /\ WatcherOk'
    BY <1>1, <1>3, <2>5 DEF IInv, QueueOk, WatcherOk
  <2> QED
    BY <1>2, <2>2, <2>6 DEF IInv
<1>4. CASE UNCHANGED <<live, watches, queue>> /\ missed' \in {missed, missed \cup {d}}
  <2>1. WatchesOk' /\ QueueOk(queue)' /\ WatcherOk'
    BY <1>1, <1>4 DEF IInv, WatchesOk, QueueOk, WatcherOk
  <2> QED
    BY <1>2, <2>1 DEF IInv
<1> QED
  BY <1>1, <1>3, <1>4 DEF AddWatch

(* Watches that are dropped are the ones of some paths. *)
LEMMA RevokedIs == ASSUME IInv, NEW R PROVE Dead \notin Revoked(R) /\ Doomed(R) \subseteq DirPath
BY DEF Revoked, Doomed, IInv, WatchesOk

(* Reading an event *)
LEMMA ReadInv ==
    ASSUME IInv, ReadOverflow \/ ReadIgnored \/ ReadFile \/ ReadNewDir \/ ReadGoneDir
    PROVE  IInv'
<1>1. queue # <<>> /\ Event \in Item /\ QueueOk(Tail(queue))
  BY TailOk DEF IInv, ReadOverflow, ReadIgnored, ReadFile, ReadNewDir, ReadGoneDir, Reading, Event
<1>2. TreeOk' /\ FilesOk'
  BY SameSystem DEF ReadOverflow, ReadIgnored, ReadFile, ReadNewDir, ReadGoneDir
<1>3. CASE ReadOverflow
  <2>1. pending' = roots /\ queue' = Tail(queue)
        /\ UNCHANGED <<live, watches, roots, closing, visit, listing, silent, missed>>
    BY <1>3 DEF ReadOverflow, walk
  <2>2. roots \subseteq Seq(Name)
    BY RootsAssumption, Paths DEF IInv, WatcherOk
  <2>3. WatchesOk' /\ QueueOk(queue)' /\ WatcherOk'
    BY <1>1, <2>1, <2>2 DEF IInv, WatchesOk, QueueOk, WatcherOk
  <2> QED
    BY <1>2, <2>3 DEF IInv
<1>4. CASE ReadIgnored \/ ReadFile
  <2>1. queue' = Tail(queue)
        /\ UNCHANGED <<live, watches, roots, closing, pending, visit, listing, silent, missed>>
    BY <1>4 DEF ReadIgnored, ReadFile, walk
  <2>2. WatchesOk' /\ QueueOk(queue)' /\ WatcherOk'
    BY <1>1, <2>1 DEF IInv, WatchesOk, QueueOk, WatcherOk
  <2> QED
    BY <1>2, <2>2 DEF IInv
<1>5. CASE ReadNewDir
  <2>1. pending' = {EventPath} /\ queue' = Tail(queue) /\ Event.name \in Name
        /\ UNCHANGED <<live, watches, roots, closing, visit, listing, silent, missed>>
    BY <1>5 DEF ReadNewDir, walk
  <2>2. Event.at \in Seq(Name)
    BY <1>1, Paths, EmptySeq DEF Item
  <2>3. EventPath \in Seq(Name)
    BY <2>1, <2>2, AppendProperties DEF EventPath
  <2>4. WatchesOk' /\ QueueOk(queue)' /\ WatcherOk'
    BY <1>1, <2>1, <2>3 DEF IInv, WatchesOk, QueueOk, WatcherOk
  <2> QED
    BY <1>2, <2>4 DEF IInv
<1>6. CASE ReadGoneDir
  <2> DEFINE lost == Revoked({EventPath})
  <2>1. /\ watches' = Kept(Doomed({EventPath}), lost) /\ live' = Unwatched(lost)
        /\ queue' = Void(Tail(queue), lost)
        /\ missed' = missed \cup Late(EventPath) \cup Shared({EventPath})
        /\ UNCHANGED <<roots, closing, pending, visit, listing, silent>>
    BY <1>6 DEF ReadGoneDir, walk
  <2>2. Dead \notin lost
    BY RevokedIs
  <2> HIDE DEF lost
  <2>3. WatchesOk'
    BY <2>1, KeptOk DEF IInv
  <2>4. QueueOk(Void(Tail(queue), lost))
    BY <1>1, <2>2, VoidOk
  <2>5. Late(EventPath) \subseteq DirPath /\ Shared({EventPath}) \subseteq DirPath
    BY DEF Late, Shared, IInv, TreeOk, WatchesOk
  <2>6. QueueOk(queue)' /\ WatcherOk'
    BY <2>1, <2>4, <2>5 DEF IInv, QueueOk, WatcherOk
  <2> QED
    BY <1>2, <2>3, <2>6 DEF IInv
<1> QED
  BY <1>3, <1>4, <1>5, <1>6

(* The next walk *)
LEMMA WalkNextInv == ASSUME IInv, NEW p \in pending, WalkNext(p) PROVE IInv'
<1>1. /\ pending' = pending \ {p} /\ visit' = {p} /\ silent' = FALSE
      /\ UNCHANGED <<system, live, queue, watches, roots, closing, listing, owed, missed>>
  BY DEF WalkNext
<1>2. TreeOk' /\ FilesOk'
  BY <1>1, SameSystem
<1>3. WatchesOk' /\ QueueOk(queue)' /\ WatcherOk'
  BY <1>1 DEF IInv, WatchesOk, QueueOk, WatcherOk
<1> QED
  BY <1>2, <1>3 DEF IInv

(* New roots *)
LEMMA SetRootsInv == ASSUME IInv, NEW new \in RootSets, SetRoots(new) PROVE IInv'
<1> DEFINE lost == Revoked(roots \ new)
<1>1. /\ watches' = Kept(Doomed(roots \ new), lost) /\ live' = Unwatched(lost)
      /\ queue' = Void(queue, lost) /\ visit' = new \ roots /\ silent' = (visit' # {})
      /\ roots' = new /\ owed' = {f \in owed : Covered(f, roots \cap new)}
      /\ missed' = missed \cup Shared(roots \ new)
      /\ UNCHANGED <<system, closing, pending, listing>>
  BY DEF SetRoots
<1>2. TreeOk' /\ FilesOk'
  BY <1>1, SameSystem
<1>3. Dead \notin lost
  BY RevokedIs
<1> HIDE DEF lost
<1>4. WatchesOk'
  BY <1>1, KeptOk DEF IInv
<1>5. QueueOk(Void(queue, lost))
  BY <1>3, VoidOk DEF IInv
<1>6. new \subseteq Seq(Name)
  BY RootsAssumption, Paths
<1>7. Shared(roots \ new) \subseteq DirPath
  BY DEF Shared, IInv, WatchesOk
<1>8. QueueOk(queue)' /\ WatcherOk'
  BY <1>1, <1>5, <1>6, <1>7 DEF IInv, QueueOk, WatcherOk
<1> QED
  BY <1>2, <1>4, <1>8 DEF IInv

(* aclose drops all watches. *)
LEMMA AcloseInv == ASSUME IInv, Aclose PROVE IInv'
<1>1. /\ closing' = TRUE /\ live' = <<>> /\ queue' = <<>> /\ watches' = <<>>
      /\ UNCHANGED <<system, roots, pending, visit, listing, silent, owed, missed>>
  BY DEF Aclose, walk
<1>2. TreeOk' /\ FilesOk'
  BY <1>1, SameSystem
<1>3. QueueOk(queue)'
  BY <1>1, EmptySeq, BoundsAssumption DEF QueueOk
<1>4. WatchesOk'
  BY <1>1, EmptyFunction DEF WatchesOk
<1>5. WatcherOk'
  BY <1>1 DEF IInv, WatcherOk
<1> QED
  BY <1>2, <1>3, <1>4, <1>5 DEF IInv

----------------------------------------------------------------------------
(* Type correctness *)

(* A library stands in its root at first. *)
LEMMA InitInv == Init => IInv
<1> SUFFICES ASSUME Init PROVE IInv
  OBVIOUS
<1>1. PICK D \in SUBSET Library :
              /\ \A p \in Library : Len(p) = 1 => p \in D
              /\ IsFiniteSet(D) /\ Cardinality(D) <= MaxDirs
              /\ dirs \in {f \in [D -> 1 .. Cardinality(D)] : IsInjective(f)}
  BY DEF Init
<1>2. DOMAIN dirs = D /\ D \subseteq DirPath
  BY <1>1 DEF Library
<1>3. Cardinality(D) \in Nat
  BY <1>1, FS_CardinalityType
<1>4. dirs \in [D -> Inode] /\ IsInjective(dirs)
  BY <1>1, <1>3, BoundsAssumption DEF Inode
<1>5. ASSUME NEW p \in D, NEW k \in 1 .. Len(p) PROVE SubSeq(p, 1, k) \in D
  <2>1. p \in Seq(Name) /\ Len(p) \in Nat \ {0} /\ Len(p) <= 2 /\ ~IsIgnored(p)
    BY <1>1, <1>2, Paths DEF Library
  <2>2. CASE k = Len(p)
    BY <1>5, <2>1, <2>2, SubSeqFull
  <2>3. CASE k # Len(p)
    <3>1. k = 1 /\ Len(p) = 2
      <4>1. k \in Nat /\ k >= 1 /\ k <= Len(p)
        BY <1>5, <2>1
      <4>2. PICK n \in Nat : n = Len(p) /\ n <= 2
        BY <2>1
      <4> QED
        BY <2>3, <4>1, <4>2
    <3> DEFINE r == SubSeq(p, 1, k)
    <3>2. r = Parent(p) /\ r \in DirPath
      <4>1. r = Parent(p)
        BY <3>1 DEF Parent, Front
      <4>2. Parent(p) \in DirPath
        <5>1. p \in DirPath /\ Len(p) > 1
          BY <1>2, <3>1
        <5> QED
          BY <5>1, Paths
      <4> QED
        BY <4>1, <4>2
    <3>3. Len(r) = 1 /\ r[1] = p[1]
      BY <2>1, <3>1, UpTo
    <3> HIDE DEF r
    <3>4. r \in Library
      <4>1. 1 \in 1 .. Len(p) /\ \A i \in 1 .. Len(r) : i = 1
        BY <3>1, <3>3
      <4>2. ~IsIgnored(r)
        BY <2>1, <3>3, <4>1 DEF IsIgnored
      <4> QED
        BY <3>2, <3>3, <4>2 DEF Library
    <3> QED
      BY <1>1, <3>3, <3>4 DEF r
  <2> QED
    BY <2>2, <2>3
<1>6. TreeOk
  BY <1>2, <1>4, <1>5 DEF TreeOk
<1>7. FilesOk /\ WatchesOk
  BY EmptyFunction, BoundsAssumption DEF Init, FilesOk, WatchesOk
<1>8. QueueOk(queue)
  BY EmptySeq, BoundsAssumption DEF Init, QueueOk
<1>9. WatcherOk
  BY DEF Init, WatcherOk
<1> QED
  BY <1>6, <1>7, <1>8, <1>9 DEF IInv

(* Every step preserves the invariant. *)
LEMMA NextInv == IInv /\ [Next]_vars => IInv'
<1> SUFFICES ASSUME IInv, [Next]_vars PROVE IInv'
  OBVIOUS
<1>1. CASE FileSystem
  BY <1>1, MkDirInv, RmDirInv, CreateInv, DeleteInv, RenameInv DEF FileSystem
<1>2. CASE Loop
  BY <1>2, ListDirInv, AttachInv, ReadInv, WalkNextInv DEF Loop
<1>3. CASE \E new \in RootSets : SetRoots(new)
  BY <1>3, SetRootsInv
<1>4. CASE Aclose
  BY <1>4, AcloseInv
<1>5. CASE UNCHANGED vars
  <2>1. UNCHANGED <<system, dirs, files, changes, live, queue, watches, roots, closing, pending,
                    visit, listing, silent, owed, missed>>
    BY <1>5 DEF vars, system, walk
  <2>2. TreeOk' /\ FilesOk'
    BY <2>1, SameSystem
  <2> QED
    BY <2>1, <2>2 DEF IInv, WatchesOk, QueueOk, WatcherOk
<1> QED
  BY <1>1, <1>2, <1>3, <1>4, <1>5 DEF Next

(* The invariant holds in every reachable state. *)
THEOREM Invariance == Spec => []IInv
BY InitInv, NextInv, PTL DEF Spec

(* The watcher's state keeps its type: two paths never share a directory's *)
(* inode, a file always stands in a directory, and the kernel's queue      *)
(* never holds more than one event beyond its capacity.                    *)
THEOREM TypeCorrect == Spec => []TypeOK
<1>1. IInv => TypeOK
  <2> SUFFICES ASSUME IInv PROVE TypeOK
    OBVIOUS
  <2>1. DOMAIN dirs \subseteq DirPath /\ IsInjective(dirs) /\ Range(dirs) \subseteq Inode
    BY DEF IInv, TreeOk, Range
  <2>2. changes \in 0 .. MaxChanges /\ files \subseteq FilePath /\ owed \subseteq files
    BY DEF IInv, FilesOk
  <2>3. /\ DOMAIN live \subseteq Inode /\ Range(live) \subseteq DirPath
        /\ DOMAIN watches \subseteq DirPath /\ Range(watches) \subseteq Inode \cup {Dead}
    BY DEF IInv, WatchesOk, Range
  <2>4. Len(queue) <= QueueMax + 1
    BY DEF IInv, QueueOk
  <2>5. /\ roots \in RootSets \cup {{}} /\ {closing, silent} \subseteq BOOLEAN
        /\ \A d \in pending \cup visit : d \in Seq(Name)
        /\ missed \subseteq DirPath \cup FilePath
    BY DEF IInv, WatcherOk
  <2>6. listing.dir \in DirPath \cup {<<>>} /\ listing.files \subseteq FilePath
    BY DEF IInv, WatcherOk, NoListing
  <2> QED
    BY <2>1, <2>2, <2>3, <2>4, <2>5, <2>6 DEF TypeOK
<1> QED
  BY <1>1, Invariance, PTL

----------------------------------------------------------------------------
(* The gate's count *)

(* What count_dirs finds below one root, and what the sum over a set of    *)
(* roots is: a recursive function on its subsets.                          *)
Counted(r) == {d \in Below(DOMAIN dirs, r) : \A i \in Len(r) + 1 .. Len(d) : d[i] \notin Ignored}
Some(s) == CHOOSE x \in s : TRUE
Sum(g, s) == IF s = {} THEN 0 ELSE Cardinality(Counted(Some(s))) + g[s \ {Some(s)}]
IsSum(g, R) == g = [s \in SUBSET R |-> Sum(g, s)]
SumUpTo(g, R, n) == g = [s \in {t \in SUBSET R : Cardinality(t) <= n} |-> Sum(g, s)]

(* A set without one of its elements is smaller. *)
LEMMA Smaller ==
    ASSUME NEW R, IsFiniteSet(R), NEW s \in SUBSET R, s # {}
    PROVE  /\ Some(s) \in s /\ s \ {Some(s)} \in SUBSET R /\ IsFiniteSet(s \ {Some(s)})
           /\ Cardinality(s) \in Nat /\ Cardinality(s \ {Some(s)}) = Cardinality(s) - 1
<1>1. Some(s) \in s
  BY DEF Some
<1>2. IsFiniteSet(s) /\ Cardinality(s) \in Nat
  BY FS_Subset, FS_CardinalityType
<1> QED
  BY <1>1, <1>2, FS_RemoveElement

(* The sum exists for the subsets with any number of elements: a least     *)
(* number without it would have one, made from the sum before it.          *)
LEMMA SumUpToExists ==
    ASSUME NEW R, IsFiniteSet(R), NEW n \in Nat
    PROVE  \E g : SumUpTo(g, R, n)
<1> DEFINE U(k) == {t \in SUBSET R : Cardinality(t) <= k}
           T == {k \in Nat : ~\E g : SumUpTo(g, R, k)}
<1> SUFFICES ASSUME T # {} PROVE FALSE
  OBVIOUS
<1>1. PICK k \in T : \A y \in T : k <= y
  BY Least
<1>2. CASE k = 0
  <2> DEFINE g == [t \in U(0) |-> 0]
  <2>1. ASSUME NEW t \in U(0) PROVE Sum(g, t) = 0
    <3>1. IsFiniteSet(t) /\ Cardinality(t) \in Nat /\ Cardinality(t) <= 0
      BY FS_Subset, FS_CardinalityType
    <3> QED
      BY <3>1, FS_EmptySet DEF Sum
  <2>2. SumUpTo(g, R, 0)
    BY <2>1, Zenon DEF SumUpTo
  <2> QED
    BY <1>1, <1>2, <2>2
<1>3. CASE k # 0
  <2>1. k - 1 \in Nat /\ k - 1 \notin T
    BY <1>1, <1>3
  <2>2. PICK g : SumUpTo(g, R, k - 1)
    BY <2>1
  <2> DEFINE h == [t \in U(k) |-> Sum(g, t)]
  <2>3. ASSUME NEW t \in U(k) PROVE Sum(g, t) = Sum(h, t)
    <3>1. CASE t = {}
      BY <3>1 DEF Sum
    <3>2. CASE t # {}
      <4> DEFINE u == t \ {Some(t)}
      <4>1. u \in U(k - 1) /\ u \in U(k)
        <5>1. /\ t \in SUBSET R /\ Cardinality(t) <= k /\ k \in Nat
              /\ u \in SUBSET R /\ Cardinality(t) \in Nat /\ Cardinality(u) = Cardinality(t) - 1
          BY <3>2, Smaller, <1>1
        <5> QED
          BY <5>1
      <4>2. h[u] = Sum(g, u)
        BY <4>1
      <4>3. g[u] = Sum(g, u)
        BY <2>2, <4>1 DEF SumUpTo
      <4> HIDE DEF h
      <4> QED
        BY <3>2, <4>2, <4>3 DEF Sum
    <3> QED
      BY <3>1, <3>2
  <2>4. SumUpTo(h, R, k)
    BY <2>3 DEF SumUpTo
  <2> QED
    BY <1>1, <2>4
<1> QED
  BY <1>2, <1>3

(* count_dirs is the sum over its roots. *)
LEMMA CountDirsIsSum ==
    ASSUME NEW R, IsFiniteSet(R)
    PROVE  \E g : IsSum(g, R) /\ CountDirs(R) = g[R]
<1>1. Cardinality(R) \in Nat
  BY FS_CardinalityType
<1>2. PICK g : SumUpTo(g, R, Cardinality(R))
  BY <1>1, SumUpToExists
<1>3. {t \in SUBSET R : Cardinality(t) <= Cardinality(R)} = SUBSET R
  BY FS_Subset
<1>4. IsSum(g, R)
  BY <1>2, <1>3 DEF IsSum, SumUpTo
<1>5. IsSum(CHOOSE h : IsSum(h, R), R)
  BY <1>4
<1>6. CountDirs(R) = (CHOOSE h : IsSum(h, R))[R]
  BY DEF CountDirs, MapThenSumSet, MapThenFoldSet, IsSum, Sum, Some, Counted
<1> QED
  BY <1>5, <1>6

(* The sum over a set of roots is at least the number of directories       *)
(* counted below any of them.                                              *)
LEMMA SumCovers ==
    ASSUME NEW R, IsFiniteSet(R), IsFiniteSet(DOMAIN dirs), NEW g, IsSum(g, R), NEW s \in SUBSET R
    PROVE  g[s] \in Nat /\ g[s] >= Cardinality(UNION {Counted(r) : r \in s})
<1> DEFINE Reach(t) == UNION {Counted(r) : r \in t}
           Holds(t) == g[t] \in Nat /\ g[t] >= Cardinality(Reach(t))
           T == {n \in Nat : \E t \in SUBSET R : Cardinality(t) = n /\ ~Holds(t)}
<1>1. ASSUME NEW t PROVE IsFiniteSet(Reach(t)) /\ Cardinality(Reach(t)) \in Nat
  <2>1. Reach(t) \subseteq DOMAIN dirs
    BY DEF Counted, Below
  <2> QED
    BY <2>1, FS_Subset, FS_CardinalityType
<1>2. ASSUME T # {} PROVE FALSE
  <2>1. PICK n \in T : \A y \in T : n <= y
    BY <1>2, Least
  <2>2. PICK t \in SUBSET R : Cardinality(t) = n /\ ~Holds(t)
    BY <2>1
  <2>3. \A k \in Nat : k < n => k \notin T
    <3>1. n \in Nat
      OBVIOUS
    <3> HIDE DEF T
    <3> QED
      BY <2>1, <3>1
  <2>4. g[t] = Sum(g, t)
    BY DEF IsSum
  <2>5. CASE t = {}
    <3>1. Reach(t) = {} /\ g[t] = 0
      BY <2>4, <2>5 DEF Sum
    <3> QED
      BY <2>2, <3>1, FS_EmptySet
  <2>6. CASE t # {}
    <3> DEFINE r == Some(t)
               u == t \ {r}
    <3>1. r \in t /\ u \in SUBSET R /\ n - 1 \in Nat /\ Cardinality(u) = n - 1
      <4>1. Cardinality(u) = n - 1 /\ r \in t /\ u \in SUBSET R /\ IsFiniteSet(u)
        BY <2>2, <2>6, Smaller
      <4>2. Cardinality(u) \in Nat
        BY <4>1, FS_CardinalityType
      <4> QED
        BY <4>1, <4>2
    <3>2. Holds(u)
      <4>1. n - 1 \notin T
        <5>1. n - 1 \in Nat /\ n - 1 < n
          BY <3>1
        <5> HIDE DEF T
        <5> QED
          BY <2>3, <5>1
      <4> HIDE DEF Holds
      <4> QED
        BY <3>1, <4>1
    <3>3. g[t] = Cardinality(Counted(r)) + g[u]
      BY <2>4, <2>6 DEF Sum
    <3>4. Reach(t) = Counted(r) \cup Reach(u)
      BY <3>1
    <3>5. IsFiniteSet(Counted(r)) /\ Cardinality(Counted(r)) \in Nat
      <4>1. Counted(r) = Reach({r})
        OBVIOUS
      <4> QED
        BY <1>1, <4>1
    <3>6. Cardinality(Reach(t)) <= Cardinality(Counted(r)) + Cardinality(Reach(u))
      <4>1. IsFiniteSet(Counted(r) \cap Reach(u)) /\ Cardinality(Counted(r) \cap Reach(u)) \in Nat
        BY <3>5, FS_Intersection, FS_CardinalityType
      <4>2. Cardinality(Counted(r) \cup Reach(u)) =
                Cardinality(Counted(r)) + Cardinality(Reach(u)) - Cardinality(Counted(r) \cap Reach(u))
        BY <1>1, <3>5, FS_Union
      <4> HIDE DEF Reach
      <4> QED
        BY <1>1, <3>4, <3>5, <4>1, <4>2
    <3> HIDE DEF Reach, u, r
    <3> QED
      BY <1>1, <2>2, <3>2, <3>3, <3>5, <3>6
  <2> QED
    BY <2>5, <2>6
<1>3. IsFiniteSet(s) /\ Cardinality(s) \in Nat
  BY FS_Subset, FS_CardinalityType
<1> HIDE DEF Holds
<1>4. Holds(s)
  BY <1>2, <1>3
<1> QED
  BY <1>4 DEF Holds

(* The gate counts every directory the watcher will have to watch, for any *)
(* tree and any roots, also when they lie inside one another.              *)
THEOREM GateLeavesNoneOut == Spec => []GateCountsAll
<1>1. IInv => GateCountsAll
  <2> SUFFICES ASSUME IInv PROVE GateCountsAll
    OBVIOUS
  <2>1. IsFiniteSet(roots)
    BY RootsAssumption, FS_EmptySet DEF IInv, WatcherOk
  <2>2. IsFiniteSet(DOMAIN dirs)
    <3>1. dirs \in Injection(DOMAIN dirs, Inode)
      BY DEF IInv, TreeOk, Injection, IsInjective
    <3>2. IsFiniteSet(Inode)
      BY BoundsAssumption, FS_Interval DEF Inode
    <3> QED
      BY <3>1, <3>2, FS_Injection
  <2>3. PICK g : IsSum(g, roots) /\ CountDirs(roots) = g[roots]
    BY <2>1, CountDirsIsSum
  <2> DEFINE All == UNION {Counted(r) : r \in roots}
  <2>4. CountDirs(roots) \in Nat /\ CountDirs(roots) >= Cardinality(All)
    BY <2>1, <2>2, <2>3, SumCovers
  <2>5. Visible \subseteq All
    <3> SUFFICES ASSUME NEW d \in Visible PROVE \E r \in roots : d \in Counted(r)
      OBVIOUS
    <3>1. PICK r \in roots : IsPrefix(r, d)
      BY DEF Visible, Covered
    <3>2. r \in Seq(Name) /\ Len(r) \in Nat /\ Len(d) \in Nat
      BY RootsAssumption, Paths DEF Visible, IInv, TreeOk, WatcherOk
    <3>3. ASSUME NEW i \in Len(r) + 1 .. Len(d) PROVE d[i] \notin Ignored
      BY <3>2 DEF Visible, IsIgnored
    <3> QED
      BY <3>1, <3>3 DEF Counted, Below, Visible
  <2>6. IsFiniteSet(All) /\ All \subseteq DOMAIN dirs
    <3>1. All \subseteq DOMAIN dirs
      BY DEF Counted, Below
    <3> QED
      BY <2>2, <3>1, FS_Subset
  <2>7. Cardinality(Visible) <= Cardinality(All) /\ Cardinality(Visible) \in Nat /\ Cardinality(All) \in Nat
    BY <2>5, <2>6, FS_Subset, FS_CardinalityType
  <2> HIDE DEF All
  <2> QED
    BY <2>4, <2>7 DEF GateCountsAll
<1> QED
  BY <1>1, Invariance, PTL

----------------------------------------------------------------------------
(* What the watcher owes: AllWatched and AllReported                       *)

(* The path that events() makes of an event *)
PathOf(e) == Append(e.at, e.name)

(* The kernel watches the directory at its path. *)
Held(d) == d \in DOMAIN dirs /\ dirs[d] \in DOMAIN live /\ live[dirs[d]] = d

(* An event of that path waits in the queue, of an arrival or a removal. *)
Told(g) == \E e \in Range(queue) : e.kind \in {"appeared", "gone"} /\ PathOf(e) = g

(* A removal waits: reading it drops what _watches has below the path. *)
Gone(g) == \E e \in Range(queue) : e.kind = "gone" /\ PathOf(e) = g

(* The queue has what will be the event of g once its parent is watched. *)
Half(g) == /\ Len(g) > 1 /\ Parent(g) = listing.dir /\ listing.dir \in DOMAIN dirs \ DOMAIN watches
           /\ \E e \in Range(queue) : e.wd = dirs[listing.dir] /\ e.name = Last(g)

(* An entry at the path or above it is missed, and excuses what is below. *)
Lost(d) == \E a \in Upward(d) : a \in missed /\ a \in DOMAIN watches

(* An entry of _watches the kernel has no watch for at that path is        *)
(* missed, or its removal waits.                                           *)
StaleOk(d) == Held(d) \/ Lost(d) \/ \E g \in Upward(d) : Gone(g)

(* A walk will list the path, or an event names it.                        *)
Coming(g) == g \in visit \cup pending \/ Told(g) \/ Half(g)

(* The loop will come to the path: it reads an overflow, or comes to a     *)
(* directory above.                                                        *)
Due(d) == Overflow \in Range(queue) \/ \E g \in Upward(d) : Coming(g)

(* The properties excuse the path, or the loop will come to it. *)
Safe(d) == Blind(d) \/ Due(d)

(* A directory is watched, excused, still to be found, or about to be      *)
(* watched.                                                                *)
Known(d) == Held(d) \/ Safe(d) \/ listing.dir = d

(* An event of a live watch has the path asyncinotify has for its          *)
(* descriptor.                                                             *)
EventsOk(q, L) ==
    \A e \in Range(q) : \/ e = Overflow
                        \/ /\ e.at \in DirPath /\ e.name \in Name \cup FileName
                           /\ e.kind \in {"appeared", "gone"}
                           /\ e.wd # Dead => e.wd \in DOMAIN L /\ e.at = L[e.wd]

(* A live descriptor is that of the entry at its path. *)
LiveOk(L, w) == \A i \in DOMAIN L : L[i] \in DOMAIN w /\ w[L[i]] = i

(* No ignored directory is watched or about to be. *)
SeenOk == /\ \A d \in DOMAIN watches : ~IsIgnored(d)
          /\ listing # NoListing => ~IsIgnored(listing.dir)

(* What the queue, asyncinotify and _watches know of each other *)
Book == EventsOk(queue, live) /\ LiveOk(live, watches) /\ SeenOk

(* An entry that no longer stands for a watch is excused or on its way     *)
(* out.                                                                    *)
Stale == closing \/ \A d \in DOMAIN watches : StaleOk(d)

(* No directory below a root, and no root, is forgotten. *)
DirsKnown == \A d \in DOMAIN dirs \cup roots : Covered(d, roots) /\ ~IsIgnored(d) => Known(d)

(* No file that appeared below a root is, and no other file is owed. *)
FilesKnown == \A f \in owed : /\ Covered(f, roots)
                              /\ ~IsIgnored(f) => Safe(f) \/ f \in listing.files

(* What is in the directory that is about to be watched *)
Listed(c) == \/ c \in listing.files \/ Due(c)
             \/ \E a \in Upward(c) : a # listing.dir /\ a \in missed

(* The same for what has come into the directory between its listing and   *)
(* its add_watch, which the walk will not find by itself                   *)
ListingKnown == listing.dir \notin DOMAIN watches =>
                    \A c \in DOMAIN dirs \cup owed :
                        /\ Covered(c, roots) /\ ~IsIgnored(c)
                        /\ listing # NoListing /\ Len(c) > 1 /\ Parent(c) = listing.dir
                        => Listed(c)

(* The watcher forgets nothing: with Book and Stale, the inductive         *)
(* invariant of AllWatched and AllReported.                                *)
Promise == closing \/ (DirsKnown /\ FilesKnown /\ ListingKnown)

(* The roots are the tops of the tree, one name each: no root is inside    *)
(* another, and what is above them is not modelled.  With nested roots     *)
(* set_roots takes watches from the root that stays, and AllWatched fails. *)
TopRoots == \A R \in RootSets : \A r \in R : Len(r) = 1

(* The names on a path, of directories and of files *)
Seg == Name \cup FileName

(* The paths there can be *)
APath == Seq(Seg) \ {<<>>}

----------------------------------------------------------------------------
(* Upward *)

(* What is above a path are its prefixes. *)
LEMMA UpwardIs ==
    ASSUME NEW p \in Seq(Seg)
    PROVE  \A a : a \in Upward(p) <=> a \in APath /\ IsPrefix(a, p)
<1>1. Len(p) \in Nat
  BY LenProperties
<1>2. ASSUME NEW i \in 1 .. Len(p) PROVE SubSeq(p, 1, i) \in APath /\ IsPrefix(SubSeq(p, 1, i), p)
  <2> DEFINE u == SubSeq(p, 1, i)
  <2>1. i \in 0 .. Len(p) /\ i # 0
    BY <1>1
  <2>2. u \in Seq(Seg) /\ Len(u) = i /\ IsPrefix(u, p)
    BY <2>1, UpTo
  <2> HIDE DEF u
  <2>3. u # <<>>
    BY <2>1, <2>2, EmptySeq
  <2> QED
    BY <2>2, <2>3 DEF APath, u
<1>3. ASSUME NEW a \in APath, IsPrefix(a, p) PROVE \E i \in 1 .. Len(p) : a = SubSeq(p, 1, i)
  <2>1. a \in Seq(Seg) /\ a # <<>> /\ Len(a) \in Nat
    BY LenProperties DEF APath
  <2>2. a = SubSeq(p, 1, Len(a)) /\ Len(a) <= Len(p) /\ Len(a) # 0
    BY <1>3, <2>1, PrefixOf, PrefixIs, EmptySeq
  <2>3. Len(a) \in 1 .. Len(p)
    BY <1>1, <2>1, <2>2
  <2> QED
    BY <2>2, <2>3, Zenon
<1> QED
  BY <1>2, <1>3 DEF Upward

(* Elements, and the order *)
LEMMA Ups ==
    ASSUME NEW p \in APath
    PROVE  /\ p \in Upward(p) /\ Upward(p) \subseteq APath
           /\ \A a \in Upward(p) : /\ Upward(a) \subseteq Upward(p)
                                   /\ Len(a) \in Nat /\ Len(p) \in Nat /\ Len(a) > 0
                                   /\ Len(a) <= Len(p) /\ (a # p => Len(a) < Len(p))
                                   /\ \A i \in 1 .. Len(a) : a[i] = p[i]
                                   /\ IsIgnored(a) => IsIgnored(p)
<1>1. p \in Seq(Seg) /\ p # <<>> /\ Len(p) \in Nat
  BY LenProperties DEF APath
<1>2. IsPrefix(p, p)
  BY <1>1, PrefixIs
<1>3. p \in Upward(p) /\ Upward(p) \subseteq APath
  BY <1>1, <1>2, UpwardIs
<1>4. ASSUME NEW a \in Upward(p)
      PROVE  /\ Upward(a) \subseteq Upward(p)
             /\ Len(a) \in Nat /\ Len(p) \in Nat /\ Len(a) > 0
             /\ Len(a) <= Len(p) /\ (a # p => Len(a) < Len(p))
             /\ \A i \in 1 .. Len(a) : a[i] = p[i]
             /\ IsIgnored(a) => IsIgnored(p)
  <2>1. a \in Seq(Seg) /\ a # <<>> /\ IsPrefix(a, p)
    BY <1>1, UpwardIs DEF APath
  <2>2. Len(a) \in Nat /\ Len(a) > 0
    BY <2>1, EmptySeq, LenProperties
  <2>3. Len(a) <= Len(p) /\ (\A i \in 1 .. Len(a) : a[i] = p[i]) /\ (a # p => Len(a) < Len(p))
    BY <1>1, <2>1, PrefixIs, PrefixOf
  <2>4. ASSUME NEW b \in Upward(a) PROVE b \in Upward(p)
    <3>1. b \in APath /\ b \in Seq(Seg) /\ IsPrefix(b, a)
      BY <2>1, UpwardIs DEF APath
    <3>2. IsPrefix(b, p)
      BY <1>1, <2>1, <3>1, PrefixOf
    <3> QED
      BY <1>1, <3>1, <3>2, UpwardIs
  <2>5. IsIgnored(a) => IsIgnored(p)
    BY <1>1, <2>2, <2>3 DEF IsIgnored
  <2> QED
    BY <1>1, <2>2, <2>3, <2>4, <2>5
<1> QED
  BY <1>3, <1>4

(* What is above a path is above what it is in, or the path itself. *)
LEMMA UpParent ==
    ASSUME NEW p \in APath, Len(p) > 1
    PROVE  Parent(p) \in APath /\ Upward(p) = Upward(Parent(p)) \cup {p} /\ Parent(p) # p
           /\ Len(Parent(p)) = Len(p) - 1 /\ Last(p) \in Seg /\ p = Append(Parent(p), Last(p))
           /\ (\A i \in 1 .. Len(Parent(p)) : Parent(p)[i] = p[i])
           /\ p \notin Upward(Parent(p)) /\ Parent(p) \in Upward(p)
<1>1. p \in Seq(Seg) /\ Len(p) \in Nat /\ Len(p) - 1 \in 0 .. Len(p) /\ Len(p) \in 1 .. Len(p)
  BY LenProperties DEF APath
<1> DEFINE u == SubSeq(p, 1, Len(p) - 1)
<1>2. u \in Seq(Seg) /\ Len(u) = Len(p) - 1 /\ IsPrefix(u, p) /\ \A i \in 1 .. Len(p) - 1 : u[i] = p[i]
  BY <1>1, UpTo
<1>3. u = Parent(p)
  BY DEF Parent, Front
<1> HIDE DEF u
<1>4. u # <<>> /\ u # p
  BY <1>1, <1>2, EmptySeq
<1>5. u \in APath /\ u \in Upward(p)
  BY <1>1, <1>2, <1>4, UpwardIs DEF APath
<1>6. Upward(u) \subseteq Upward(p) /\ p \in Upward(p)
  BY <1>5, Ups
<1>7. ASSUME NEW a \in Upward(p), a # p PROVE a \in Upward(u)
  <2>1. a \in APath /\ a \in Seq(Seg) /\ Len(a) \in Nat /\ Len(a) < Len(p) /\ \A i \in 1 .. Len(a) : a[i] = p[i]
    BY <1>7, Ups DEF APath
  <2>2. IsPrefix(a, u)
    BY <1>1, <1>2, <2>1, PrefixIs
  <2> QED
    BY <1>2, <2>1, <2>2, UpwardIs
<1>8. p \notin Upward(u)
  BY <1>1, <1>2, <1>5, Ups
<1>9. Last(p) \in Seg
  BY <1>1, ElementOfSeq DEF Last
<1>10. p = Append(Parent(p), Last(p))
  BY <1>1, FrontLast DEF Parent
<1> QED
  BY <1>2, <1>3, <1>4, <1>5, <1>6, <1>7, <1>8, <1>9, <1>10

(* The step from a path towards one below it *)
LEMMA Toward ==
    ASSUME NEW t \in APath, NEW a \in Upward(t), a # t
    PROVE  \E c \in Upward(t) : Len(c) > 1 /\ Parent(c) = a /\ c \notin Upward(a)
<1>1. t \in Seq(Seg) /\ a \in Seq(Seg) /\ Len(a) \in Nat /\ Len(t) \in Nat /\ Len(a) > 0 /\ Len(a) < Len(t)
      /\ \A i \in 1 .. Len(a) : a[i] = t[i]
  BY Ups DEF APath
<1> DEFINE c == SubSeq(t, 1, Len(a) + 1)
<1>2. Len(a) + 1 \in 0 .. Len(t) /\ Len(a) + 1 \in 1 .. Len(t)
  BY <1>1
<1>3. c \in Seq(Seg) /\ Len(c) = Len(a) + 1 /\ \A i \in 1 .. Len(a) + 1 : c[i] = t[i]
  BY <1>1, <1>2, UpTo
<1>4. c \in Upward(t) /\ c \in APath
  BY <1>2, Ups DEF Upward
<1> HIDE DEF c
<1>5. /\ Parent(c) \in APath /\ Len(Parent(c)) = Len(a) /\ \A i \in 1 .. Len(a) : Parent(c)[i] = c[i]
      /\ c \notin Upward(Parent(c))
  BY <1>1, <1>3, <1>4, UpParent
<1>6. Parent(c) = a
  <2> DEFINE v == Parent(c)
  <2>1. v \in Seq(Seg) /\ Len(v) = Len(a) /\ \A i \in 1 .. Len(v) : v[i] = a[i]
    BY <1>1, <1>3, <1>5 DEF APath
  <2> HIDE DEF v
  <2>2. v = a
    BY <1>1, <2>1, SeqEqual
  <2> QED
    BY <2>2 DEF v
<1> QED
  BY <1>1, <1>3, <1>4, <1>5, <1>6

(* Directories and files are paths, and what is above them directories. *)
LEMMA APaths ==
    /\ \A p \in DirPath : p \in APath /\ Upward(p) \subseteq DirPath /\ Last(p) \in Name /\ p \notin FilePath
    /\ \A f \in FilePath : /\ f \in APath /\ Len(f) > 1 /\ Parent(f) \in DirPath /\ Upward(f) = Upward(Parent(f)) \cup {f}
                           /\ Last(f) \in FileName
<1>1. ASSUME NEW p \in DirPath PROVE p \in APath /\ Last(p) \in Name /\ p \in Seq(Name) /\ Len(p) \in Nat
  BY Paths DEF APath, Seg
<1>2. ASSUME NEW f \in FilePath
      PROVE  f \in APath /\ Len(f) > 1 /\ Parent(f) \in DirPath /\ Upward(f) = Upward(Parent(f)) \cup {f}
             /\ Last(f) \in FileName
  <2>1. f \in APath /\ Parent(f) \in DirPath /\ Len(f) = Len(Parent(f)) + 1 /\ Last(f) \in FileName
    BY Paths DEF APath, Seg
  <2>2. Len(Parent(f)) \in Nat \ {0}
    BY <2>1, Paths
  <2>3. Len(f) > 1
    BY <2>1, <2>2
  <2> QED
    BY <2>1, <2>3, UpParent
<1>3. \A p \in DirPath : p \notin FilePath
  BY <1>1, <1>2, PathAssumption
<1>4. ASSUME NEW p \in DirPath PROVE Upward(p) \subseteq DirPath
  <2> DEFINE Bad == {k \in Nat : \E x \in DirPath : Len(x) = k /\ ~(Upward(x) \subseteq DirPath)}
  <2>1. ASSUME Bad # {} PROVE FALSE
    <3>1. PICK k \in Bad : \A j \in Bad : k <= j
      BY <2>1, Least
    <3>2. PICK x \in DirPath : Len(x) = k /\ ~(Upward(x) \subseteq DirPath)
      BY <3>1
    <3>3. x \in APath /\ Len(x) \in Nat \ {0}
      BY <1>1, Paths
    <3>4. CASE Len(x) > 1
      <4>1. Parent(x) \in DirPath /\ Len(Parent(x)) = k - 1 /\ Upward(x) = Upward(Parent(x)) \cup {x}
        BY <3>2, <3>3, <3>4, UpParent, Paths
      <4>2. k - 1 \notin Bad /\ k - 1 \in Nat
        <5>1. k - 1 \in Nat /\ k - 1 < k
          BY <3>2, <3>3
        <5> HIDE DEF Bad
        <5> QED
          BY <3>1, <3>2, <3>3, <5>1
      <4> QED
        BY <3>2, <4>1, <4>2
    <3>5. CASE ~(Len(x) > 1)
      <4>1. \A a \in Upward(x) : a = x
        BY <3>3, <3>5, Ups
      <4> QED
        BY <3>2, <4>1
    <3> QED
      BY <3>4, <3>5
  <2> QED
    BY <1>1, <2>1
<1> QED
  BY <1>1, <1>2, <1>3, <1>4

(* What is covered, when roots are tops of trees *)
LEMMA CoveredUp ==
    ASSUME NEW R, R \subseteq DirPath, \A r \in R : Len(r) = 1,
           NEW t \in APath, NEW a \in Upward(t)
    PROVE  /\ Covered(a, R) <=> Covered(t, R)
           /\ Covered(t, R) <=> \E r \in R : r \in Upward(t)
           /\ t \in R => Upward(t) = {t}
<1>1. t \in Seq(Seg) /\ a \in Seq(Seg) /\ a \in APath /\ Upward(a) \subseteq Upward(t) /\ Len(a) \in Nat /\ Len(a) > 0 /\ Len(a) <= Len(t)
      /\ (\A i \in 1 .. Len(a) : a[i] = t[i]) /\ Len(t) \in Nat
  BY Ups DEF APath
<1>2. ASSUME NEW r \in R PROVE r \in APath /\ r \in Seq(Seg) /\ Len(r) = 1
  BY APaths DEF APath
<1>3. Covered(t, R) <=> \E r \in R : r \in Upward(t)
  BY <1>1, <1>2, UpwardIs DEF Covered
<1>4. Covered(a, R) <=> \E r \in R : r \in Upward(a)
  BY <1>1, <1>2, UpwardIs DEF Covered
<1>5. ASSUME NEW r \in R, r \in Upward(t) PROVE r \in Upward(a)
  <2>1. Len(r) <= Len(a) /\ \A i \in 1 .. Len(r) : r[i] = a[i]
    BY <1>1, <1>2, <1>5, Ups
  <2>2. IsPrefix(r, a)
    BY <1>1, <1>2, <2>1, PrefixIs
  <2> QED
    BY <1>1, <1>2, <2>2, UpwardIs
<1>6. t \in R => Upward(t) = {t}
  BY <1>2, Ups
<1> QED
  BY <1>1, <1>3, <1>4, <1>5, <1>6

(* The directories below a path, and the roots *)
LEMMA BelowIs ==
    ASSUME NEW S, S \subseteq Seq(Seg), NEW p \in APath
    PROVE  \A q : q \in Below(S, p) <=> q \in S /\ p \in Upward(q)
<1>1. \A q \in S : IsPrefix(p, q) <=> p \in Upward(q)
  BY UpwardIs
<1> QED
  BY <1>1 DEF Below

(* What the invariant says of the paths in the state *)
LEMMA DirsAre ==
    ASSUME IInv
    PROVE  /\ DOMAIN dirs \subseteq DirPath /\ \A d \in DOMAIN dirs : d \in APath /\ Upward(d) \subseteq DOMAIN dirs /\ dirs[d] \in Inode
           /\ \A c, d \in DOMAIN dirs : dirs[c] = dirs[d] => c = d
           /\ DOMAIN watches \subseteq DirPath /\ \A d \in DOMAIN watches : d \in APath
           /\ \A f \in files : f \in FilePath /\ Parent(f) \in DOMAIN dirs
           /\ owed \subseteq files
           /\ Dead \notin Inode /\ DOMAIN live \subseteq Inode /\ Dead \notin DOMAIN live
           /\ <<>> \notin APath /\ <<>> \notin DOMAIN dirs /\ <<>> \notin DOMAIN watches
           /\ roots \subseteq DirPath
<1>1. DOMAIN dirs \subseteq DirPath /\ \A c, d \in DOMAIN dirs : dirs[c] = dirs[d] => c = d
  BY DEF IInv, TreeOk, IsInjective
<1>2. \A d \in DOMAIN dirs : d \in APath /\ Upward(d) \subseteq DOMAIN dirs /\ dirs[d] \in Inode
  <2>1. \A d \in DOMAIN dirs : Upward(d) \subseteq DOMAIN dirs /\ dirs[d] \in Inode
    BY DEF IInv, TreeOk, Upward
  <2> QED
    BY <1>1, <2>1, APaths
<1>3. DOMAIN watches \subseteq DirPath /\ \A d \in DOMAIN watches : d \in APath
  BY APaths DEF IInv, WatchesOk
<1>4. Dead \notin Inode /\ DOMAIN live \subseteq Inode /\ Dead \notin DOMAIN live
  BY BoundsAssumption DEF Inode, Dead, IInv, WatchesOk
<1>5. roots \subseteq DirPath
  BY RootsAssumption DEF IInv, WatcherOk
<1>6. <<>> \notin APath
  BY DEF APath
<1> QED
  BY <1>1, <1>2, <1>3, <1>4, <1>5, <1>6 DEF IInv, FilesOk

----------------------------------------------------------------------------
(* Queue *)

(* The kernel keeps what it has queued, and queues an event or an          *)
(* overflow.                                                               *)
LEMMA QueuedRange ==
    ASSUME NEW S, NEW q \in Seq(S), NEW e \in S, Overflow \in S
    PROVE  /\ Range(q) \subseteq Range(Queued(q, e))
           /\ Range(Queued(q, e)) \subseteq Range(q) \cup {e, Overflow}
           /\ e \in Range(Queued(q, e)) \/ Overflow \in Range(Queued(q, e))
           /\ Len(q) < QueueMax => e \in Range(Queued(q, e))
           /\ Queued(q, e) \in Seq(S)
<1>1. ASSUME NEW d \in S PROVE Range(Append(q, d)) = Range(q) \cup {d} /\ Append(q, d) \in Seq(S)
  <2> DEFINE r == Append(q, d)
  <2>1. /\ r \in Seq(S) /\ Len(r) = Len(q) + 1 /\ (\A i \in 1 .. Len(q) : r[i] = q[i]) /\ r[Len(q) + 1] = d
        /\ Len(q) \in Nat /\ DOMAIN q = 1 .. Len(q) /\ DOMAIN r = 1 .. Len(r)
    BY AppendProperties, LenProperties
  <2> HIDE DEF r
  <2>2. Range(r) = Range(q) \cup {d}
    BY <2>1 DEF Range
  <2> QED
    BY <2>1, <2>2 DEF r
<1> QED
  BY <1>1 DEF Queued

(* Voiding changes descriptors only. *)
LEMMA VoidRange ==
    ASSUME NEW q, NEW lost
    PROVE  Range(Void(q, lost)) = {IF e.wd \in lost THEN [e EXCEPT !.wd = Dead] ELSE e : e \in Range(q)}
BY DEF Range, Void

(* The queue is the event that is read and the ones after it. *)
LEMMA TailRange ==
    ASSUME NEW S, NEW q \in Seq(S), q # <<>>
    PROVE  /\ Range(q) = {Head(q)} \cup Range(Tail(q)) /\ Tail(q) \in Seq(S)
           /\ Range(Tail(q)) = {q[n] : n \in 2 .. Len(q)}
<1>1. Len(q) \in Nat /\ DOMAIN q = 1 .. Len(q) /\ Len(q) # 0 /\ Head(q) = q[1]
  BY LenProperties, EmptySeq, HeadTailProperties
<1> DEFINE r == Tail(q)
<1>2. r \in Seq(S) /\ Len(r) = Len(q) - 1 /\ \A i \in 1 .. Len(r) : r[i] = q[i + 1]
  BY <1>1, HeadTailProperties
<1> HIDE DEF r
<1>3. DOMAIN r = 1 .. Len(r)
  BY <1>2, LenProperties
<1>4. Range(r) = {q[n] : n \in 2 .. Len(q)}
  <2>1. ASSUME NEW n \in 2 .. Len(q) PROVE n - 1 \in 1 .. Len(r) /\ r[n - 1] = q[n]
    BY <1>1, <1>2, <2>1
  <2>2. ASSUME NEW n \in 1 .. Len(r) PROVE n + 1 \in 2 .. Len(q) /\ r[n] = q[n + 1]
    BY <1>1, <1>2, <2>2
  <2>3. Range(r) = {r[n] : n \in 1 .. Len(r)}
    BY <1>3 DEF Range
  <2>4. Range(r) \subseteq {q[n] : n \in 2 .. Len(q)}
    BY <2>2, <2>3
  <2>5. {q[n] : n \in 2 .. Len(q)} \subseteq Range(r)
    BY <2>1, <2>3
  <2> QED
    BY <2>4, <2>5
<1>5. Range(q) = {q[1]} \cup {q[n] : n \in 2 .. Len(q)}
  <2>1. 1 .. Len(q) = {1} \cup 2 .. Len(q)
    BY <1>1
  <2> QED
    BY <1>1, <2>1 DEF Range
<1> QED
  BY <1>1, <1>2, <1>4, <1>5 DEF r

(* The event of a change *)
NewEvent(d, name, kind) == [wd |-> dirs[d], at |-> live[dirs[d]], name |-> name, kind |-> kind]
(* A change in a watched directory queues its event or an overflow. *)
LEMMA PostedRange ==
    ASSUME IInv, NEW q \in Seq(Item), NEW d, NEW name \in Seg, NEW kind \in {"appeared", "gone"}
    PROVE  /\ Range(q) \subseteq Range(Posted(q, d, name, kind)) /\ Posted(q, d, name, kind) \in Seq(Item)
           /\ Range(Posted(q, d, name, kind)) \subseteq Range(q) \cup {Overflow} \cup
                   (IF d \in DOMAIN dirs /\ dirs[d] \in DOMAIN live THEN {NewEvent(d, name, kind)} ELSE {})
           /\ d \in DOMAIN dirs /\ dirs[d] \in DOMAIN live =>
                  /\ \/ NewEvent(d, name, kind) \in Range(Posted(q, d, name, kind))
                     \/ Overflow \in Range(Posted(q, d, name, kind))
                  /\ Len(q) < QueueMax => NewEvent(d, name, kind) \in Range(Posted(q, d, name, kind))
<1>1. CASE d \in DOMAIN dirs /\ dirs[d] \in DOMAIN live
  <2> DEFINE e == NewEvent(d, name, kind)
  <2>1. e \in Item /\ Overflow \in Item
    BY <1>1 DEF IInv, TreeOk, WatchesOk, Item, NewEvent, Overflow, Seg
  <2>2. Posted(q, d, name, kind) = Queued(q, e)
    BY <1>1 DEF Posted, NewEvent
  <2> HIDE DEF e
  <2>3. /\ Range(q) \subseteq Range(Queued(q, e)) /\ Queued(q, e) \in Seq(Item)
        /\ Range(Queued(q, e)) \subseteq Range(q) \cup {e, Overflow}
        /\ e \in Range(Queued(q, e)) \/ Overflow \in Range(Queued(q, e))
        /\ Len(q) < QueueMax => e \in Range(Queued(q, e))
    BY <2>1, QueuedRange
  <2> QED
    BY <1>1, <2>2, <2>3 DEF e
<1>2. CASE ~(d \in DOMAIN dirs /\ dirs[d] \in DOMAIN live)
  BY <1>2 DEF Posted
<1> QED
  BY <1>1, <1>2

(* The path of an event *)
LEMMA PathOfIs ==
    ASSUME NEW e, e.at \in DirPath, e.name \in Seg
    PROVE  /\ PathOf(e) \in APath /\ Len(PathOf(e)) > 1 /\ Parent(PathOf(e)) = e.at /\ Last(PathOf(e)) = e.name
           /\ Upward(PathOf(e)) = Upward(e.at) \cup {PathOf(e)}
<1> DEFINE p == PathOf(e)
<1>1. e.at \in Seq(Seg) /\ Len(e.at) \in Nat \ {0}
  BY Paths DEF Seg
<1>2. /\ p \in Seq(Seg) /\ Len(p) = Len(e.at) + 1 /\ p[Len(e.at) + 1] = e.name
      /\ \A i \in 1 .. Len(e.at) : p[i] = e.at[i]
  BY <1>1, AppendProperties DEF PathOf
<1> HIDE DEF p
<1>3. p # <<>> /\ Len(p) > 1
  BY <1>1, <1>2, EmptySeq
<1>4. p \in APath
  BY <1>2, <1>3 DEF APath
<1>5. /\ Parent(p) \in APath /\ Len(Parent(p)) = Len(e.at) /\ (\A i \in 1 .. Len(e.at) : Parent(p)[i] = p[i])
      /\ Upward(p) = Upward(Parent(p)) \cup {p}
  BY <1>1, <1>2, <1>3, <1>4, UpParent
<1>6. Parent(p) = e.at
  <2> DEFINE v == Parent(p)
  <2>1. v \in Seq(Seg) /\ Len(v) = Len(e.at) /\ \A i \in 1 .. Len(v) : v[i] = e.at[i]
    BY <1>2, <1>5 DEF APath
  <2> HIDE DEF v
  <2>2. v = e.at
    BY <1>1, <2>1, SeqEqual
  <2> QED
    BY <2>2 DEF v
<1>7. Last(p) = e.name
  BY <1>1, <1>2 DEF Last
<1> QED
  BY <1>3, <1>4, <1>5, <1>6, <1>7 DEF p

----------------------------------------------------------------------------
(* Bookkeeping *)

(* The queue is a sequence of items. *)
LEMMA QueueSeq == ASSUME IInv PROVE queue \in Seq(Item)
BY DEF IInv, QueueOk

(* A new event has the path of its descriptor. *)
LEMMA PostedEvents ==
    ASSUME IInv, NEW q \in Seq(Item), EventsOk(q, live), NEW d, NEW name \in Seg, NEW kind \in {"appeared", "gone"}
    PROVE  EventsOk(Posted(q, d, name, kind), live) /\ Posted(q, d, name, kind) \in Seq(Item)
<1> DEFINE r == Posted(q, d, name, kind)
<1>1. /\ r \in Seq(Item)
      /\ Range(r) \subseteq Range(q) \cup {Overflow} \cup
             (IF d \in DOMAIN dirs /\ dirs[d] \in DOMAIN live THEN {NewEvent(d, name, kind)} ELSE {})
  BY PostedRange
<1> HIDE DEF r
<1>2. ASSUME d \in DOMAIN dirs, dirs[d] \in DOMAIN live, NEW e, e = NewEvent(d, name, kind)
      PROVE  /\ e.at \in DirPath /\ e.name \in Seg /\ e.kind \in {"appeared", "gone"}
             /\ e.wd # Dead => e.wd \in DOMAIN live /\ e.at = live[e.wd]
  BY <1>2 DEF NewEvent, IInv, WatchesOk
<1>3. EventsOk(r, live)
  BY <1>1, <1>2 DEF EventsOk, Seg
<1> QED
  BY <1>1, <1>3 DEF r

(* An event whose watch is gone makes no claim on it. *)
LEMMA VoidEvents ==
    ASSUME NEW q, EventsOk(q, live), NEW lost
    PROVE  EventsOk(Void(q, lost), Unwatched(lost))
<1> SUFFICES ASSUME NEW e \in Range(Void(q, lost))
             PROVE  \/ e = Overflow
                    \/ /\ e.at \in DirPath /\ e.name \in Name \cup FileName
                       /\ e.kind \in {"appeared", "gone"}
                       /\ e.wd # Dead => e.wd \in DOMAIN Unwatched(lost) /\ e.at = Unwatched(lost)[e.wd]
  BY DEF EventsOk
<1>1. PICK c \in Range(q) : e = IF c.wd \in lost THEN [c EXCEPT !.wd = Dead] ELSE c
  BY VoidRange
<1>2. \/ c = Overflow
      \/ /\ c.at \in DirPath /\ c.name \in Name \cup FileName
         /\ c.kind \in {"appeared", "gone"}
         /\ c.wd # Dead => c.wd \in DOMAIN live /\ c.at = live[c.wd]
  BY DEF EventsOk
<1>3. CASE c = Overflow
  BY <1>1, <1>3 DEF Overflow
<1>4. CASE c # Overflow /\ c.wd \notin lost
  BY <1>1, <1>2, <1>4 DEF Unwatched
<1>5. CASE c # Overflow /\ c.wd \in lost
  <2>1. e = [c EXCEPT !.wd = Dead]
    BY <1>1, <1>5
  <2>2. e.at = c.at /\ e.name = c.name /\ e.kind = c.kind /\ (e.wd = Dead \/ e.wd = c.wd)
    BY <2>1
  <2> QED
    BY <1>2, <1>5, <2>1, <2>2 DEF Unwatched
<1> QED
  BY <1>3, <1>4, <1>5

(* The watches that stay keep their entries. *)
LEMMA KeptLive ==
    ASSUME IInv, LiveOk(live, watches), NEW doomed, NEW lost,
           \A p \in doomed \cap DOMAIN watches : watches[p] \in lost \cup {Dead}
    PROVE  LiveOk(Unwatched(lost), Kept(doomed, lost))
<1> SUFFICES ASSUME NEW i \in DOMAIN live, i \notin lost
             PROVE  LET p == Unwatched(lost)[i] IN p \in DOMAIN Kept(doomed, lost) /\ Kept(doomed, lost)[p] = i
  BY DEF LiveOk, Unwatched
<1>1. live[i] \in DOMAIN watches /\ watches[live[i]] = i /\ i # Dead
  BY DirsAre DEF LiveOk
<1>2. Unwatched(lost)[i] = live[i] /\ live[i] \notin doomed
  BY <1>1 DEF Unwatched
<1> QED
  BY <1>1, <1>2 DEF Kept

(* What a removal leaves is not ignored either. *)
LEMMA KeptSeen ==
    ASSUME SeenOk, NEW doomed, NEW lost, watches' = Kept(doomed, lost), listing' = listing
    PROVE  SeenOk'
BY DEF SeenOk, Kept, IsIgnored

(* An event that is dropped or voided leaves the others as they are. *)
LEMMA TailEvents ==
    ASSUME IInv, EventsOk(queue, live), queue # <<>>
    PROVE  EventsOk(Tail(queue), live) /\ Tail(queue) \in Seq(Item)
<1>1. Range(Tail(queue)) \subseteq Range(queue) /\ Tail(queue) \in Seq(Item)
  BY QueueSeq, TailRange
<1> QED
  BY <1>1 DEF EventsOk

(* A change that only posts an event keeps the books. *)
LEMMA ChangeBook ==
    ASSUME IInv, Book, NEW p \in DirPath \cup FilePath, NEW kind \in {"appeared", "gone"},
           queue' = Posted(queue, Parent(p), Last(p), kind), UNCHANGED <<live, watches, listing>>
    PROVE  Book'
<1>1. Last(p) \in Seg
  BY APaths DEF Seg
<1>2. EventsOk(queue', live')
  BY <1>1, QueueSeq, PostedEvents DEF Book
<1> QED
  BY <1>2 DEF Book, SeenOk, LiveOk, EventsOk, IsIgnored

(* A removal takes the descriptor out of the watches and of the events. *)
LEMMA RmDirBook == ASSUME IInv, Book, NEW p \in DirPath, RmDir(p) PROVE Book'
<1> DEFINE lost == {dirs[p]}
           q == Posted(queue, Parent(p), Last(p), "gone")
<1>1. /\ p \in DOMAIN dirs /\ live' = Unwatched(lost) /\ watches' = Kept({}, lost)
      /\ queue' = Void(q, lost) /\ listing' = listing
  BY DEF RmDir, walk
<1>2. EventsOk(q, live)
  <2>1. Last(p) \in Seg
    BY APaths DEF Seg
  <2> QED
    BY <2>1, QueueSeq, PostedEvents DEF Book
<1> HIDE DEF q
<1>3. EventsOk(Void(q, lost), Unwatched(lost))
  BY <1>2, VoidEvents
<1>4. LiveOk(Unwatched(lost), Kept({}, lost))
  BY KeptLive DEF Book
<1>5. SeenOk'
  BY <1>1, KeptSeen DEF Book
<1> QED
  BY <1>1, <1>3, <1>4, <1>5 DEF Book, EventsOk, LiveOk

(* A rename posts two events, under paths the watches have. *)
LEMMA RenameBook == ASSUME IInv, Book, NEW p \in DirPath, NEW q \in DirPath, Rename(p, q) PROVE Book'
<1> DEFINE r == Posted(queue, Parent(p), Last(p), "gone")
<1>1. /\ queue' = Posted(r, Parent(q), Last(q), "appeared")
      /\ live' = live /\ watches' = watches /\ listing' = listing
  BY DEF Rename, walk
<1>2. Last(p) \in Seg /\ Last(q) \in Seg
  BY APaths DEF Seg
<1>3. EventsOk(r, live) /\ r \in Seq(Item)
  BY <1>2, QueueSeq, PostedEvents DEF Book
<1> HIDE DEF r
<1>4. EventsOk(queue', live)
  BY <1>1, <1>2, <1>3, PostedEvents
<1> QED
  BY <1>1, <1>4 DEF Book, SeenOk, LiveOk, EventsOk, IsIgnored

(* A walk lists directories that are not ignored. *)
LEMMA ListDirBook == ASSUME IInv, Book, NEW d \in visit, ListDir(d) PROVE Book'
<1>1. /\ listing' = IF d \in DOMAIN dirs /\ ~IsIgnored(d)
                    THEN [dir |-> d, files |-> FilesIn(d)] ELSE NoListing
      /\ UNCHANGED <<live, queue, watches>>
  BY DEF ListDir
<1> QED
  BY <1>1 DEF Book, SeenOk, LiveOk, EventsOk, IsIgnored, NoListing

(* A new watch relabels the events of its descriptor. *)
LEMMA AttachBook == ASSUME IInv, Book, Attach PROVE Book'
<1> DEFINE d == listing.dir
           i == dirs[d]
<1>1. AddWatch(d) /\ listing' = NoListing /\ listing # NoListing
  BY DEF Attach
<1>2. CASE UNCHANGED <<live, watches, queue>>
  BY <1>1, <1>2 DEF Book, SeenOk, LiveOk, EventsOk, IsIgnored, NoListing
<1>3. CASE ~UNCHANGED <<live, watches, queue>>
  <2>1. /\ d \notin DOMAIN watches /\ d \in DOMAIN dirs
        /\ live' = With(live, i, d) /\ watches' = With(watches, d, i)
        /\ queue' = [n \in DOMAIN queue |-> IF queue[n].wd = i
                                            THEN [queue[n] EXCEPT !.at = d] ELSE queue[n]]
    BY <1>1, <1>3 DEF AddWatch
  <2>2. d \in DirPath /\ i \in Inode /\ Dead # i /\ ~IsIgnored(d)
    BY <1>1, <2>1, DirsAre DEF Book, SeenOk
  <2> HIDE DEF d, i
  <2>3. LiveOk(live', watches')
    BY <2>1, <2>2 DEF Book, LiveOk, With
  <2>4. SeenOk'
    BY <1>1, <2>1, <2>2 DEF Book, SeenOk, With, IsIgnored, NoListing
  <2>5. EventsOk(queue', live')
    <3>0. DOMAIN queue' = DOMAIN queue
      BY <2>1
    <3> SUFFICES ASSUME NEW n \in DOMAIN queue
                 PROVE  \/ queue'[n] = Overflow
                        \/ /\ queue'[n].at \in DirPath /\ queue'[n].name \in Name \cup FileName
                           /\ queue'[n].kind \in {"appeared", "gone"}
                           /\ queue'[n].wd # Dead => queue'[n].wd \in DOMAIN live' /\ queue'[n].at = live'[queue'[n].wd]
      BY <3>0 DEF EventsOk, Range
    <3> DEFINE e == queue[n]
               c == queue'[n]
    <3>1. \/ e = Overflow
          \/ /\ e.at \in DirPath /\ e.name \in Name \cup FileName
             /\ e.kind \in {"appeared", "gone"}
             /\ e.wd # Dead => e.wd \in DOMAIN live /\ e.at = live[e.wd]
      BY DEF Book, EventsOk, Range
    <3>2. c = IF e.wd = i THEN [e EXCEPT !.at = d] ELSE e
      BY <2>1
    <3>3. e \in Item
      BY QueueSeq, ElementOfSeq, LenProperties
    <3> HIDE DEF e, c
    <3>4. CASE e = Overflow
      BY <2>2, <3>2, <3>4 DEF Overflow, c
    <3>5. CASE e # Overflow /\ e.wd = i
      <4>1. c.at = d /\ c.wd = i /\ c.name = e.name /\ c.kind = e.kind
        BY <3>2, <3>3, <3>5 DEF Item
      <4>2. c.wd \in DOMAIN live' /\ live'[c.wd] = d
        BY <2>1, <4>1 DEF With
      <4> QED
        BY <2>2, <3>1, <3>5, <4>1, <4>2 DEF c
    <3>6. CASE e # Overflow /\ e.wd # i
      <4>1. c = e
        BY <3>2, <3>6
      <4>2. e.wd \in DOMAIN live => e.wd \in DOMAIN live' /\ live'[e.wd] = live[e.wd]
        BY <2>1, <3>6 DEF With
      <4> QED
        BY <3>1, <3>6, <4>1, <4>2 DEF c
    <3> QED
      BY <3>4, <3>5, <3>6
  <2> QED
    BY <2>3, <2>4, <2>5 DEF Book
<1> QED
  BY <1>2, <1>3

(* Reading drops an event, or a subtree with its descriptors. *)
LEMMA ReadBook ==
    ASSUME IInv, Book, ReadOverflow \/ ReadIgnored \/ ReadFile \/ ReadNewDir \/ ReadGoneDir
    PROVE  Book'
<1>1. queue # <<>> /\ EventsOk(Tail(queue), live)
  BY TailEvents DEF Book, ReadOverflow, ReadIgnored, ReadFile, ReadNewDir, ReadGoneDir, Reading
<1>2. CASE ReadOverflow \/ ReadIgnored \/ ReadFile \/ ReadNewDir
  <2>1. queue' = Tail(queue) /\ UNCHANGED <<live, watches, listing>>
    BY <1>2 DEF ReadOverflow, ReadIgnored, ReadFile, ReadNewDir, walk
  <2> QED
    BY <1>1, <2>1 DEF Book, SeenOk, LiveOk, EventsOk, IsIgnored
<1>3. CASE ReadGoneDir
  <2> DEFINE R == {EventPath}
  <2>1. watches' = Kept(Doomed(R), Revoked(R)) /\ live' = Unwatched(Revoked(R))
        /\ queue' = Void(Tail(queue), Revoked(R)) /\ listing' = listing
    BY <1>3 DEF ReadGoneDir, walk
  <2> HIDE DEF R
  <2>2. LiveOk(live', watches')
    <3>1. \A p \in Doomed(R) \cap DOMAIN watches : watches[p] \in Revoked(R) \cup {Dead}
      BY DEF Revoked
    <3> QED
      BY <2>1, <3>1, KeptLive DEF Book
  <2>3. EventsOk(queue', live')
    BY <1>1, <2>1, VoidEvents
  <2>4. SeenOk'
    BY <2>1, KeptSeen DEF Book
  <2> QED
    BY <2>2, <2>3, <2>4 DEF Book
<1> QED
  BY <1>2, <1>3

(* set_roots drops the subtrees of the roots it removes. *)
LEMMA SetRootsBook == ASSUME IInv, Book, NEW new \in RootSets, SetRoots(new) PROVE Book'
<1> DEFINE R == roots \ new
<1>1. watches' = Kept(Doomed(R), Revoked(R)) /\ live' = Unwatched(Revoked(R))
      /\ queue' = Void(queue, Revoked(R)) /\ listing' = listing
  BY DEF SetRoots
<1> HIDE DEF R
<1>2. LiveOk(live', watches')
  <2>1. \A p \in Doomed(R) \cap DOMAIN watches : watches[p] \in Revoked(R) \cup {Dead}
    BY DEF Revoked
  <2> QED
    BY <1>1, <2>1, KeptLive DEF Book
<1>3. EventsOk(queue', live')
  BY <1>1, VoidEvents DEF Book
<1>4. SeenOk'
  BY <1>1, KeptSeen DEF Book
<1> QED
  BY <1>2, <1>3, <1>4 DEF Book

(* Every step of the specification keeps the books. *)
LEMMA NextBook == ASSUME IInv, Book, [Next]_vars PROVE Book'
<1>1. CASE FileSystem
  <2>1. CASE \E p \in DirPath : MkDir(p)
    BY <2>1, ChangeBook DEF MkDir, walk
  <2>2. CASE \E p \in FilePath : Create(p)
    BY <2>2, ChangeBook DEF Create, walk
  <2>3. CASE \E p \in FilePath : Delete(p)
    BY <2>3, ChangeBook DEF Delete, walk
  <2> QED
    BY <1>1, <2>1, <2>2, <2>3, RmDirBook, RenameBook DEF FileSystem
<1>2. CASE Loop
  <2>1. CASE \E p \in pending : WalkNext(p)
    BY <2>1 DEF WalkNext, Book, SeenOk, LiveOk, EventsOk, IsIgnored
  <2> QED
    BY <1>2, <2>1, ListDirBook, AttachBook, ReadBook DEF Loop
<1>3. CASE Aclose
  <2>1. queue' = <<>> /\ watches' = <<>> /\ live' = <<>> /\ listing' = listing
    BY <1>3 DEF Aclose, walk
  <2>2. DOMAIN <<>> = {}
    BY EmptyFunction
  <2> QED
    BY <2>1, <2>2 DEF Book, SeenOk, LiveOk, EventsOk, IsIgnored, Range
<1>4. CASE UNCHANGED vars
  BY <1>4 DEF vars, walk, Book, SeenOk, LiveOk, EventsOk, IsIgnored
<1> QED
  BY <1>1, <1>2, <1>3, <1>4, SetRootsBook DEF Next

(* There is nothing in them at first. *)
LEMMA InitBook == Init => Book
<1> SUFFICES ASSUME Init PROVE Book
  OBVIOUS
<1>1. queue = <<>> /\ watches = <<>> /\ live = <<>> /\ listing = NoListing /\ DOMAIN <<>> = {}
  BY EmptyFunction DEF Init
<1> QED
  BY <1>1 DEF Book, SeenOk, LiveOk, EventsOk, IsIgnored, Range

(* A queue that has the events of another, as far as they are read *)
Keeps(r, q) == /\ \A e \in Range(q) : \E c \in Range(r) : c.at = e.at /\ c.name = e.name /\ c.kind = e.kind
               /\ Overflow \in Range(q) => Overflow \in Range(r)

(* What waits in a queue waits in one that keeps its events. *)
LEMMA Keeping ==
    ASSUME Keeps(queue', queue)
    PROVE  \A g : (Gone(g) => Gone(g)') /\ (Told(g) => Told(g)')
BY DEF Keeps, Gone, Told, PathOf

(* Posting keeps what is queued, *)
LEMMA PostedKeeps ==
    ASSUME IInv, NEW q \in Seq(Item), NEW d, NEW name \in Seg, NEW kind \in {"appeared", "gone"}
    PROVE  Keeps(Posted(q, d, name, kind), q)
<1> DEFINE r == Posted(q, d, name, kind)
<1>1. Range(q) \subseteq Range(r)
  BY PostedRange
<1> HIDE DEF r
<1>2. Keeps(r, q)
  BY <1>1 DEF Keeps
<1> QED
  BY <1>2 DEF r

(* so does voiding, *)
LEMMA VoidKeeps ==
    ASSUME NEW q, q \in Seq(Item), NEW lost
    PROVE  Keeps(Void(q, lost), q)
<1>1. ASSUME NEW e \in Range(q)
      PROVE  \E c \in Range(Void(q, lost)) : /\ c.at = e.at /\ c.name = e.name /\ c.kind = e.kind
                                             /\ e = Overflow => c = Overflow
  <2> DEFINE c == IF e.wd \in lost THEN [e EXCEPT !.wd = Dead] ELSE e
  <2>1. c \in Range(Void(q, lost))
    BY VoidRange
  <2>2. e \in Item
    BY ElementOfSeq, LenProperties DEF Range
  <2>3. c.at = e.at /\ c.name = e.name /\ c.kind = e.kind
    BY <2>2 DEF Item
  <2>4. e = Overflow => c = Overflow
    BY DEF Overflow
  <2> QED
    BY <2>1, <2>3, <2>4
<1> QED
  BY <1>1 DEF Keeps

(* and so does one after the other. *)
LEMMA KeepsTrans ==
    ASSUME NEW q, NEW r, NEW t, Keeps(r, q), Keeps(t, r)
    PROVE  Keeps(t, q)
<1>1. ASSUME NEW e \in Range(q)
      PROVE  \E c \in Range(t) : c.at = e.at /\ c.name = e.name /\ c.kind = e.kind
  <2>1. PICK b \in Range(r) : b.at = e.at /\ b.name = e.name /\ b.kind = e.kind
    BY DEF Keeps
  <2>2. PICK c \in Range(t) : c.at = b.at /\ c.name = b.name /\ c.kind = b.kind
    BY <2>1 DEF Keeps
  <2> QED
    BY <2>1, <2>2
<1> QED
  BY <1>1 DEF Keeps

(* Nothing that excuses a stale entry goes away. *)
LEMMA StaleKept ==
    ASSUME NEW d, StaleOk(d), Held(d) => Held(d)',
           Keeps(queue', queue), (missed \cap DOMAIN watches) \subseteq (missed' \cap DOMAIN watches')
    PROVE  StaleOk(d)'
BY Keeping DEF StaleOk, Lost

(* The event of a removal, or of the removal under an old name *)
LEMMA Noticed ==
    ASSUME IInv, Book, NEW p \in DirPath, p \in DOMAIN dirs, Len(p) > 1, p \in Upward(p),
           Unnoticed(p) # Below(DOMAIN watches, p)
    PROVE  LET e == NewEvent(Parent(p), Last(p), "gone")
           IN  /\ e \in Range(Posted(queue, Parent(p), Last(p), "gone"))
               /\ e.at = Parent(p) /\ PathOf(e) = p /\ e.kind = "gone"
<1>1. /\ Parent(p) \in DOMAIN dirs /\ dirs[Parent(p)] \in DOMAIN live
      /\ live[dirs[Parent(p)]] = Parent(p) /\ ~(Len(queue) >= QueueMax)
  BY DEF Unnoticed
<1>2. Last(p) \in Seg /\ p \in APath /\ Len(queue) \in Nat /\ QueueMax \in Nat /\ queue \in Seq(Item)
  BY APaths, QueueSeq, LenProperties, BoundsAssumption DEF Seg
<1>3. Len(queue) < QueueMax
  BY <1>1, <1>2
<1>4. NewEvent(Parent(p), Last(p), "gone") \in Range(Posted(queue, Parent(p), Last(p), "gone"))
  BY <1>1, <1>2, <1>3, PostedRange
<1>5. p = Append(Parent(p), Last(p))
  BY <1>2, UpParent
<1> QED
  BY <1>1, <1>4, <1>5 DEF NewEvent, PathOf

(* What appears, or a file that goes, makes no entry stale. *)
LEMMA AddStale ==
    ASSUME IInv, Book, Stale, UNCHANGED <<live, watches, closing>>,
           \A d \in DOMAIN watches : Held(d) => d \in DOMAIN dirs' /\ dirs'[d] = dirs[d],
           NEW p \in DirPath \cup FilePath, NEW kind \in {"appeared", "gone"},
           queue' = Posted(queue, Parent(p), Last(p), kind),
           missed \cap DOMAIN watches \subseteq missed'
    PROVE  Stale'
<1>1. Last(p) \in Seg
  BY APaths DEF Seg
<1>2. Keeps(queue', queue)
  BY <1>1, QueueSeq, PostedKeeps
<1>3. \A d \in DOMAIN watches : Held(d) => Held(d)'
  BY DEF Held
<1> QED
  BY <1>2, <1>3, StaleKept DEF Stale

(* Nor does a step that leaves the directories and the watches alone. *)
LEMMA SameStale ==
    ASSUME Stale, UNCHANGED <<dirs, live, queue, watches, closing>>, missed \subseteq missed'
    PROVE  Stale'
<1>1. \A d : Held(d) => Held(d)'
  BY DEF Held
<1>2. Keeps(queue', queue)
  BY DEF Keeps
<1> QED
  BY <1>1, <1>2, StaleKept DEF Stale

(* A path of one name has nothing above it. *)
LEMMA TopParent == ASSUME NEW p \in APath, ~(Len(p) > 1) PROVE Parent(p) = <<>> /\ Len(p) = 1
<1>1. p \in Seq(Seg) /\ Len(p) = 1 /\ Len(p) - 1 \in 0 .. Len(p)
  <2>1. p \in Seq(Seg) /\ p # <<>> /\ Len(p) \in Nat
    BY LenProperties DEF APath
  <2>2. Len(p) # 0
    BY <2>1, EmptySeq
  <2>3. ASSUME NEW n \in Nat, n # 0, ~(n > 1) PROVE n = 1 /\ n - 1 \in 0 .. n
    BY <2>3
  <2> QED
    BY <2>1, <2>2, <2>3
<1> DEFINE u == SubSeq(p, 1, Len(p) - 1)
<1>2. u \in Seq(Seg) /\ Len(u) = Len(p) - 1
  BY <1>1, UpTo
<1>3. Parent(p) = u
  BY DEF Parent, Front
<1> HIDE DEF u
<1> QED
  BY <1>1, <1>2, <1>3, EmptySeq

(* A removed directory is missed, or its event waits. *)
LEMMA RmDirStale == ASSUME IInv, Book, Stale, NEW p \in DirPath, RmDir(p) PROVE Stale'
<1> DEFINE q == Posted(queue, Parent(p), Last(p), "gone")
           lost == {dirs[p]}
<1>1. /\ p \in DOMAIN dirs /\ live' = Unwatched(lost) /\ watches' = Kept({}, lost)
      /\ queue' = Void(q, lost) /\ closing' = closing
      /\ dirs' = [x \in DOMAIN dirs \ {p} |-> dirs[x]] /\ missed' = missed \cup Unnoticed(p)
  BY DEF RmDir
<1>2. Last(p) \in Seg /\ p \in APath /\ p \in Upward(p)
  BY APaths, Ups DEF Seg
<1>3. q \in Seq(Item) /\ Keeps(q, queue)
  BY <1>2, QueueSeq, PostedRange, PostedKeeps
<1>4. DOMAIN watches' = DOMAIN watches
  BY <1>1 DEF Kept
<1>5. CASE p \in Unnoticed(p) \/ p \notin DOMAIN watches
  <2> HIDE DEF q
  <2>1. Keeps(queue', queue)
    BY <1>1, <1>3, VoidKeeps, KeepsTrans
  <2>2. ASSUME NEW d \in DOMAIN watches, d # p, Held(d) PROVE Held(d)'
    <3>1. d \in DOMAIN dirs /\ dirs[d] # dirs[p] /\ dirs[d] \in DOMAIN live /\ live[dirs[d]] = d
      BY <1>1, <2>2, DirsAre DEF Held
    <3> QED
      BY <1>1, <2>2, <3>1 DEF Held, Unwatched
  <2>3. p \in DOMAIN watches => StaleOk(p)'
    BY <1>1, <1>2, <1>4, <1>5 DEF StaleOk, Lost
  <2> QED
    BY <1>1, <1>4, <2>1, <2>2, <2>3, StaleKept DEF Stale
<1>6. CASE p \notin Unnoticed(p) /\ p \in DOMAIN watches
  <2>1. p \in Below(DOMAIN watches, p)
    <3>1. DOMAIN watches \subseteq Seq(Seg)
      BY DirsAre DEF APath
    <3> QED
      BY <1>2, <1>6, <3>1, BelowIs
  <2>2. Unnoticed(p) # Below(DOMAIN watches, p)
    BY <1>6, <2>1
  <2>3. Len(p) > 1
    <3>1. CASE ~(Len(p) > 1)
      <4>1. Parent(p) = <<>>
        BY <1>2, <3>1, TopParent
      <4>2. Parent(p) \notin DOMAIN dirs
        BY <4>1, DirsAre
      <4> QED
        BY <2>2, <4>2 DEF Unnoticed
    <3> QED
      BY <3>1
  <2> DEFINE e == NewEvent(Parent(p), Last(p), "gone")
  <2>4. e \in Range(q) /\ e.at = Parent(p) /\ PathOf(e) = p /\ e.kind = "gone"
    BY <1>1, <1>2, <2>2, <2>3, Noticed
  <2> HIDE DEF q, e
  <2>5. Keeps(queue', q)
    BY <1>1, <1>3, VoidKeeps
  <2>6. Keeps(queue', queue)
    BY <1>3, <2>5, KeepsTrans
  <2>7. ASSUME NEW d \in DOMAIN watches, d # p, Held(d) PROVE Held(d)'
    <3>1. d \in DOMAIN dirs /\ dirs[d] # dirs[p] /\ dirs[d] \in DOMAIN live /\ live[dirs[d]] = d
      BY <1>1, <2>7, DirsAre DEF Held
    <3> QED
      BY <1>1, <2>7, <3>1 DEF Held, Unwatched
  <2>8. StaleOk(p)'
    <3>1. Gone(p)'
      BY <2>4, <2>5 DEF Keeps, Gone, PathOf
    <3> QED
      BY <1>2, <3>1 DEF StaleOk
  <2> QED
    BY <1>1, <1>4, <2>6, <2>7, <2>8, StaleKept DEF Stale
<1> QED
  BY <1>5, <1>6

(* What is not below the renamed directory stays where it is. *)
LEMMA RenameStays ==
    ASSUME IInv, NEW p \in DirPath, NEW q \in DirPath, Rename(p, q),
           NEW x \in DOMAIN dirs, p \notin Upward(x)
    PROVE  x \in DOMAIN dirs' /\ dirs'[x] = dirs[x]
<1>1. q \notin DOMAIN dirs /\ x \in Seq(Seg) /\ p \in APath /\ TreeOk
  BY APaths, DirsAre DEF Rename, APath, IInv
<1>2. ~IsPrefix(p, x) /\ ~IsPrefix(q, x)
  BY <1>1, UpwardIs, NoneBelow
<1> QED
  BY <1>2 DEF Rename, Below

(* A renamed directory is missed, or the event of its old path waits. *)
LEMMA RenameStale ==
    ASSUME IInv, Book, Stale, NEW p \in DirPath, NEW q \in DirPath, Rename(p, q)
    PROVE  Stale'
<1> DEFINE r == Posted(queue, Parent(p), Last(p), "gone")
<1>1. /\ queue' = Posted(r, Parent(q), Last(q), "appeared")
      /\ live' = live /\ watches' = watches /\ closing' = closing
      /\ missed' = missed \cup Unnoticed(p) \cup Slips(q)
      /\ p \in DOMAIN dirs /\ Len(p) > 1
  BY DEF Rename
<1>2. Last(p) \in Seg /\ Last(q) \in Seg /\ p \in APath /\ p \in Upward(p)
  BY APaths, Ups DEF Seg
<1>3. r \in Seq(Item) /\ Keeps(r, queue)
  BY <1>2, QueueSeq, PostedRange, PostedKeeps
<1>4. Unnoticed(p) = Below(DOMAIN watches, p) \/ Gone(p)'
  <2>1. SUFFICES ASSUME Unnoticed(p) # Below(DOMAIN watches, p) PROVE Gone(p)'
    OBVIOUS
  <2> DEFINE e == NewEvent(Parent(p), Last(p), "gone")
  <2>2. e \in Range(r) /\ e.at = Parent(p) /\ PathOf(e) = p /\ e.kind = "gone"
    BY <1>1, <1>2, <2>1, Noticed
  <2> HIDE DEF r, e
  <2>3. Keeps(queue', r)
    BY <1>1, <1>2, <1>3, PostedKeeps
  <2> QED
    BY <2>2, <2>3 DEF Keeps, Gone, PathOf
<1> HIDE DEF r
<1>5. Keeps(queue', queue)
  <2>1. Keeps(queue', r)
    BY <1>1, <1>2, <1>3, PostedKeeps
  <2> QED
    BY <1>3, <2>1, KeepsTrans
<1>6. ASSUME NEW d \in DOMAIN watches, p \in Upward(d) PROVE StaleOk(d)'
  <2>1. d \in Upward(d) /\ d \in Below(DOMAIN watches, p)
    <3>1. DOMAIN watches \subseteq Seq(Seg) /\ d \in APath
      BY DirsAre DEF APath
    <3> QED
      BY <1>2, <1>6, <3>1, BelowIs, Ups
  <2> QED
    BY <1>1, <1>4, <1>6, <2>1 DEF StaleOk, Lost
<1>7. ASSUME NEW d \in DOMAIN watches, p \notin Upward(d), Held(d) PROVE Held(d)'
  BY <1>1, <1>7, RenameStays DEF Held
<1> QED
  BY <1>1, <1>5, <1>6, <1>7, StaleKept DEF Stale

(* Listing changes no entry. *)
LEMMA ListDirStale == ASSUME Stale, NEW d \in visit, ListDir(d) PROVE Stale'
BY SameStale DEF ListDir, system

(* The removals that wait above an entry, shortest first *)
LEMMA FirstGone ==
    ASSUME NEW d \in APath, NEW g \in Upward(d), Gone(g)
    PROVE  \E h \in Upward(d) : Gone(h) /\ \A k \in Upward(h) : Gone(k) => k = h
<1> DEFINE T == {n \in Nat : \E h \in Upward(d) : Len(h) = n /\ Gone(h)}
<1>1. T \subseteq Nat /\ T # {}
  BY Ups
<1>2. PICK n \in T : \A m \in T : n <= m
  BY <1>1, Least
<1>3. PICK h \in Upward(d) : Len(h) = n /\ Gone(h)
  BY <1>2
<1>4. h \in APath /\ Upward(h) \subseteq Upward(d)
  BY Ups
<1>5. ASSUME NEW k \in Upward(h), Gone(k), k # h PROVE FALSE
  <2>1. k \in Upward(d) /\ Len(k) \in Nat /\ Len(h) \in Nat /\ Len(k) < Len(h)
    BY <1>4, <1>5, Ups
  <2>2. Len(k) \in T
    BY <1>5, <2>1
  <2> HIDE DEF T
  <2>3. n <= Len(k)
    BY <1>2, <2>2
  <2> QED
    BY <1>3, <2>1, <2>3
<1> QED
  BY <1>3, <1>5

(* A new watch that relabels events takes none from a stale entry: the     *)
(* shortest removal above that entry has a path of a live watch.           *)
LEMMA AttachStale == ASSUME IInv, Book, Stale, Attach PROVE Stale'
<1> SUFFICES ASSUME NEW x, x = listing.dir, NEW i, i = dirs[x] PROVE Stale'
  OBVIOUS
<1>1. AddWatch(x) /\ closing' = closing /\ dirs' = dirs /\ closing \in BOOLEAN
  BY DEF Attach, system, IInv, WatcherOk
<1>2. CASE UNCHANGED <<live, watches, queue>>
  <2>1. missed \cap DOMAIN watches \subseteq missed' \cap DOMAIN watches'
    BY <1>1, <1>2 DEF AddWatch
  <2>2. Keeps(queue', queue)
    BY <1>2 DEF Keeps
  <2>3. \A d : Held(d) => Held(d)'
    BY <1>1, <1>2 DEF Held
  <2> QED
    BY <1>1, <1>2, <2>1, <2>2, <2>3, StaleKept DEF Stale
<1>3. CASE ~UNCHANGED <<live, watches, queue>> /\ ~closing
  <2>1. /\ x \notin DOMAIN watches /\ x \in DOMAIN dirs
        /\ live' = With(live, i, x) /\ watches' = With(watches, x, i)
        /\ queue' = [n \in DOMAIN queue |-> IF queue[n].wd = i
                                            THEN [queue[n] EXCEPT !.at = x] ELSE queue[n]]
        /\ missed' = missed \ {x}
    BY <1>1, <1>3 DEF AddWatch
  <2>2. i \in Inode /\ Dead # i /\ x \in APath
    BY <2>1, DirsAre
  <2>3. Held(x)'
    BY <1>1, <2>1 DEF Held, With
  <2>4. ASSUME NEW d \in DOMAIN watches, Held(d) PROVE Held(d)'
    <3>1. dirs[d] # i /\ d # x
      BY <2>1, <2>4, DirsAre DEF Held
    <3> QED
      BY <1>1, <2>1, <2>4, <3>1 DEF Held, With
  <2>5. ASSUME NEW d \in DOMAIN watches, Lost(d) PROVE Lost(d)'
    BY <2>1, <2>5 DEF Lost, With
  <2>6. ASSUME NEW d \in DOMAIN watches, ~Held(d), ~Lost(d) PROVE StaleOk(d)'
    <3>1. PICK g0 \in Upward(d) : Gone(g0)
      BY <1>3, <2>6 DEF Stale, StaleOk
    <3>2. d \in APath
      BY DirsAre
    <3>3. PICK g \in Upward(d) : Gone(g) /\ \A k \in Upward(g) : Gone(k) => k = g
      BY <3>1, <3>2, FirstGone
    <3>4. PICK n \in DOMAIN queue : queue[n].kind = "gone" /\ PathOf(queue[n]) = g
      BY <3>3 DEF Gone, Range
    <3> DEFINE e == queue[n]
    <3>5. e.at \in DirPath /\ e.name \in Seg /\ (e.wd # Dead => e.wd \in DOMAIN live /\ e.at = live[e.wd])
      BY <3>4 DEF Book, EventsOk, Range, Overflow, Seg
    <3>6. e.wd # i
      <4> SUFFICES ASSUME e.wd = i PROVE FALSE
        OBVIOUS
      <4> DEFINE y == e.at
      <4>1. y \in DOMAIN watches /\ watches[y] = i /\ i \in DOMAIN live /\ y = live[i]
        BY <2>2, <3>5 DEF Book, LiveOk
      <4>2. y \in Upward(g) /\ y # g /\ Upward(y) \subseteq Upward(g) /\ y \in Upward(d) /\ g \notin Upward(y)
        <5>1. /\ g \in APath /\ Len(g) > 1 /\ Parent(g) = y /\ Upward(g) = Upward(y) \cup {g}
              /\ y \in APath /\ y \in Upward(y)
          BY <3>4, <3>5, PathOfIs, APaths, Ups
        <5> HIDE DEF y
        <5>2. y # g /\ g \notin Upward(y)
          BY <5>1, UpParent
        <5>3. Upward(g) \subseteq Upward(d)
          BY <3>2, <3>3, Ups
        <5> QED
          BY <5>1, <5>2, <5>3
      <4> HIDE DEF e, y
      <4>3. ~Held(y)
        BY <2>1, <4>1, DirsAre DEF Held, Book, LiveOk
      <4>4. CASE Lost(y)
        <5>1. Upward(y) \subseteq Upward(d)
          BY <3>2, <4>2, Ups
        <5> QED
          BY <2>6, <4>4, <5>1 DEF Lost
      <4>5. CASE \E k \in Upward(y) : Gone(k)
        BY <3>3, <4>2, <4>5
      <4> QED
        BY <1>3, <4>1, <4>3, <4>4, <4>5 DEF Stale, StaleOk
    <3>7. e = queue'[n] /\ n \in DOMAIN queue'
      BY <2>1, <3>6
    <3> HIDE DEF e
    <3>8. Gone(g)'
      BY <3>4, <3>7 DEF Gone, Range, PathOf, e
    <3> QED
      BY <3>3, <3>8 DEF StaleOk
  <2>7. DOMAIN watches' = DOMAIN watches \cup {x}
    BY <2>1 DEF With
  <2> QED
    BY <2>3, <2>4, <2>5, <2>6, <2>7 DEF Stale, StaleOk
<1>4. CASE closing
  BY <1>1, <1>4 DEF Stale
<1> QED
  BY <1>2, <1>3, <1>4

(* The event that is read is not a removal that an entry waits for. *)
LEMMA ReadStale ==
    ASSUME IInv, Book, Stale, ReadOverflow \/ ReadIgnored \/ ReadFile \/ ReadNewDir
    PROVE  Stale'
<1>1. /\ queue # <<>> /\ queue' = Tail(queue)
      /\ UNCHANGED <<dirs, live, watches, closing, missed>>
  BY DEF ReadOverflow, ReadIgnored, ReadFile, ReadNewDir, Reading, system
<1>2. Range(queue) = {Event} \cup Range(queue')
  BY <1>1, QueueSeq, TailRange DEF Event
<1>3. ASSUME NEW d \in DOMAIN watches, StaleOk(d) PROVE StaleOk(d)'
  <2>1. Held(d) => Held(d)'
    BY <1>1 DEF Held
  <2>2. Lost(d) => Lost(d)'
    BY <1>1 DEF Lost
  <2>3. ASSUME NEW g \in Upward(d), Gone(g) PROVE Gone(g)'
    <3>1. d \in APath /\ d \in DirPath /\ g \in DirPath /\ ~IsIgnored(d)
      BY DirsAre, APaths DEF Book, SeenOk
    <3>2. ~IsIgnored(g) /\ Last(g) \in Name
      BY <3>1, Ups, APaths
    <3>3. PICK e \in Range(queue) : e.kind = "gone" /\ PathOf(e) = g
      BY <2>3 DEF Gone
    <3>4. CASE e \in Range(queue')
      BY <3>3, <3>4 DEF Gone, PathOf
    <3>5. CASE e = Event
      <4>1. EventPath = g
        BY <3>3, <3>5 DEF EventPath, PathOf
      <4>2. e.at \in DirPath /\ e.name \in Seg
        BY <3>3 DEF Book, EventsOk, Overflow, Seg
      <4>3. Event.name \in Name
        BY <3>2, <3>3, <3>5, <4>2, PathOfIs
      <4>4. ~ReadIgnored /\ ~ReadFile
        BY <3>2, <4>1, <4>3, PathAssumption DEF ReadIgnored, ReadFile
      <4>5. Event.kind = "gone"
        BY <3>3, <3>5
      <4> QED
        BY <4>4, <4>5 DEF ReadOverflow, ReadNewDir, Overflow
    <3> QED
      BY <1>2, <3>4, <3>5
  <2> QED
    BY <1>3, <2>1, <2>2, <2>3 DEF StaleOk
<1> QED
  BY <1>1, <1>3 DEF Stale

(* What a dropped tree leaves *)
LEMMA DropStale ==
    ASSUME IInv, Book, Stale, NEW R, R \subseteq APath,
           watches' = Kept(Doomed(R), Revoked(R)), live' = Unwatched(Revoked(R)),
           UNCHANGED <<dirs, closing>>, missed \cup Shared(R) \subseteq missed',
           \A g \in APath \ R : Gone(g) => Gone(g)'
    PROVE  Stale'
<1>1. DOMAIN watches' = DOMAIN watches \ Doomed(R)
  BY DEF Kept
<1>2. ASSUME NEW d \in DOMAIN watches PROVE d \in APath /\ (d \in Doomed(R) <=> \E r \in R : r \in Upward(d))
  <2>1. d \in APath /\ d \in Seq(Seg)
    BY DirsAre DEF APath
  <2> QED
    BY <2>1, UpwardIs DEF Doomed, Covered
<1>3. ASSUME NEW d \in DOMAIN watches', StaleOk(d) PROVE StaleOk(d)'
  <2>1. d \in DOMAIN watches /\ d \in APath /\ d \in Upward(d) /\ d \notin Doomed(R) /\ \A r \in R : r \notin Upward(d)
    BY <1>1, <1>2, <1>3, Ups
  <2>2. CASE Held(d)
    <3>1. CASE dirs[d] \in Revoked(R)
      <4>1. watches[d] = dirs[d]
        BY <2>2 DEF Held, Book, LiveOk
      <4>2. d \in Shared(R)
        BY <2>1, <3>1, <4>1 DEF Shared
      <4> QED
        BY <1>3, <2>1, <4>2 DEF StaleOk, Lost
    <3>2. CASE dirs[d] \notin Revoked(R)
      BY <2>2, <3>2 DEF Held, Unwatched, StaleOk
    <3> QED
      BY <3>1, <3>2
  <2>3. CASE Lost(d)
    <3>1. PICK a \in Upward(d) : a \in missed /\ a \in DOMAIN watches
      BY <2>3 DEF Lost
    <3>2. a \notin Doomed(R)
      <4>1. Upward(a) \subseteq Upward(d)
        BY <2>1, <3>1, Ups
      <4> QED
        BY <1>2, <2>1, <3>1, <4>1
    <3> QED
      BY <1>1, <3>1, <3>2 DEF StaleOk, Lost
  <2>4. CASE \E g \in Upward(d) : Gone(g)
    <3>1. Upward(d) \subseteq APath \ R
      BY <2>1, Ups
    <3> QED
      BY <2>4, <3>1 DEF StaleOk
  <2> QED
    BY <1>3, <2>2, <2>3, <2>4 DEF StaleOk
<1> QED
  BY <1>1, <1>3 DEF Stale

(* A removal that is read drops all the entries below it. *)
LEMMA ReadGoneStale == ASSUME IInv, Book, Stale, ReadGoneDir PROVE Stale'
<1> DEFINE R == {EventPath}
<1>1. /\ watches' = Kept(Doomed(R), Revoked(R)) /\ live' = Unwatched(Revoked(R))
      /\ queue' = Void(Tail(queue), Revoked(R)) /\ UNCHANGED <<dirs, closing>>
      /\ missed \cup Shared(R) \subseteq missed' /\ queue # <<>> /\ Event.kind = "gone"
  BY DEF ReadGoneDir, Reading, system
<1>2. Range(queue) = {Event} \cup Range(Tail(queue)) /\ Tail(queue) \in Seq(Item)
  BY <1>1, QueueSeq, TailRange DEF Event
<1>3. EventPath = PathOf(Event) /\ EventPath \in APath
  <2>1. Event.at \in DirPath /\ Event.name \in Seg
    BY <1>1, <1>2 DEF Book, EventsOk, Overflow, Seg
  <2> QED
    BY <2>1, PathOfIs DEF EventPath, PathOf
<1>4. ASSUME NEW g \in APath \ R, Gone(g) PROVE Gone(g)'
  <2>1. PICK e \in Range(Tail(queue)) : e.kind = "gone" /\ PathOf(e) = g
    BY <1>2, <1>3, <1>4 DEF Gone
  <2>2. Keeps(queue', Tail(queue))
    BY <1>1, <1>2, VoidKeeps
  <2> QED
    BY <2>1, <2>2 DEF Keeps, Gone, PathOf
<1> QED
  BY <1>1, <1>3, <1>4, DropStale

(* A root that is removed takes all the entries below it. *)
LEMMA SetRootsStale == ASSUME IInv, Book, Stale, NEW new \in RootSets, SetRoots(new) PROVE Stale'
<1> DEFINE R == roots \ new
<1>1. /\ watches' = Kept(Doomed(R), Revoked(R)) /\ live' = Unwatched(Revoked(R))
      /\ queue' = Void(queue, Revoked(R)) /\ UNCHANGED <<dirs, closing>>
      /\ missed \cup Shared(R) \subseteq missed'
  BY DEF SetRoots, system
<1>2. R \subseteq APath
  BY DirsAre, APaths
<1>3. Keeps(queue', queue)
  BY <1>1, QueueSeq, VoidKeeps
<1>4. \A g : Gone(g) => Gone(g)'
  BY <1>3, Keeping
<1> QED
  BY <1>1, <1>2, <1>4, DropStale

(* Every step keeps stale entries excused. *)
LEMMA NextStale == ASSUME IInv, Book, Stale, [Next]_vars PROVE Stale'
<1>1. CASE FileSystem
  <2>1. ASSUME NEW p \in DirPath, MkDir(p) PROVE Stale'
    <3>1. \A d \in DOMAIN watches : Held(d) => d \in DOMAIN dirs' /\ dirs'[d] = dirs[d]
      BY <2>1 DEF MkDir, Appears, With, Held
    <3> QED
      BY <2>1, <3>1, AddStale DEF MkDir
  <2>2. ASSUME NEW p \in FilePath, Create(p) PROVE Stale'
    <3>1. missed \cap DOMAIN watches \subseteq missed'
      BY <2>2, DirsAre, APaths DEF Create
    <3> QED
      BY <2>2, <3>1, AddStale DEF Create, Held
  <2>3. ASSUME NEW p \in FilePath, Delete(p) PROVE Stale'
    BY <2>3, AddStale DEF Delete, Held
  <2> QED
    BY <1>1, <2>1, <2>2, <2>3, RmDirStale, RenameStale DEF FileSystem
<1>2. CASE Loop
  <2>1. CASE \E p \in pending : WalkNext(p)
    BY <2>1, SameStale DEF WalkNext, system
  <2> QED
    BY <1>2, <2>1, ListDirStale, AttachStale, ReadStale, ReadGoneStale DEF Loop
<1>3. CASE Aclose
  BY <1>3 DEF Aclose, Stale
<1>4. CASE UNCHANGED vars
  BY <1>4, SameStale DEF vars, system
<1> QED
  BY <1>1, <1>2, <1>3, <1>4, SetRootsStale DEF Next

(* Where directories, roots and files are *)
LEMMA Spots ==
    ASSUME IInv, TopRoots
    PROVE  /\ \A t \in DOMAIN dirs : t \in APath /\ t \in DirPath /\ Upward(t) \subseteq DOMAIN dirs
           /\ \A r \in roots : r \in APath /\ r \in DirPath /\ Len(r) = 1 /\ ~(Len(r) > 1) /\ Upward(r) = {r}
           /\ \A f \in files : /\ f \in APath /\ f \in FilePath /\ Len(f) > 1 /\ f \notin DirPath
                               /\ Parent(f) \in DOMAIN dirs /\ Upward(f) = Upward(Parent(f)) \cup {f}
           /\ owed \subseteq files
<1>1. \A r \in roots : Len(r) = 1
  BY DEF TopRoots, IInv, WatcherOk
<1>2. roots \subseteq DirPath
  BY DirsAre
<1>3. ASSUME NEW r \in roots PROVE r \in APath /\ r \in DirPath /\ Len(r) = 1 /\ ~(Len(r) > 1) /\ Upward(r) = {r}
  <2>1. r \in APath /\ r \in DirPath /\ Len(r) = 1 /\ r \in Upward(r)
    BY <1>1, <1>2, APaths, Ups
  <2>2. ~(1 > 1)
    OBVIOUS
  <2>3. ~(Len(r) > 1)
    BY <2>1, <2>2, Zenon
  <2> QED
    BY <1>1, <1>2, <2>1, <2>3, CoveredUp
<1>4. ASSUME NEW f \in files
      PROVE  /\ f \in APath /\ f \in FilePath /\ Len(f) > 1 /\ f \notin DirPath
             /\ Parent(f) \in DOMAIN dirs /\ Upward(f) = Upward(Parent(f)) \cup {f}
  BY DirsAre, APaths
<1> QED
  BY <1>3, <1>4, DirsAre

(* What is covered, and by what *)
LEMMA CoverUp ==
    ASSUME IInv, TopRoots, NEW t \in APath, NEW a \in Upward(t)
    PROVE  /\ Covered(a, roots) <=> Covered(t, roots)
           /\ Covered(t, roots) <=> \E r \in roots : r \in Upward(t)
<1>1. roots \subseteq DirPath /\ \A r \in roots : Len(r) = 1
  BY DirsAre DEF TopRoots, IInv, WatcherOk
<1> QED
  BY <1>1, CoveredUp

(* What is safe above a path makes it safe. *)
LEMMA SafeUp ==
    ASSUME NEW t \in APath, NEW a \in Upward(t)
    PROVE  /\ (Due(a) => Due(t)) /\ (Blind(a) => Blind(t)) /\ (Safe(a) => Safe(t))
           /\ (Due(a)' => Due(t)') /\ (Blind(a)' => Blind(t)') /\ (Safe(a)' => Safe(t)')
<1>1. Upward(a) \subseteq Upward(t)
  BY Ups
<1> QED
  BY <1>1 DEF Due, Blind, Safe

(* An entry that the kernel has no watch for is on its way out or missed. *)
LEMMA StaleSafe == ASSUME NEW d, StaleOk(d), ~Held(d) PROVE Safe(d)
BY DEF StaleOk, Lost, Gone, Told, Coming, Due, Blind, Safe

(* A step of the file system as the watcher sees it, *)
FsStep == /\ UNCHANGED <<visit, pending, listing, roots, closing>> /\ DOMAIN watches' = DOMAIN watches
          /\ Keeps(queue', queue)

(* ... and a path that it leaves as it is *)
Stays(t) == /\ listing.dir \in Upward(t) \cap DOMAIN dirs =>
                   /\ listing.dir \in DOMAIN dirs' /\ dirs'[listing.dir] = dirs[listing.dir]
                   /\ \A e \in Range(queue) : e.wd = dirs[listing.dir] =>
                         \E c \in Range(queue') : c.wd = e.wd /\ c.name = e.name
            /\ Held(t) => Held(t)'
            /\ missed \cap Upward(t) \subseteq missed'

(* keeps what is due, safe or known. *)
LEMMA Staying ==
    ASSUME FsStep, NEW t \in APath, Stays(t)
    PROVE  /\ (Due(t) => Due(t)') /\ (Safe(t) => Safe(t)') /\ (Known(t) => Known(t)')
           /\ (Listed(t) => Listed(t)')
<1>1. ASSUME NEW g \in Upward(t), Half(g) PROVE Half(g)'
  <2> SUFFICES ASSUME NEW x, x = listing.dir PROVE Half(g)'
    OBVIOUS
  <2>1. Len(g) > 1 /\ Parent(g) = x /\ x \in DOMAIN dirs \ DOMAIN watches
    BY <1>1 DEF Half
  <2>2. PICK e \in Range(queue) : e.wd = dirs[x] /\ e.name = Last(g)
    BY <1>1 DEF Half
  <2>3. x \in Upward(t)
    <3>1. g \in APath /\ Upward(g) \subseteq Upward(t)
      BY Ups
    <3> QED
      BY <2>1, <3>1, UpParent
  <2>4. /\ x \in DOMAIN dirs' /\ dirs'[x] = dirs[x]
        /\ \E c \in Range(queue') : c.wd = e.wd /\ c.name = e.name
    BY <2>1, <2>2, <2>3 DEF Stays
  <2>5. listing' = listing /\ DOMAIN watches' = DOMAIN watches
    BY DEF FsStep
  <2> QED
    BY <2>1, <2>2, <2>4, <2>5 DEF Half
<1>2. Keeps(queue', queue) /\ visit' = visit /\ pending' = pending /\ listing' = listing
  BY DEF FsStep
<1>3. \A g : Told(g) => Told(g)'
  BY <1>2, Keeping
<1>4. Due(t) => Due(t)'
  BY <1>1, <1>2, <1>3 DEF Due, Coming, Keeps
<1>5. Blind(t) => Blind(t)'
  BY DEF Blind, Stays
<1>6. Held(t) => Held(t)'
  BY DEF Stays
<1>7. Listed(t) => Listed(t)'
  BY <1>2, <1>4 DEF Listed, Stays
<1> QED
  BY <1>2, <1>4, <1>5, <1>6, <1>7 DEF Safe, Known

(* What appears in a directory that is known is known. *)
LEMMA Arrival ==
    ASSUME IInv, Book, Stale, ~closing, DirsKnown, FsStep,
           NEW p \in APath, NEW b, b = Parent(p), Len(p) > 1, b \in DOMAIN dirs,
           Covered(b, roots), ~IsIgnored(b), Stays(b), b \in DOMAIN dirs', dirs'[b] = dirs[b],
           NEW q \in Seq(Item), queue' = Posted(q, b, Last(p), "appeared"), Slips(p) \subseteq missed'
    PROVE  /\ Due(p)' \/ (\E a \in Upward(b) : a \in missed') \/ (b = listing.dir /\ p \in missed')
           /\ b = listing.dir /\ listing.dir \notin DOMAIN watches => Due(p)' \/ p \in missed'
<1>1. /\ b \in APath /\ b \in Upward(p) /\ Upward(p) = Upward(b) \cup {p} /\ Last(p) \in Seg
      /\ p = Append(b, Last(p)) /\ p \in Upward(p)
  BY UpParent, Ups
<1>2. listing' = listing /\ DOMAIN watches' = DOMAIN watches
  BY DEF FsStep
<1>3. Safe(b) => Due(p)' \/ \E a \in Upward(b) : a \in missed'
  <2>1. Safe(b) => Safe(b)'
    BY <1>1, Staying
  <2> QED
    BY <1>1, <2>1, SafeUp DEF Safe, Blind
<1>4. Known(b)
  BY DEF DirsKnown
<1>5. CASE dirs[b] \notin DOMAIN live
  <2>1. b = listing.dir => p \in missed'
    BY <1>5 DEF Slips
  <2>2. ~Held(b)
    BY <1>5 DEF Held
  <2> QED
    BY <1>3, <1>4, <2>1, <2>2 DEF Known
<1>6. CASE dirs[b] \in DOMAIN live
  <2> DEFINE e == NewEvent(b, Last(p), "appeared")
  <2>1. e \in Range(queue') \/ Overflow \in Range(queue')
    BY <1>1, <1>6, PostedRange
  <2>2. e.at = live[dirs[b]] /\ e.name = Last(p) /\ e.kind = "appeared" /\ e.wd = dirs[b]
    BY DEF NewEvent
  <2> HIDE DEF e
  <2>3. CASE Overflow \in Range(queue')
    BY <2>3 DEF Due
  <2>4. CASE e \in Range(queue') /\ Held(b)
    <3>1. PathOf(e) = p
      BY <1>1, <2>2, <2>4 DEF PathOf, Held
    <3>2. Told(p)'
      BY <2>2, <2>4, <3>1 DEF Told, PathOf
    <3> QED
      BY <1>1, <3>2 DEF Due, Coming
  <2>5. CASE e \in Range(queue') /\ ~Held(b) /\ b = listing.dir /\ b \notin DOMAIN watches
    <3>1. Half(p)'
      BY <1>2, <2>2, <2>5 DEF Half
    <3> QED
      BY <1>1, <3>1 DEF Due, Coming
  <2>6. CASE ~Held(b) /\ b \in DOMAIN watches
    <3>1. Safe(b)
      BY <2>6, StaleSafe DEF Stale
    <3> QED
      BY <1>3, <2>6, <3>1
  <2>7. CASE ~Held(b) /\ b # listing.dir
    BY <1>3, <1>4, <2>7 DEF Known
  <2> QED
    BY <2>1, <2>3, <2>4, <2>5, <2>6, <2>7
<1> QED
  BY <1>5, <1>6

(* The promise, path by path *)
LEMMA PromiseNext ==
    ASSUME \A d \in DOMAIN dirs' \cup roots' : Covered(d, roots') /\ ~IsIgnored(d) => Known(d)',
           \A f \in owed' : Covered(f, roots') /\ (~IsIgnored(f) => Safe(f)' \/ f \in listing'.files),
           \A c \in DOMAIN dirs' \cup owed' :
               /\ listing'.dir \notin DOMAIN watches' /\ Covered(c, roots') /\ ~IsIgnored(c)
               /\ listing' # NoListing /\ Len(c) > 1 /\ Parent(c) = listing'.dir
               => Listed(c)'
    PROVE  Promise'
<1>1. DirsKnown'
  BY DEF DirsKnown, IsIgnored
<1>2. FilesKnown'
  BY DEF FilesKnown, IsIgnored
<1>3. ListingKnown'
  BY DEF ListingKnown, IsIgnored, NoListing, Parent
<1> QED
  BY <1>1, <1>2, <1>3 DEF Promise

(* A change that takes nothing away leaves every path as it is. *)
LEMMA Growing ==
    ASSUME UNCHANGED <<live, watches, visit, pending, listing, roots, closing>>,
           Range(queue) \subseteq Range(queue'),
           \A x \in DOMAIN dirs : x \in DOMAIN dirs' /\ dirs'[x] = dirs[x]
    PROVE  FsStep /\ \A t : missed \cap Upward(t) \subseteq missed' => Stays(t)
<1>1. Keeps(queue', queue)
  BY DEF Keeps
<1>2. \A t : Held(t) => Held(t)'
  BY DEF Held
<1> QED
  BY <1>1, <1>2 DEF FsStep, Stays

(* A directory that is made is known: its parent is. *)
LEMMA MkDirPromise ==
    ASSUME IInv, TopRoots, Book, Stale, Promise, ~closing, NEW p \in DirPath, MkDir(p)
    PROVE  Promise'
<1>1. /\ p \notin DOMAIN dirs /\ (Len(p) > 1 => Parent(p) \in DOMAIN dirs)
      /\ queue' = Posted(queue, Parent(p), Last(p), "appeared")
      /\ missed' = missed \cup (IF Len(p) > 1 THEN Slips(p) ELSE {})
      /\ UNCHANGED <<live, watches, roots, closing, pending, visit, listing, owed>>
      /\ DOMAIN dirs' = DOMAIN dirs \cup {p} /\ \A x \in DOMAIN dirs : dirs'[x] = dirs[x]
  BY DEF MkDir, Appears, With, walk
<1>2. p \in APath /\ Last(p) \in Seg /\ p \in Upward(p)
  BY APaths, Ups DEF Seg
<1>3. queue \in Seq(Item) /\ Range(queue) \subseteq Range(queue')
  BY <1>1, <1>2, QueueSeq, PostedRange
<1>4. FsStep /\ \A t : Stays(t)
  BY <1>1, <1>3, Growing
<1>5. DirsKnown /\ FilesKnown /\ ListingKnown
  BY DEF Promise
<1>6. ASSUME Covered(p, roots), ~IsIgnored(p), p \notin roots
      PROVE  /\ Safe(p)' /\ Len(p) > 1
             /\ Parent(p) = listing.dir /\ listing.dir \notin DOMAIN watches => Listed(p)'
  <2>1. PICK r \in roots : r \in Upward(p)
    BY <1>2, <1>6, CoverUp
  <2>2. Len(r) = 1 /\ r # p
    BY <1>6, Spots
  <2>3. Len(p) > 1
    BY <1>2, <2>1, <2>2, Ups
  <2>4. /\ Parent(p) \in APath /\ Parent(p) \in Upward(p) /\ Upward(p) = Upward(Parent(p)) \cup {p}
        /\ Parent(p) # p
    BY <1>2, <2>3, UpParent
  <2>5. Covered(Parent(p), roots) /\ ~IsIgnored(Parent(p))
    BY <1>2, <1>6, <2>4, CoverUp, Ups
  <2>6. Parent(p) \in DOMAIN dirs /\ Parent(p) \in DOMAIN dirs' /\ dirs'[Parent(p)] = dirs[Parent(p)]
    BY <1>1, <2>3
  <2>7. /\ Due(p)' \/ (\E a \in Upward(Parent(p)) : a \in missed') \/ (Parent(p) = listing.dir /\ p \in missed')
        /\ Parent(p) = listing.dir /\ listing.dir \notin DOMAIN watches => Due(p)' \/ p \in missed'
    BY <1>1, <1>2, <1>3, <1>4, <1>5, <2>3, <2>5, <2>6, Arrival
  <2>8. Safe(p)'
    BY <1>2, <2>4, <2>7 DEF Safe, Blind
  <2>9. listing' = listing
    BY <1>1
  <2> QED
    BY <1>2, <2>3, <2>4, <2>7, <2>8, <2>9 DEF Listed
<1>7. ASSUME NEW d \in DOMAIN dirs' \cup roots', Covered(d, roots'), ~IsIgnored(d) PROVE Known(d)'
  <2>1. CASE d = p /\ p \notin roots
    BY <1>1, <1>6, <1>7, <2>1 DEF Known
  <2>2. CASE d \in DOMAIN dirs \cup roots
    <3>1. Known(d) /\ d \in APath
      BY <1>1, <1>5, <1>7, <2>2, Spots DEF DirsKnown
    <3> QED
      BY <1>4, <3>1, Staying
  <2> QED
    BY <1>1, <1>7, <2>1, <2>2
<1>8. ASSUME NEW f \in owed' PROVE Covered(f, roots') /\ (~IsIgnored(f) => Safe(f)' \/ f \in listing'.files)
  <2>1. f \in owed /\ f \in APath /\ Stays(f)
    BY <1>1, <1>4, <1>8, Spots
  <2> QED
    BY <1>1, <1>4, <1>5, <2>1, Staying DEF FilesKnown
<1>9. ASSUME NEW c \in DOMAIN dirs' \cup owed',
             listing'.dir \notin DOMAIN watches', Covered(c, roots'), ~IsIgnored(c),
             listing' # NoListing, Len(c) > 1, Parent(c) = listing'.dir
      PROVE  Listed(c)'
  <2>1. CASE c = p
    <3>1. p \notin roots
      BY <1>9, <2>1, Spots, Zenon
    <3> QED
      BY <1>1, <1>6, <1>9, <2>1, <3>1
  <2>2. CASE c \in DOMAIN dirs \cup owed
    <3>1. c \in APath
      BY <2>2, Spots
    <3>2. Listed(c)
      BY <1>1, <1>5, <1>9, <2>2 DEF ListingKnown
    <3> QED
      BY <1>4, <3>1, <3>2, Staying
  <2> QED
    BY <1>1, <1>9, <2>1, <2>2
<1> QED
  BY <1>7, <1>8, <1>9, PromiseNext

(* A file that appears is owed: its directory is known. *)
LEMMA CreatePromise ==
    ASSUME IInv, TopRoots, Book, Stale, Promise, ~closing, NEW p \in FilePath, Create(p)
    PROVE  Promise'
<1>1. /\ p \notin files /\ Parent(p) \in DOMAIN dirs
      /\ owed' = IF Covered(p, roots) THEN owed \cup {p} ELSE owed
      /\ queue' = Posted(queue, Parent(p), Last(p), "appeared")
      /\ missed' = (missed \ {p}) \cup Slips(p)
      /\ UNCHANGED <<dirs, live, watches, roots, closing, pending, visit, listing>>
  BY DEF Create, walk
<1>2. p \in APath /\ Last(p) \in Seg /\ p \in Upward(p) /\ Len(p) > 1 /\ p \notin DirPath
  BY APaths, Ups DEF Seg
<1>3. queue \in Seq(Item) /\ Range(queue) \subseteq Range(queue')
  BY <1>1, <1>2, QueueSeq, PostedRange
<1>4. FsStep /\ \A t : p \notin Upward(t) => Stays(t)
  BY <1>1, <1>3, Growing
<1>5. DirsKnown /\ FilesKnown /\ ListingKnown
  BY DEF Promise
<1>6. ASSUME NEW t \in DOMAIN dirs \cup roots \cup owed PROVE t \in APath /\ Stays(t)
  <2>1. t \in APath /\ p \notin Upward(t)
    <3>1. CASE t \in DirPath
      BY <1>2, <3>1, APaths
    <3>2. CASE t \in files
      <4>1. t \in APath /\ Parent(t) \in DirPath /\ Upward(t) = Upward(Parent(t)) \cup {t} /\ t # p
        BY <1>1, <3>2, Spots
      <4> QED
        BY <1>2, <4>1, APaths
    <3> QED
      BY <3>1, <3>2, Spots
  <2> QED
    BY <1>4, <2>1
<1>7. ASSUME Covered(p, roots), ~IsIgnored(p)
      PROVE  /\ Safe(p)'
             /\ Parent(p) = listing.dir /\ listing.dir \notin DOMAIN watches => Listed(p)'
  <2>4. /\ Parent(p) \in APath /\ Parent(p) \in Upward(p) /\ Upward(p) = Upward(Parent(p)) \cup {p}
        /\ Parent(p) # p
    BY <1>2, UpParent
  <2>5. Covered(Parent(p), roots) /\ ~IsIgnored(Parent(p))
    BY <1>2, <1>7, <2>4, CoverUp, Ups
  <2>6. Parent(p) \in DOMAIN dirs' /\ dirs'[Parent(p)] = dirs[Parent(p)] /\ Stays(Parent(p))
    BY <1>1, <1>6
  <2>7. /\ Due(p)' \/ (\E a \in Upward(Parent(p)) : a \in missed') \/ (Parent(p) = listing.dir /\ p \in missed')
        /\ Parent(p) = listing.dir /\ listing.dir \notin DOMAIN watches => Due(p)' \/ p \in missed'
    BY <1>1, <1>2, <1>3, <1>4, <1>5, <2>5, <2>6, Arrival
  <2>8. Safe(p)'
    BY <1>2, <2>4, <2>7 DEF Safe, Blind
  <2>9. listing' = listing
    BY <1>1
  <2> QED
    BY <1>2, <2>4, <2>7, <2>8, <2>9 DEF Listed
<1>8. ASSUME NEW d \in DOMAIN dirs' \cup roots', Covered(d, roots'), ~IsIgnored(d) PROVE Known(d)'
  <2>1. Known(d) /\ d \in APath /\ Stays(d)
    BY <1>1, <1>5, <1>6, <1>8 DEF DirsKnown
  <2> QED
    BY <1>4, <2>1, Staying
<1>9. ASSUME NEW f \in owed' PROVE Covered(f, roots') /\ (~IsIgnored(f) => Safe(f)' \/ f \in listing'.files)
  <2>1. CASE f = p /\ Covered(p, roots)
    BY <1>1, <1>7, <2>1
  <2>2. CASE f \in owed
    <3>1. f \in APath /\ Stays(f)
      BY <1>6, <2>2
    <3> QED
      BY <1>1, <1>4, <1>5, <2>2, <3>1, Staying DEF FilesKnown
  <2> QED
    BY <1>1, <1>9, <2>1, <2>2
<1>10. ASSUME NEW c \in DOMAIN dirs' \cup owed',
              listing'.dir \notin DOMAIN watches', Covered(c, roots'), ~IsIgnored(c),
              listing' # NoListing, Len(c) > 1, Parent(c) = listing'.dir
       PROVE  Listed(c)'
  <2>1. CASE c = p
    BY <1>1, <1>7, <1>10, <2>1
  <2>2. CASE c \in DOMAIN dirs \cup owed
    <3>1. Listed(c) /\ c \in APath /\ Stays(c)
      BY <1>1, <1>5, <1>6, <1>10, <2>2 DEF ListingKnown
    <3> QED
      BY <1>4, <3>1, Staying
  <2> QED
    BY <1>1, <1>10, <2>1, <2>2
<1> QED
  BY <1>8, <1>9, <1>10, PromiseNext

(* A file that goes is owed no more. *)
LEMMA DeletePromise ==
    ASSUME IInv, TopRoots, Book, Stale, Promise, ~closing, NEW p \in FilePath, Delete(p)
    PROVE  Promise'
<1>1. /\ owed' = owed \ {p} /\ queue' = Posted(queue, Parent(p), Last(p), "gone")
      /\ UNCHANGED <<dirs, live, watches, roots, closing, pending, visit, listing, missed>>
  BY DEF Delete, walk
<1>2. Last(p) \in Seg
  BY APaths DEF Seg
<1>3. Range(queue) \subseteq Range(queue')
  BY <1>1, <1>2, QueueSeq, PostedRange
<1>4. FsStep /\ \A t : Stays(t)
  BY <1>1, <1>3, Growing
<1>5. DirsKnown /\ FilesKnown /\ ListingKnown
  BY DEF Promise
<1>6. \A t \in DOMAIN dirs \cup roots \cup owed : t \in APath
  BY Spots
<1>7. ASSUME NEW d \in DOMAIN dirs' \cup roots', Covered(d, roots'), ~IsIgnored(d) PROVE Known(d)'
  <2>1. Known(d) /\ d \in APath
    BY <1>1, <1>5, <1>6, <1>7 DEF DirsKnown
  <2> QED
    BY <1>4, <2>1, Staying
<1>8. ASSUME NEW f \in owed' PROVE Covered(f, roots') /\ (~IsIgnored(f) => Safe(f)' \/ f \in listing'.files)
  <2>1. f \in owed /\ f \in APath
    BY <1>1, <1>6, <1>8
  <2> QED
    BY <1>1, <1>4, <1>5, <2>1, Staying DEF FilesKnown
<1>9. ASSUME NEW c \in DOMAIN dirs' \cup owed',
             listing'.dir \notin DOMAIN watches', Covered(c, roots'), ~IsIgnored(c),
             listing' # NoListing, Len(c) > 1, Parent(c) = listing'.dir
      PROVE  Listed(c)'
  <2>1. Listed(c) /\ c \in APath
    BY <1>1, <1>5, <1>6, <1>9 DEF ListingKnown
  <2> QED
    BY <1>4, <2>1, Staying
<1> QED
  BY <1>7, <1>8, <1>9, PromiseNext

(* A directory that goes takes nothing with it: it was empty. *)
LEMMA RmDirPromise ==
    ASSUME IInv, TopRoots, Book, Stale, Promise, ~closing, NEW p \in DirPath, RmDir(p)
    PROVE  Promise'
<1> DEFINE q == Posted(queue, Parent(p), Last(p), "gone")
<1>1. /\ p \in DOMAIN dirs /\ SubDirs(p) = {} /\ FilesIn(p) = {}
      /\ dirs' = [x \in DOMAIN dirs \ {p} |-> dirs[x]] /\ missed' = missed \cup Unnoticed(p)
      /\ queue' = Void(q, {dirs[p]}) /\ live' = Unwatched({dirs[p]}) /\ watches' = Kept({}, {dirs[p]})
      /\ UNCHANGED <<roots, closing, pending, visit, listing, owed>>
  BY DEF RmDir, walk
<1>2. p \in APath /\ Last(p) \in Seg /\ p \in Upward(p)
  BY APaths, Ups DEF Seg
<1>3. q \in Seq(Item) /\ Range(queue) \subseteq Range(q)
  BY <1>2, QueueSeq, PostedRange
<1> HIDE DEF q
<1>4. FsStep
  <2>1. Keeps(q, queue) /\ Keeps(queue', q)
    BY <1>1, <1>3, VoidKeeps DEF Keeps
  <2>2. DOMAIN watches' = DOMAIN watches
    BY <1>1 DEF Kept
  <2> QED
    BY <1>1, <2>1, <2>2, KeepsTrans DEF FsStep
<1>5. DirsKnown /\ FilesKnown /\ ListingKnown
  BY DEF Promise
<1>6. ASSUME NEW t \in APath, p \notin Upward(t) PROVE Stays(t)
  <2>1. ASSUME NEW x, x = listing.dir, x \in Upward(t) \cap DOMAIN dirs
        PROVE  /\ x \in DOMAIN dirs' /\ dirs'[x] = dirs[x]
               /\ \A e \in Range(queue) : e.wd = dirs[x] => \E c \in Range(queue') : c.wd = e.wd /\ c.name = e.name
    <3>1. x # p /\ dirs[x] # dirs[p]
      BY <1>1, <1>6, <2>1, DirsAre
    <3>2. ASSUME NEW e \in Range(queue), e.wd = dirs[x] PROVE e \in Range(queue')
      <4>1. e \in Range(q) /\ e.wd \notin {dirs[p]}
        BY <1>3, <3>1, <3>2
      <4> QED
        BY <1>1, <4>1, VoidRange
    <3> QED
      BY <1>1, <2>1, <3>1, <3>2
  <2>2. Held(t) => Held(t)'
    <3>1. t # p
      BY <1>2, <1>6
    <3>2. t \in DOMAIN dirs => dirs[t] # dirs[p]
      BY <1>1, <3>1, DirsAre
    <3> QED
      BY <1>1, <3>1, <3>2 DEF Held, Unwatched
  <2> QED
    BY <1>1, <2>1, <2>2 DEF Stays
<1>7. ASSUME NEW t \in DOMAIN dirs, p \in Upward(t) PROVE t = p
  <2> SUFFICES ASSUME t # p PROVE FALSE
    OBVIOUS
  <2>1. t \in APath /\ Upward(t) \subseteq DOMAIN dirs
    BY Spots
  <2>2. PICK c \in Upward(t) : Len(c) > 1 /\ Parent(c) = p /\ c \notin Upward(p)
    BY <1>7, <2>1, Toward
  <2>3. c \in SubDirs(p)
    BY <1>2, <2>1, <2>2 DEF SubDirs
  <2> QED
    BY <1>1, <2>3
<1>8. ASSUME NEW t \in DOMAIN dirs' \cup owed' PROVE t \in APath /\ p \notin Upward(t) /\ t \in DOMAIN dirs \cup owed
  <2>1. CASE t \in DOMAIN dirs'
    BY <1>1, <1>7, <2>1, Spots
  <2>2. CASE t \in owed
    <3>1. /\ t \in files /\ t \in APath /\ Parent(t) \in DOMAIN dirs /\ t \notin DirPath
          /\ Upward(t) = Upward(Parent(t)) \cup {t}
      BY <2>2, Spots
    <3>2. Parent(t) # p
      BY <1>1, <3>1 DEF FilesIn
    <3>3. p \notin Upward(Parent(t))
      BY <1>7, <3>1, <3>2
    <3> QED
      BY <2>2, <3>1, <3>3
  <2> QED
    BY <1>1, <1>8, <2>1, <2>2
<1>9. ASSUME NEW d \in DOMAIN dirs' \cup roots', Covered(d, roots'), ~IsIgnored(d) PROVE Known(d)'
  <2>1. Known(d)
    BY <1>1, <1>5, <1>9 DEF DirsKnown
  <2>2. d \in APath
    BY <1>1, <1>8, <1>9, Spots
  <2>3. CASE p \notin Upward(d)
    BY <1>4, <1>6, <2>1, <2>2, <2>3, Staying
  <2>4. CASE p \in Upward(d)
    <3>1. d \in roots
      BY <1>1, <1>8, <1>9, <2>4
    <3>2. d = p /\ Upward(p) = {p} /\ ~(Len(p) > 1)
      BY <2>4, <3>1, Spots
    <3>3. CASE Held(p)
      <4>1. p \in DOMAIN watches
        BY <3>3 DEF Held, Book, LiveOk
      <4>2. p \in Below(DOMAIN watches, p)
        <5>1. DOMAIN watches \subseteq Seq(Seg)
          BY DirsAre DEF APath
        <5> QED
          BY <1>2, <4>1, <5>1, BelowIs
      <4>3. Parent(p) \notin DOMAIN dirs
        BY <1>2, <3>2, TopParent, DirsAre
      <4>4. p \in missed'
        BY <1>1, <4>2, <4>3 DEF Unnoticed
      <4> QED
        BY <1>2, <3>2, <4>4 DEF Known, Safe, Blind
    <3>4. CASE Blind(p)
      BY <1>1, <3>2, <3>4 DEF Known, Safe, Blind
    <3>5. CASE Due(p)
      <4>1. ~Half(p)
        BY <3>2 DEF Half
      <4>2. \A g : Told(g) => Told(g)'
        BY <1>4, Keeping DEF FsStep
      <4> QED
        BY <1>1, <1>4, <3>2, <3>5, <4>1, <4>2 DEF Due, Coming, Known, Safe, FsStep, Keeps
    <3>6. CASE listing.dir = p
      BY <1>1, <3>2, <3>6 DEF Known
    <3> QED
      BY <2>1, <3>2, <3>3, <3>4, <3>5, <3>6 DEF Known, Safe
  <2> QED
    BY <2>3, <2>4
<1>10. ASSUME NEW f \in owed' PROVE Covered(f, roots') /\ (~IsIgnored(f) => Safe(f)' \/ f \in listing'.files)
  <2>1. f \in owed /\ f \in APath /\ Stays(f)
    BY <1>1, <1>6, <1>8, <1>10
  <2> QED
    BY <1>1, <1>4, <1>5, <2>1, Staying DEF FilesKnown
<1>11. ASSUME NEW c \in DOMAIN dirs' \cup owed',
              listing'.dir \notin DOMAIN watches', Covered(c, roots'), ~IsIgnored(c),
              listing' # NoListing, Len(c) > 1, Parent(c) = listing'.dir
       PROVE  Listed(c)'
  <2>1. c \in DOMAIN dirs \cup owed /\ c \in APath /\ Stays(c)
    BY <1>6, <1>8, <1>11
  <2>2. Listed(c)
    BY <1>1, <1>4, <1>5, <1>11, <2>1 DEF ListingKnown, FsStep
  <2> QED
    BY <1>4, <2>1, <2>2, Staying
<1> QED
  BY <1>9, <1>10, <1>11, PromiseNext

(* After a rename a path was there before or is at or below the new name. *)
LEMMA RenameWhere ==
    ASSUME IInv, TopRoots, NEW p \in DirPath, NEW q \in DirPath, Rename(p, q)
    PROVE  /\ \A t \in DOMAIN dirs' : t \in APath /\ ((t \in DOMAIN dirs /\ p \notin Upward(t)) \/ q \in Upward(t))
           /\ \A f \in owed' : /\ f \in APath
                               /\ \/ f \in owed /\ p \notin Upward(f)
                                  \/ q \in Upward(f) /\ Covered(q, roots)
<1>1. /\ DOMAIN dirs' = (DOMAIN dirs \ Below(DOMAIN dirs, p)) \cup {Moved(p, q, x) : x \in Below(DOMAIN dirs, p)}
      /\ \A x \in Below(DOMAIN dirs, p) : Moved(p, q, x) \in DirPath
  BY RenameTree
<1>2. owed' = (owed \ Below(owed, p)) \cup {Moved(p, q, f) : f \in {g \in Below(files, p) : Covered(q, roots)}}
  BY DEF Rename, Moved
<1>3. p \in APath /\ q \in APath /\ p \in Seq(Seg) /\ q \in Seq(Seg)
  BY APaths DEF APath
<1>4. DOMAIN dirs \subseteq Seq(Seg) /\ files \subseteq Seq(Seg) /\ owed \subseteq files
  BY Spots DEF APath
<1>5. ASSUME NEW t \in DOMAIN dirs' PROVE t \in APath /\ ((t \in DOMAIN dirs /\ p \notin Upward(t)) \/ q \in Upward(t))
  <2>1. CASE t \in DOMAIN dirs \ Below(DOMAIN dirs, p)
    BY <1>3, <1>4, <2>1, BelowIs, Spots
  <2>2. ASSUME NEW x \in Below(DOMAIN dirs, p), t = Moved(p, q, x) PROVE t \in APath /\ q \in Upward(t)
    <3>1. x \in Seq(Seg) /\ IsPrefix(p, x) /\ t \in APath /\ t \in Seq(Seg)
      BY <1>1, <1>4, <2>2, APaths DEF Below, APath
    <3>2. IsPrefix(q, t)
      BY <1>3, <2>2, <3>1, MovedIs
    <3> QED
      BY <1>3, <3>1, <3>2, UpwardIs
  <2> QED
    BY <1>1, <1>5, <2>1, <2>2
<1>6. ASSUME NEW f \in owed'
      PROVE  f \in APath /\ ((f \in owed /\ p \notin Upward(f)) \/ (q \in Upward(f) /\ Covered(q, roots)))
  <2>1. CASE f \in owed \ Below(owed, p)
    <3>1. owed \subseteq Seq(Seg) /\ f \in APath
      BY <1>4, <2>1, Spots
    <3> QED
      BY <1>3, <2>1, <3>1, BelowIs
  <2>2. ASSUME NEW x \in Below(files, p), Covered(q, roots), f = Moved(p, q, x)
        PROVE  f \in APath /\ q \in Upward(f)
    <3>1. x \in files /\ x \in Seq(Seg) /\ IsPrefix(p, x) /\ x \in FilePath /\ Parent(x) \in DOMAIN dirs
      BY <1>4, <2>2, Spots DEF Below
    <3>2. IsPrefix(p, Parent(x))
      BY <3>1, ParentBelow
    <3>3. Moved(p, q, Parent(x)) \in DirPath
      BY <1>1, <3>1, <3>2 DEF Below
    <3>4. f \in FilePath
      BY <2>2, <3>1, <3>3, MovedFile
    <3>5. f \in APath /\ f \in Seq(Seg)
      BY <3>4, APaths DEF APath
    <3>6. IsPrefix(q, f)
      BY <1>3, <2>2, <3>1, MovedIs
    <3> QED
      BY <1>3, <3>5, <3>6, UpwardIs
  <2> QED
    BY <1>2, <1>6, <2>1, <2>2
<1> QED
  BY <1>5, <1>6

(* What is moved out of the roots is not owed; what is moved within them   *)
(* is below the arrival of the directory that was moved.                   *)
LEMMA RenamePromise ==
    ASSUME IInv, TopRoots, Book, Stale, Promise, ~closing,
           NEW p \in DirPath, NEW q \in DirPath, Rename(p, q)
    PROVE  Promise'
<1> DEFINE r == Posted(queue, Parent(p), Last(p), "gone")
<1>1. /\ Len(p) > 1 /\ Len(q) > 1 /\ Parent(q) \in DOMAIN dirs /\ ~IsPrefix(p, q)
      /\ queue' = Posted(r, Parent(q), Last(q), "appeared")
      /\ missed' = missed \cup Unnoticed(p) \cup Slips(q)
      /\ UNCHANGED <<live, watches, roots, closing, pending, visit, listing>>
  BY DEF Rename, walk
<1>2. p \in APath /\ Last(p) \in Seg /\ p \in Upward(p) /\ q \in APath /\ Last(q) \in Seg /\ q \in Upward(q)
      /\ q \in Seq(Seg)
  BY APaths, Ups DEF Seg, APath
<1>3. r \in Seq(Item) /\ Range(queue) \subseteq Range(r)
  BY <1>2, QueueSeq, PostedRange
<1> HIDE DEF r
<1>4. Range(queue) \subseteq Range(queue')
  BY <1>1, <1>2, <1>3, PostedRange
<1>5. FsStep
  BY <1>1, <1>4 DEF FsStep, Keeps
<1>6. DirsKnown /\ FilesKnown /\ ListingKnown
  BY DEF Promise
<1>7. ASSUME NEW t \in APath, p \notin Upward(t) PROVE Stays(t)
  <2>1. ASSUME NEW x, x = listing.dir, x \in Upward(t) \cap DOMAIN dirs
        PROVE  x \in DOMAIN dirs' /\ dirs'[x] = dirs[x]
    <3>1. p \notin Upward(x)
      BY <1>7, <2>1, Ups
    <3> QED
      BY <2>1, <3>1, RenameStays
  <2>2. Held(t) => Held(t)'
    BY <1>1, <1>7, RenameStays DEF Held
  <2> QED
    BY <1>1, <1>4, <2>1, <2>2 DEF Stays
<1>8. /\ Parent(q) \in APath /\ Parent(q) \in Upward(q) /\ Upward(q) = Upward(Parent(q)) \cup {q}
      /\ Parent(q) # q /\ q \notin Upward(Parent(q)) /\ p \notin Upward(Parent(q))
  <2>1. p \notin Upward(q)
    BY <1>1, <1>2, UpwardIs
  <2> QED
    BY <1>1, <1>2, <2>1, UpParent
<1>9. ASSUME Covered(q, roots), ~IsIgnored(q)
      PROVE  /\ Due(q)' \/ (\E a \in Upward(Parent(q)) : a \in missed') \/ (Parent(q) = listing.dir /\ q \in missed')
             /\ Parent(q) = listing.dir /\ listing.dir \notin DOMAIN watches => Due(q)' \/ q \in missed'
  <2>1. Covered(Parent(q), roots) /\ ~IsIgnored(Parent(q))
    BY <1>2, <1>8, <1>9, CoverUp, Ups
  <2>2. Stays(Parent(q)) /\ Parent(q) \in DOMAIN dirs' /\ dirs'[Parent(q)] = dirs[Parent(q)]
    BY <1>1, <1>7, <1>8, RenameStays
  <2> QED
    BY <1>1, <1>2, <1>3, <1>5, <1>6, <2>1, <2>2, Arrival
<1>10. ASSUME NEW t \in APath, q \in Upward(t), Covered(t, roots), ~IsIgnored(t)
       PROVE  Covered(q, roots) /\ ~IsIgnored(q) /\ Safe(t)'
  <2>1. Covered(q, roots) /\ ~IsIgnored(q)
    BY <1>10, CoverUp, Ups
  <2>2. Safe(q)'
    BY <1>2, <1>8, <1>9, <2>1 DEF Safe, Blind
  <2> QED
    BY <1>10, <2>1, <2>2, SafeUp
<1>11. ASSUME NEW d \in DOMAIN dirs' \cup roots', Covered(d, roots'), ~IsIgnored(d) PROVE Known(d)'
  <2>1. CASE d \in DOMAIN dirs \cup roots /\ p \notin Upward(d)
    <3>1. Known(d) /\ d \in APath
      BY <1>1, <1>6, <1>11, <2>1, Spots DEF DirsKnown
    <3> QED
      BY <1>5, <1>7, <2>1, <3>1, Staying
  <2>2. CASE d \in APath /\ q \in Upward(d)
    BY <1>1, <1>10, <1>11, <2>2 DEF Known
  <2>3. ASSUME d \in roots PROVE p \notin Upward(d)
    <3>1. Upward(d) = {d} /\ ~(Len(d) > 1)
      BY <2>3, Spots
    <3> QED
      BY <1>1, <3>1
  <2> QED
    BY <1>1, <1>11, <2>1, <2>2, <2>3, RenameWhere
<1>12. ASSUME NEW f \in owed' PROVE Covered(f, roots') /\ (~IsIgnored(f) => Safe(f)' \/ f \in listing'.files)
  <2>1. CASE f \in owed /\ p \notin Upward(f)
    <3>1. f \in APath
      BY <2>1, Spots
    <3> QED
      BY <1>1, <1>5, <1>6, <1>7, <2>1, <3>1, Staying DEF FilesKnown
  <2>2. CASE f \in APath /\ q \in Upward(f) /\ Covered(q, roots)
    <3>1. Covered(f, roots)
      BY <2>2, CoverUp
    <3> QED
      BY <1>1, <1>10, <2>2, <3>1
  <2> QED
    BY <1>12, <2>1, <2>2, RenameWhere
<1>13. ASSUME NEW c \in DOMAIN dirs' \cup owed',
              listing'.dir \notin DOMAIN watches', Covered(c, roots'), ~IsIgnored(c),
              listing' # NoListing, Len(c) > 1, Parent(c) = listing'.dir
       PROVE  Listed(c)'
  <2>1. CASE c \in DOMAIN dirs \cup owed /\ p \notin Upward(c)
    <3>1. c \in APath
      BY <2>1, Spots
    <3>2. Listed(c)
      BY <1>1, <1>6, <1>13, <2>1 DEF ListingKnown
    <3> QED
      BY <1>5, <1>7, <2>1, <3>1, <3>2, Staying
  <2>2. CASE c \in APath /\ q \in Upward(c)
    <3>1. Covered(q, roots) /\ ~IsIgnored(q)
      BY <1>1, <1>10, <1>13, <2>2
    <3>2. CASE Due(q)'
      BY <2>2, <3>2, SafeUp DEF Listed
    <3>3. CASE c = q /\ ~Due(q)'
      <4>1. q \in missed'
        BY <1>1, <1>9, <1>13, <3>1, <3>3
      <4> QED
        BY <1>2, <1>8, <1>13, <3>3, <4>1 DEF Listed
    <3>4. CASE c # q /\ ~Due(q)'
      <4> SUFFICES ASSUME NEW x, x = listing'.dir PROVE Listed(c)'
        OBVIOUS
      <4>1. q \in Upward(x) /\ x = Parent(c) /\ x \in APath
        BY <1>13, <2>2, <3>4, UpParent
      <4>2. x \notin Upward(Parent(q))
        <5>1. x \in Upward(Parent(q)) => Upward(x) \subseteq Upward(Parent(q))
          BY <1>8, Ups
        <5> QED
          BY <1>8, <4>1, <5>1
      <4>3. x # Parent(q)
        BY <1>8, <4>1
      <4>4. PICK a \in Upward(Parent(q)) : a \in missed'
        BY <1>1, <1>9, <3>1, <3>4, <4>3
      <4>5. a \in Upward(c) /\ a # x
        <5>1. Upward(q) \subseteq Upward(c)
          BY <2>2, Ups
        <5> QED
          BY <1>8, <4>2, <4>4, <5>1
      <4> QED
        BY <4>4, <4>5 DEF Listed
    <3> QED
      BY <3>2, <3>3, <3>4
  <2> QED
    BY <1>13, <2>1, <2>2, RenameWhere
<1> QED
  BY <1>11, <1>12, <1>13, PromiseNext

(* Between two walks no event waits for a watch. *)
LEMMA NoHalf == ASSUME IInv, listing = NoListing PROVE \A g : ~Half(g)
<1>1. listing.dir \notin DOMAIN dirs
  BY DirsAre DEF NoListing
<1> QED
  BY <1>1 DEF Half

(* The step of a walk towards what it has still to find *)
LEMMA ListDirPromise ==
    ASSUME IInv, TopRoots, Book, Stale, Promise, ~closing, NEW d \in visit, ListDir(d)
    PROVE  Promise'
<1>1. /\ listing = NoListing
      /\ visit' = (visit \ {d}) \cup {q \in SubDirs(d) : Last(q) \notin Ignored}
      /\ listing' = IF d \in DOMAIN dirs /\ ~IsIgnored(d)
                    THEN [dir |-> d, files |-> FilesIn(d)] ELSE NoListing
      /\ missed' = IF d \in roots \ DOMAIN dirs THEN missed \cup {d} ELSE missed
      /\ UNCHANGED <<dirs, live, queue, watches, roots, closing, pending, owed>>
  BY DEF ListDir, system
<1>2. DirsKnown /\ FilesKnown
  BY DEF Promise
<1>3. \A g : ~Half(g)
  BY <1>1, NoHalf
<1>4. \A g : Told(g) => Told(g)'
  BY <1>1 DEF Told
<1>5. \A t : (Held(t) => Held(t)') /\ (Blind(t) => Blind(t)')
  BY <1>1 DEF Held, Blind
<1>6. ASSUME NEW t \in DOMAIN dirs, d \in Upward(t), d # t, ~IsIgnored(t)
      PROVE  Due(t)'
  <2>1. t \in APath /\ Upward(t) \subseteq DOMAIN dirs
    BY Spots
  <2>2. PICK c \in Upward(t) : Len(c) > 1 /\ Parent(c) = d /\ c \notin Upward(d)
    BY <1>6, <2>1, Toward
  <2>3. c \in APath /\ ~IsIgnored(c) /\ d \in APath /\ d \in Upward(d) /\ Len(c) \in Nat
    BY <1>6, <2>1, <2>2, Ups
  <2>4. Last(c) \notin Ignored
    BY <2>2, <2>3 DEF IsIgnored, Last
  <2>5. c \in SubDirs(d)
    BY <2>1, <2>2, <2>3 DEF SubDirs
  <2>6. c \in visit'
    BY <1>1, <2>4, <2>5
  <2> QED
    BY <2>2, <2>6 DEF Due, Coming
<1>7. ASSUME NEW t, Due(t), d \notin Upward(t) PROVE Due(t)'
  BY <1>1, <1>3, <1>4, <1>7 DEF Due, Coming
<1>8. ASSUME NEW t \in DOMAIN dirs' \cup roots', Covered(t, roots'), ~IsIgnored(t) PROVE Known(t)'
  <2>1. Known(t) /\ t \in APath /\ t \in Upward(t)
    <3>1. t \in APath
      BY <1>1, <1>8, Spots
    <3> QED
      BY <1>1, <1>2, <1>8, <3>1, Ups DEF DirsKnown
  <2>2. CASE Held(t) \/ Blind(t)
    BY <1>5, <2>2 DEF Known, Safe
  <2>3. CASE Due(t) /\ d \notin Upward(t)
    BY <1>7, <2>3 DEF Known, Safe
  <2>4. CASE d \in Upward(t) /\ t \in DOMAIN dirs
    <3>1. CASE d = t
      BY <1>1, <1>8, <2>4, <3>1 DEF Known
    <3>2. CASE d # t
      BY <1>6, <1>8, <2>4, <3>2 DEF Known, Safe
    <3> QED
      BY <3>1, <3>2
  <2>5. CASE d \in Upward(t) /\ t \in roots /\ t \notin DOMAIN dirs
    <3>1. d = t
      BY <2>5, Spots
    <3>2. t \in missed'
      BY <1>1, <2>5, <3>1
    <3> QED
      BY <2>1, <3>2 DEF Known, Safe, Blind
  <2>6. listing.dir # t
    BY <1>1, <2>1 DEF NoListing, APath
  <2> QED
    BY <1>1, <1>8, <2>1, <2>2, <2>3, <2>4, <2>5, <2>6 DEF Known, Safe
<1>9. ASSUME NEW f \in owed' PROVE Covered(f, roots') /\ (~IsIgnored(f) => Safe(f)' \/ f \in listing'.files)
  <2>1. /\ f \in files /\ f \in APath /\ Parent(f) \in DOMAIN dirs /\ f \notin DirPath
        /\ Upward(f) = Upward(Parent(f)) \cup {f} /\ f \in owed /\ f \in FilePath
    BY <1>1, <1>9, Spots
  <2>2. f \notin listing.files
    BY <1>1 DEF NoListing
  <2>3. Covered(f, roots) /\ (~IsIgnored(f) => Safe(f))
    BY <1>2, <2>1, <2>2 DEF FilesKnown
  <2>4. SUFFICES ASSUME ~IsIgnored(f) PROVE Safe(f)' \/ f \in listing'.files
    BY <1>1, <2>3
  <2>5. CASE Blind(f)
    BY <1>5, <2>5 DEF Safe
  <2>6. CASE Due(f) /\ d \notin Upward(f)
    BY <1>7, <2>6 DEF Safe
  <2>7. CASE d \in Upward(f)
    <3>1. d \in Seq(Name) /\ Last(f) \in FileName /\ Len(f) \in Nat /\ Len(f) > 0 /\ f \in Upward(f)
      BY <2>1, APaths, Ups DEF IInv, WatcherOk
    <3>2. d # f
      <4>1. SUFFICES ASSUME d = f PROVE FALSE
        OBVIOUS
      <4>2. Last(f) \in Name
        <5>1. f \in Seq(Name) /\ Len(f) \in 1 .. Len(f)
          BY <3>1, <4>1
        <5> QED
          BY <5>1, ElementOfSeq DEF Last
      <4> QED
        BY <3>1, <4>2, PathAssumption
    <3>3. Parent(f) \in APath /\ Parent(f) \in Upward(f) /\ d \in Upward(Parent(f)) /\ d \in DOMAIN dirs
      <4>1. Parent(f) \in APath /\ Parent(f) \in Upward(Parent(f)) /\ Upward(Parent(f)) \subseteq DOMAIN dirs
        BY <2>1, Spots, Ups
      <4> QED
        BY <2>1, <2>7, <3>2, <4>1
    <3>4. ~IsIgnored(Parent(f)) /\ ~IsIgnored(d)
      BY <2>1, <2>4, <2>7, <3>3, Ups
    <3>5. CASE d = Parent(f)
      BY <1>1, <2>1, <3>3, <3>4, <3>5 DEF FilesIn
    <3>6. CASE d # Parent(f)
      <4>1. Due(Parent(f))'
        BY <1>6, <2>1, <3>3, <3>4, <3>6
      <4> QED
        BY <2>1, <3>3, <4>1, SafeUp DEF Safe
    <3> QED
      BY <3>5, <3>6
  <2> QED
    BY <2>3, <2>4, <2>5, <2>6, <2>7 DEF Safe
<1>10. ASSUME NEW c \in DOMAIN dirs' \cup owed',
              listing'.dir \notin DOMAIN watches', Covered(c, roots'), ~IsIgnored(c),
              listing' # NoListing, Len(c) > 1, Parent(c) = listing'.dir
       PROVE  Listed(c)'
  <2>1. listing' = [dir |-> d, files |-> FilesIn(d)] /\ d \in DOMAIN dirs /\ Parent(c) = d
    BY <1>1, <1>10
  <2>2. CASE c \in DOMAIN dirs
    <3>1. c \in APath
      BY <2>2, Spots
    <3>2. d \in Upward(c) /\ d # c
      BY <1>10, <2>1, <3>1, UpParent
    <3> QED
      BY <1>6, <1>10, <2>2, <3>2 DEF Listed
  <2>3. CASE c \in owed
    <3>1. c \in files
      BY <2>3, Spots
    <3>2. c \in FilesIn(d)
      BY <2>1, <3>1 DEF FilesIn
    <3> QED
      BY <2>1, <3>2 DEF Listed
  <2> QED
    BY <1>1, <1>10, <2>2, <2>3
<1> QED
  BY <1>8, <1>9, <1>10, PromiseNext

(* What a walk is still to be made for is what it will list. *)
LEMMA WalkNextPromise ==
    ASSUME IInv, TopRoots, Promise, ~closing, NEW p \in pending, WalkNext(p)
    PROVE  Promise'
<1>1. /\ visit = {} /\ listing = NoListing /\ pending' = pending \ {p} /\ visit' = {p}
      /\ UNCHANGED <<dirs, live, queue, watches, roots, closing, listing, owed, missed>>
  BY DEF WalkNext, LoopFree, system
<1>2. DirsKnown /\ FilesKnown
  BY DEF Promise
<1>3. \A g : ~Half(g)
  BY <1>1, NoHalf
<1>4. \A t : Due(t) => Due(t)'
  BY <1>1, <1>3 DEF Due, Coming, Told
<1>5. \A t : Known(t) => Known(t)'
  BY <1>1, <1>4 DEF Known, Safe, Held, Blind
<1>6. \A t : Safe(t) => Safe(t)'
  BY <1>1, <1>4 DEF Safe, Blind
<1>7. DirsKnown'
  BY <1>1, <1>2, <1>5 DEF DirsKnown, IsIgnored
<1>8. FilesKnown'
  BY <1>1, <1>2, <1>6 DEF FilesKnown, IsIgnored
<1>9. ListingKnown'
  BY <1>1 DEF ListingKnown, NoListing
<1> QED
  BY <1>7, <1>8, <1>9 DEF Promise

(* An event that takes a new path because a watch does: the path it had    *)
(* belonged to a stale entry.                                              *)
LEMMA Relabelled ==
    ASSUME IInv, Book, Stale', ~closing', NEW x \in DOMAIN dirs, dirs' = dirs,
           x \notin DOMAIN watches, live' = With(live, dirs[x], x), watches' = With(watches, x, dirs[x]),
           NEW e \in Range(queue), e.wd = dirs[x], NEW t \in APath, PathOf(e) \in Upward(t)
    PROVE  Safe(t)'
<1>1. dirs[x] # Dead
  BY DirsAre
<1>2. /\ e.at \in DirPath /\ e.name \in Seg /\ e.wd \in DOMAIN live /\ e.at = live[e.wd]
  BY <1>1 DEF Book, EventsOk, Overflow, Seg
<1> DEFINE y == e.at
<1>3. y \in DOMAIN watches /\ watches[y] = dirs[x] /\ y # x
  BY <1>2 DEF Book, LiveOk
<1>4. y \in APath /\ y \in Upward(t)
  <2>1. y \in APath /\ y \in Upward(y) /\ PathOf(e) \in APath /\ y \in Upward(PathOf(e))
    BY <1>2, PathOfIs, APaths, Ups
  <2>2. Upward(PathOf(e)) \subseteq Upward(t)
    BY Ups
  <2> QED
    BY <2>1, <2>2
<1> HIDE DEF y
<1>5. ~Held(y)'
  <2> SUFFICES ASSUME Held(y)' PROVE FALSE
    OBVIOUS
  <2>1. y \in DOMAIN dirs /\ dirs[y] \in DOMAIN live' /\ live'[dirs[y]] = y
    BY DEF Held
  <2>2. dirs[y] # dirs[x]
    BY <1>3, <2>1, DirsAre
  <2>3. dirs[y] \in DOMAIN live /\ live[dirs[y]] = y
    BY <2>1, <2>2 DEF With
  <2>4. watches[y] = dirs[y]
    BY <2>3 DEF Book, LiveOk
  <2> QED
    BY <1>3, <2>2, <2>4
<1>6. StaleOk(y)'
  BY <1>3 DEF Stale, With
<1>7. Safe(y)'
  BY <1>5, <1>6 DEF StaleOk, Lost, Gone, Told, Coming, Due, Blind, Safe
<1> QED
  BY <1>4, <1>7, SafeUp

(* The directory that is being watched no longer excuses what is below. *)
LEMMA AttachSafe ==
    ASSUME IInv, TopRoots, Book, Stale, Stale', Promise, ~closing, ~closing', Attach,
           NEW x, x = listing.dir, x \notin DOMAIN watches, x \in DOMAIN dirs,
           live' = With(live, dirs[x], x), watches' = With(watches, x, dirs[x]),
           queue' = [n \in DOMAIN queue |-> IF queue[n].wd = dirs[x]
                                            THEN [queue[n] EXCEPT !.at = x] ELSE queue[n]],
           missed' = missed \ {x},
           NEW t \in APath, t # x, t \in DOMAIN dirs \cup roots \cup (owed \ listing.files),
           Covered(t, roots), ~IsIgnored(t), Safe(t)
    PROVE  Safe(t)'
<1>1. listing # NoListing /\ UNCHANGED <<dirs, visit, pending>> /\ x \in APath /\ dirs[x] # Dead
  BY DirsAre DEF Attach, system
<1>2. Due(t) => Safe(t)'
  <2>1. CASE Overflow \in Range(queue)
    <3>1. PICK n \in DOMAIN queue : queue[n] = Overflow
      BY <2>1 DEF Range
    <3>2. queue'[n] = Overflow /\ n \in DOMAIN queue'
      BY <1>1, <3>1 DEF Overflow
    <3> QED
      BY <3>2 DEF Due, Safe, Range
  <2>2. ASSUME NEW g \in Upward(t), g \in visit \cup pending PROVE Safe(t)'
    BY <1>1, <2>2 DEF Due, Coming, Safe
  <2>3. ASSUME NEW g \in Upward(t), Told(g) PROVE Safe(t)'
    <3>1. PICK n \in DOMAIN queue : queue[n].kind \in {"appeared", "gone"} /\ PathOf(queue[n]) = g
      BY <2>3 DEF Told, Range
    <3>2. CASE queue[n].wd # dirs[x]
      <4>1. queue'[n] = queue[n] /\ n \in DOMAIN queue'
        BY <3>2
      <4>2. Told(g)'
        BY <3>1, <4>1 DEF Told, Range, PathOf
      <4> QED
        BY <4>2 DEF Due, Coming, Safe
    <3>3. CASE queue[n].wd = dirs[x]
      <4>1. queue[n] \in Range(queue) /\ PathOf(queue[n]) \in Upward(t)
        BY <2>3, <3>1 DEF Range
      <4> QED
        BY <1>1, <3>3, <4>1, Relabelled
    <3> QED
      BY <3>2, <3>3
  <2>4. ASSUME NEW g \in Upward(t), Half(g) PROVE Safe(t)'
    <3>1. Len(g) > 1 /\ Parent(g) = x
      BY <2>4 DEF Half
    <3>2. PICK n \in DOMAIN queue : queue[n].wd = dirs[x] /\ queue[n].name = Last(g)
      BY <2>4 DEF Half, Range
    <3>3. queue[n].kind \in {"appeared", "gone"} /\ queue[n] \in Item
      <4>1. queue[n] \in Range(queue) /\ queue[n] # Overflow
        BY <1>1, <3>2 DEF Range, Overflow
      <4>2. queue[n] \in Item
        BY QueueSeq, LenProperties, ElementOfSeq
      <4> QED
        BY <4>1, <4>2 DEF Book, EventsOk
    <3>4. n \in DOMAIN queue' /\ queue'[n] = [queue[n] EXCEPT !.at = x]
      BY <3>2
    <3>5. queue'[n].at = x /\ queue'[n].name = Last(g) /\ queue'[n].kind = queue[n].kind
      BY <3>2, <3>3, <3>4 DEF Item
    <3>6. g = Append(x, Last(g))
      BY <3>1, Ups, UpParent
    <3>7. Told(g)'
      <4>1. PathOf(queue'[n]) = g
        BY <3>5, <3>6 DEF PathOf
      <4> QED
        BY <3>3, <3>4, <3>5, <4>1 DEF Told, Range, PathOf
    <3> QED
      BY <3>7 DEF Due, Coming, Safe
  <2> QED
    BY <2>1, <2>2, <2>3, <2>4 DEF Due, Coming
<1>3. ASSUME NEW a \in Upward(t), a \in missed PROVE Safe(t)'
  <2>1. CASE a # x
    BY <1>3, <2>1 DEF Safe, Blind
  <2>2. CASE a = x
    <3>1. PICK c \in Upward(t) : Len(c) > 1 /\ Parent(c) = x /\ c \notin Upward(x)
      BY <1>3, <2>2, Toward
    <3>2. c \in APath /\ Covered(c, roots) /\ ~IsIgnored(c)
      BY <3>1, CoverUp, Ups
    <3>3. c \in (DOMAIN dirs \ listing.files) \cup (owed \ listing.files)
      <4>1. listing.files \subseteq FilePath
        BY <1>1 DEF IInv, WatcherOk
      <4>2. CASE t \in DOMAIN dirs
        BY <3>1, <4>1, <4>2, Spots, APaths
      <4>3. CASE t \in owed \ listing.files
        <5>1. t \in files
          BY <4>3, Spots
        <5>2. Parent(t) \in DOMAIN dirs /\ Upward(t) = Upward(Parent(t)) \cup {t}
          BY <5>1, Spots
        <5>3. c \in DOMAIN dirs \/ c = t
          BY <3>1, <5>2, Spots
        <5> QED
          BY <4>1, <4>3, <5>3, Spots, APaths
      <4>4. CASE t \in roots
        BY <1>3, <2>2, <4>4, Spots
      <4> QED
        BY <4>2, <4>3, <4>4
    <3>4. Listed(c)
      BY <1>1, <3>1, <3>2, <3>3 DEF Promise, ListingKnown
    <3>5. CASE Due(c)
      BY <1>2, <3>1, <3>5, SafeUp
    <3>6. CASE \E b \in Upward(c) : b # x /\ b \in missed
      <4>1. Upward(c) \subseteq Upward(t)
        BY <3>1, Ups
      <4> QED
        BY <3>6, <4>1 DEF Safe, Blind
    <3> QED
      BY <3>3, <3>4, <3>5, <3>6 DEF Listed
  <2> QED
    BY <2>1, <2>2
<1> QED
  BY <1>2, <1>3 DEF Safe, Blind

(* The directory that was listed is watched or missed, and what came into  *)
(* it meanwhile waits in the queue or slipped through.                     *)
LEMMA AttachPromise ==
    ASSUME IInv, TopRoots, Book, Stale, Stale', Promise, ~closing, Attach
    PROVE  Promise'
<1> SUFFICES ASSUME NEW x, x = listing.dir PROVE Promise'
  OBVIOUS
<1>1. /\ AddWatch(x) /\ owed' = owed \ listing.files /\ listing' = NoListing /\ listing # NoListing
      /\ UNCHANGED <<dirs, roots, closing, pending, visit>>
  BY DEF Attach, system
<1>2. DirsKnown /\ FilesKnown
  BY DEF Promise
<1>3. x \in DirPath /\ x \in APath /\ x \in Upward(x) /\ ~closing'
  BY <1>1, APaths, Ups DEF IInv, WatcherOk
<1>4. ASSUME \A t \in DOMAIN dirs \cup roots : Covered(t, roots) /\ ~IsIgnored(t) /\ Known(t) => Held(t)' \/ Safe(t)',
             \A f \in owed \ listing.files : Covered(f, roots) /\ ~IsIgnored(f) /\ Safe(f) => Safe(f)'
      PROVE  Promise'
  <2>1. ASSUME NEW d \in DOMAIN dirs' \cup roots', Covered(d, roots'), ~IsIgnored(d) PROVE Known(d)'
    BY <1>1, <1>2, <1>4, <2>1 DEF DirsKnown, Known
  <2>2. ASSUME NEW f \in owed' PROVE Covered(f, roots') /\ (~IsIgnored(f) => Safe(f)' \/ f \in listing'.files)
    BY <1>1, <1>2, <1>4, <2>2 DEF FilesKnown
  <2> QED
    BY <1>1, <2>1, <2>2, PromiseNext
<1>5. CASE x \in DOMAIN watches
  <2>1. UNCHANGED <<live, watches, queue, missed>>
    BY <1>1, <1>5 DEF AddWatch
  <2>2. \A g : ~Half(g)
    BY <1>5 DEF Half
  <2>3. \A t : (Due(t) => Due(t)') /\ (Blind(t) => Blind(t)') /\ (Held(t) => Held(t)')
    BY <1>1, <2>1, <2>2 DEF Due, Coming, Told, Blind, Held
  <2>4. ~Held(x) => Safe(x)
    BY <1>5, StaleSafe DEF Stale
  <2> QED
    BY <1>4, <2>3, <2>4 DEF Known, Safe
<1>6. CASE x \in missed' /\ missed \subseteq missed' /\ UNCHANGED <<live, watches, queue>>
  <2>1. ASSUME NEW t \in APath, x \in Upward(t) PROVE Safe(t)'
    BY <1>6, <2>1 DEF Safe, Blind
  <2>2. ASSUME NEW t \in APath, NEW g \in Upward(t), Half(g) PROVE Safe(t)'
    <3>1. Len(g) > 1 /\ Parent(g) = x /\ g \in APath /\ Upward(g) \subseteq Upward(t)
      BY <2>2, Ups DEF Half
    <3>2. x \in Upward(t)
      BY <3>1, UpParent
    <3> QED
      BY <2>1, <3>2
  <2>3. ASSUME NEW t \in APath, Safe(t) PROVE Safe(t)'
    <3>1. (\E g \in Upward(t) : Half(g)) \/ Safe(t)'
      BY <1>1, <1>6, <2>3 DEF Safe, Blind, Due, Coming, Told
    <3> QED
      BY <2>2, <3>1
  <2>4. \A t : Held(t) => Held(t)'
    BY <1>1, <1>6 DEF Held
  <2>5. \A t \in DOMAIN dirs \cup roots \cup owed : t \in APath
    BY Spots
  <2> QED
    BY <1>3, <1>4, <2>1, <2>3, <2>4, <2>5 DEF Known
<1>7. CASE /\ x \notin DOMAIN watches /\ x \in DOMAIN dirs
           /\ live' = With(live, dirs[x], x) /\ watches' = With(watches, x, dirs[x])
           /\ queue' = [n \in DOMAIN queue |-> IF queue[n].wd = dirs[x]
                                               THEN [queue[n] EXCEPT !.at = x] ELSE queue[n]]
           /\ missed' = missed \ {x}
  <2>1. Held(x)'
    BY <1>1, <1>7 DEF Held, With
  <2>2. ASSUME NEW t \in DOMAIN dirs, Held(t) PROVE Held(t)'
    <3>1. dirs[t] # dirs[x] \/ t = x
      BY <1>7, DirsAre
    <3> QED
      BY <1>1, <1>7, <2>1, <2>2, <3>1 DEF Held, With
  <2>3. ASSUME NEW t \in DOMAIN dirs \cup roots \cup (owed \ listing.files), t # x,
               Covered(t, roots), ~IsIgnored(t), Safe(t)
        PROVE  Safe(t)'
    <3>1. t \in APath
      BY Spots
    <3> QED
      BY <1>3, <1>7, <2>3, <3>1, AttachSafe
  <2>4. \A f \in owed : f # x
    BY <1>3, Spots
  <2> QED
    BY <1>4, <2>1, <2>2, <2>3, <2>4 DEF Known, Held
<1> QED
  BY <1>1, <1>5, <1>6, <1>7 DEF AddWatch

(* A directory that is watched and not below what is dropped is watched    *)
(* still, or missed because it shared a descriptor.                        *)
LEMMA DropHeld ==
    ASSUME IInv, Book, NEW R, R \subseteq APath, live' = Unwatched(Revoked(R)), dirs' = dirs,
           Shared(R) \subseteq missed', NEW t \in DOMAIN dirs, Held(t), \A r \in R : r \notin Upward(t)
    PROVE  Held(t)' \/ Blind(t)'
<1>1. t \in DOMAIN watches /\ watches[t] = dirs[t]
  BY DEF Held, Book, LiveOk
<1>2. t \in APath /\ t \in Seq(Seg) /\ t \in Upward(t)
  BY DirsAre, Ups DEF APath
<1>3. t \notin Doomed(R)
  BY <1>2, UpwardIs DEF Doomed, Covered
<1>4. CASE dirs[t] \in Revoked(R)
  <2>1. t \in Shared(R)
    BY <1>1, <1>3, <1>4 DEF Shared
  <2> QED
    BY <1>2, <2>1 DEF Blind
<1>5. CASE dirs[t] \notin Revoked(R)
  BY <1>5 DEF Held, Unwatched
<1> QED
  BY <1>4, <1>5

(* A step of events() that keeps the promise path by path *)
LEMMA ReadingPromise ==
    ASSUME IInv, TopRoots, Promise, ~closing, listing = NoListing, listing' = listing,
           dirs' = dirs, roots' = roots, owed' \subseteq owed, missed \subseteq missed',
           \A t \in DOMAIN dirs \cup roots \cup owed' :
               Covered(t, roots) /\ ~IsIgnored(t) /\ Due(t) => Safe(t)',
           \A t \in DOMAIN dirs : Held(t) => Held(t)' \/ Safe(t)'
    PROVE  Promise'
<1>1. DirsKnown /\ FilesKnown
  BY DEF Promise
<1>2. \A t : Blind(t) => Safe(t)'
  BY DEF Blind, Safe
<1>3. ASSUME NEW t \in DOMAIN dirs \cup roots \cup owed', Covered(t, roots), ~IsIgnored(t), Safe(t)
      PROVE  Safe(t)'
  BY <1>2, <1>3 DEF Safe
<1>4. ASSUME NEW d \in DOMAIN dirs' \cup roots', Covered(d, roots'), ~IsIgnored(d) PROVE Known(d)'
  <2>1. Known(d) /\ d # <<>>
    <3>1. d \in APath
      BY <1>4, Spots
    <3> QED
      BY <1>1, <1>4, <3>1 DEF DirsKnown, APath
  <2>2. Held(d) \/ Safe(d)
    BY <2>1 DEF Known, NoListing
  <2> QED
    BY <1>3, <1>4, <2>2 DEF Known, Held
<1>5. ASSUME NEW f \in owed' PROVE Covered(f, roots') /\ (~IsIgnored(f) => Safe(f)' \/ f \in listing'.files)
  <2>1. Covered(f, roots) /\ (~IsIgnored(f) => Safe(f))
    BY <1>1 DEF FilesKnown, NoListing
  <2> QED
    BY <1>3, <2>1
<1> QED
  BY <1>4, <1>5, PromiseNext

(* A directory's name on a path is that of a directory there is. *)
LEMMA OnTheWay ==
    ASSUME IInv, TopRoots, NEW t \in DOMAIN dirs \cup roots \cup owed,
           NEW g \in Upward(t), Len(g) > 1, Last(g) \in Name
    PROVE  g \in DOMAIN dirs /\ t \notin roots \ DOMAIN dirs
<1>1. CASE t \in DOMAIN dirs
  BY <1>1, Spots
<1>2. t \notin roots
  <2> SUFFICES ASSUME t \in roots PROVE FALSE
    OBVIOUS
  <2>1. Upward(t) = {t} /\ ~(Len(t) > 1)
    BY Spots
  <2> QED
    BY <2>1, Zenon
<1>3. CASE t \in owed
  <2>1. t \in FilePath /\ Parent(t) \in DOMAIN dirs /\ Upward(t) = Upward(Parent(t)) \cup {t}
    BY <1>3, Spots
  <2>2. g # t
    BY <2>1, APaths, PathAssumption
  <2> QED
    BY <1>2, <2>1, <2>2, Spots
<1> QED
  BY <1>1, <1>2, <1>3

(* What the loop can owe when it reads an event: it is in the queue. *)
LEMMA DueReading ==
    ASSUME IInv, Book, Reading, NEW t, Due(t), Keeps(queue', Tail(queue))
    PROVE  \/ Due(t)' \/ Event = Overflow
           \/ /\ EventPath \in Upward(t) /\ EventPath = PathOf(Event) /\ EventPath \in APath
              /\ Len(EventPath) > 1 /\ Last(EventPath) = Event.name
<1>1. visit = {} /\ pending = {} /\ queue # <<>> /\ listing = NoListing
  BY DEF Reading, LoopFree
<1>2. Range(queue) = {Event} \cup Range(Tail(queue))
  BY <1>1, QueueSeq, TailRange DEF Event
<1>3. CASE Overflow \in Range(queue)
  BY <1>2, <1>3 DEF Keeps, Due
<1>4. CASE Overflow \notin Range(queue)
  <2>1. PICK g \in Upward(t) : Told(g)
    BY <1>1, <1>4, NoHalf DEF Due, Coming
  <2>2. PICK e \in Range(queue) : e.kind \in {"appeared", "gone"} /\ PathOf(e) = g
    BY <2>1 DEF Told
  <2>3. CASE e \in Range(Tail(queue))
    BY <2>1, <2>2, <2>3 DEF Keeps, Told, PathOf, Due, Coming
  <2>4. CASE e = Event
    <3>1. e.at \in DirPath /\ e.name \in Seg
      BY <1>4, <2>2 DEF Book, EventsOk, Seg
    <3>2. EventPath = PathOf(e)
      BY <2>4 DEF EventPath, PathOf
    <3> QED
      BY <2>1, <2>2, <2>4, <3>1, <3>2, PathOfIs
  <2> QED
    BY <1>2, <2>3, <2>4
<1> QED
  BY <1>3, <1>4

(* The events that are not removals *)
LEMMA ReadPromise ==
    ASSUME IInv, TopRoots, Book, Promise, ~closing, ReadOverflow \/ ReadIgnored \/ ReadFile \/ ReadNewDir
    PROVE  Promise'
<1>1. /\ Reading /\ queue # <<>> /\ queue' = Tail(queue) /\ listing = NoListing
      /\ UNCHANGED <<dirs, live, roots, missed, listing>>
      /\ owed' \subseteq owed
  BY DEF ReadOverflow, ReadIgnored, ReadFile, ReadNewDir, Reading, LoopFree, system, walk
<1>2. Keeps(queue', Tail(queue))
  BY <1>1 DEF Keeps
<1>3. \A t : Held(t) => Held(t)'
  BY <1>1 DEF Held
<1>4. ASSUME NEW t \in DOMAIN dirs \cup roots \cup owed', Covered(t, roots), ~IsIgnored(t), Due(t)
      PROVE  Safe(t)'
  <2>1. t \in APath
    BY <1>1, <1>4, Spots
  <2>2. CASE ReadOverflow
    <3>1. PICK r \in roots : r \in Upward(t)
      BY <1>4, <2>1, CoverUp, Ups
    <3> QED
      BY <2>2, <3>1 DEF ReadOverflow, Safe, Due, Coming
  <2>3. CASE ~ReadOverflow /\ Due(t)'
    BY <2>3 DEF Safe
  <2>4. CASE ~ReadOverflow /\ ~Due(t)'
    <3>1. Event # Overflow
      BY <2>4 DEF ReadIgnored, ReadFile, ReadNewDir, Overflow
    <3>2. EventPath \in Upward(t) /\ EventPath \in APath /\ Last(EventPath) = Event.name
      BY <1>1, <1>2, <1>4, <2>4, <3>1, DueReading
    <3>3. ~ReadIgnored
      BY <1>4, <2>1, <3>2, Ups DEF ReadIgnored
    <3>4. ~ReadFile
      <4> SUFFICES ASSUME ReadFile PROVE FALSE
        OBVIOUS
      <4>1. EventPath \in DirPath
        <5>1. CASE t \in DOMAIN dirs \cup roots
          BY <3>2, <5>1, Spots, APaths
        <5>2. CASE t \in owed'
          <6>1. t \in owed /\ t # EventPath
            BY <5>2 DEF ReadFile
          <6>2. Parent(t) \in DirPath /\ Upward(t) = Upward(Parent(t)) \cup {t}
            BY <6>1, Spots
          <6> QED
            BY <3>2, <6>1, <6>2, APaths
        <5> QED
          BY <1>4, <5>1, <5>2
      <4> QED
        BY <3>2, <4>1, APaths, PathAssumption DEF ReadFile
    <3>5. ReadNewDir
      BY <2>4, <3>3, <3>4
    <3> QED
      BY <3>2, <3>5 DEF ReadNewDir, Safe, Due, Coming
  <2> QED
    BY <2>2, <2>3, <2>4
<1> QED
  BY <1>1, <1>3, <1>4, ReadingPromise

(* What is below a removal that is read is watched no more, and is not     *)
(* there any more, unless it came back: then its arrival waits, or it is   *)
(* missed.                                                                 *)
LEMMA ReadGonePromise ==
    ASSUME IInv, TopRoots, Book, Promise, ~closing, ReadGoneDir
    PROVE  Promise'
<1> DEFINE R == {EventPath}
<1>1. /\ Reading /\ queue # <<>> /\ listing = NoListing /\ live' = Unwatched(Revoked(R))
      /\ queue' = Void(Tail(queue), Revoked(R)) /\ UNCHANGED <<dirs, roots, listing, owed>>
      /\ missed' = missed \cup Late(EventPath) \cup Shared(R)
      /\ Event.name \in Name /\ Event.kind = "gone" /\ Event # Overflow
  BY DEF ReadGoneDir, Reading, LoopFree, system, walk, Overflow
<1>2. Range(queue) = {Event} \cup Range(Tail(queue)) /\ Tail(queue) \in Seq(Item)
      /\ Range(Tail(queue)) = {queue[n] : n \in 2 .. Len(queue)}
  BY <1>1, QueueSeq, TailRange DEF Event
<1>3. Keeps(queue', Tail(queue))
  BY <1>1, <1>2, VoidKeeps
<1>4. EventPath = PathOf(Event) /\ EventPath \in APath /\ Len(EventPath) > 1 /\ Last(EventPath) \in Name
  <2>1. Event.at \in DirPath /\ Event.name \in Seg
    BY <1>1, <1>2 DEF Book, EventsOk, Seg
  <2> QED
    BY <1>1, <2>1, PathOfIs DEF EventPath, PathOf
<1>5. ASSUME EventPath \in DOMAIN dirs, NEW t, EventPath \in Upward(t)
      PROVE  Safe(t)'
  <2>1. CASE EventPath \in missed'
    BY <1>5, <2>1 DEF Safe, Blind
  <2>2. CASE EventPath \notin missed'
    <3> SUFFICES ASSUME NEW h, h = EventPath PROVE Safe(t)'
      OBVIOUS
    <3>1. PICK n \in 2 .. Len(queue) : PathOf(queue[n]) = h /\ queue[n].kind = "appeared"
      BY <1>1, <1>5, <2>2 DEF Late, PathOf
    <3>2. queue[n] \in Range(Tail(queue))
      BY <1>2
    <3>3. Told(h)'
      BY <1>3, <3>1, <3>2 DEF Keeps, Told, PathOf
    <3>4. Due(t)'
      BY <1>5, <3>3 DEF Due, Coming
    <3> QED
      BY <3>4 DEF Safe
  <2> QED
    BY <2>1, <2>2
<1>6. ASSUME NEW t \in DOMAIN dirs \cup roots \cup owed', Due(t) PROVE Safe(t)'
  <2>1. Due(t)' \/ EventPath \in Upward(t)
    BY <1>1, <1>3, <1>6, DueReading
  <2>2. CASE EventPath \in Upward(t)
    <3>1. EventPath \in DOMAIN dirs
      BY <1>1, <1>4, <2>2, OnTheWay
    <3> QED
      BY <1>5, <2>2, <3>1
  <2> QED
    BY <2>1, <2>2 DEF Safe
<1>7. ASSUME NEW t \in DOMAIN dirs, Held(t) PROVE Held(t)' \/ Safe(t)'
  <2>1. CASE EventPath \in Upward(t)
    <3>1. EventPath \in DOMAIN dirs
      BY <2>1, Spots
    <3> QED
      BY <1>5, <2>1, <3>1
  <2>2. CASE EventPath \notin Upward(t)
    <3>1. R \subseteq APath /\ Shared(R) \subseteq missed' /\ \A r \in R : r \notin Upward(t)
      BY <1>1, <1>4, <2>2
    <3> HIDE DEF R
    <3>2. Held(t)' \/ Blind(t)'
      BY <1>1, <1>7, <3>1, DropHeld
    <3> QED
      BY <3>2 DEF Safe
  <2> QED
    BY <2>1, <2>2
<1>8. missed \subseteq missed' /\ owed' \subseteq owed
  BY <1>1
<1> QED
  BY <1>1, <1>6, <1>7, <1>8, ReadingPromise

(* What is below a root that stays is as known as before, and a walk is    *)
(* made of every root that is new.                                         *)
LEMMA SetRootsPromise ==
    ASSUME IInv, TopRoots, Book, Promise, ~closing, NEW new \in RootSets, SetRoots(new)
    PROVE  Promise'
<1> DEFINE R == roots \ new
<1>1. /\ visit = {} /\ listing = NoListing /\ live' = Unwatched(Revoked(R))
      /\ queue' = Void(queue, Revoked(R)) /\ UNCHANGED <<dirs, listing, pending>>
      /\ visit' = new \ roots /\ roots' = new /\ owed' = {f \in owed : Covered(f, roots \cap new)}
      /\ missed' = missed \cup Shared(R)
  BY DEF SetRoots, LoopFree, system
<1>2. new \subseteq DirPath /\ (\A r \in new : Len(r) = 1) /\ R \subseteq APath
  BY RootsAssumption, DirsAre, APaths DEF TopRoots
<1>3. Keeps(queue', queue)
  BY <1>1, QueueSeq, VoidKeeps
<1>4. \A t : Due(t) => Due(t)'
  <2>1. \A g : Told(g) => Told(g)'
    BY <1>3, Keeping
  <2> QED
    BY <1>1, <1>3, <2>1, NoHalf DEF Due, Coming, Keeps
<1>5. \A t : Safe(t) => Safe(t)'
  BY <1>1, <1>4 DEF Safe, Blind
<1>6. DirsKnown /\ FilesKnown
  BY DEF Promise
<1>7. ASSUME NEW t \in DOMAIN dirs' \cup roots', Covered(t, roots'), ~IsIgnored(t) PROVE Known(t)'
  <2>1. t \in APath /\ (t \in new => Upward(t) = {t}) /\ t \in Upward(t) /\ t # <<>>
    <3>1. t \in APath
      BY <1>1, <1>2, <1>7, Spots, APaths
    <3> QED
      BY <1>2, <3>1, CoveredUp, Ups DEF APath
  <2>2. PICK r \in new : r \in Upward(t)
    BY <1>1, <1>2, <1>7, <2>1, CoveredUp
  <2>3. CASE r \notin roots
    <3>1. r \in visit'
      BY <1>1, <2>3
    <3> QED
      BY <2>2, <3>1 DEF Due, Coming, Safe, Known
  <2>4. CASE r \in roots
    <3>1. Covered(t, roots) /\ t \in DOMAIN dirs \cup roots
      BY <1>1, <1>7, <2>1, <2>2, <2>4, CoverUp
    <3>2. Held(t) \/ Safe(t)
      BY <1>1, <1>6, <1>7, <2>1, <3>1 DEF DirsKnown, Known, NoListing
    <3>3. CASE Held(t)
      <4>1. ASSUME NEW x \in R, x \in Upward(t) PROVE FALSE
        <5>1. {x} \subseteq DirPath /\ Len(x) = 1 /\ Upward(r) = {r}
          BY <2>4, Spots
        <5>2. Covered(t, {x})
          BY <2>1, <4>1, <5>1, CoveredUp
        <5>3. Covered(r, {x})
          BY <2>1, <2>2, <5>1, <5>2, CoveredUp
        <5>4. x \in Upward(r)
          BY <2>4, <5>1, <5>3, Spots, CoveredUp
        <5> QED
          BY <2>2, <5>1, <5>4
      <4>2. t \in DOMAIN dirs /\ Shared(R) \subseteq missed'
        BY <1>1, <3>3 DEF Held
      <4> HIDE DEF R
      <4>3. Held(t)' \/ Blind(t)'
        BY <1>1, <1>2, <3>3, <4>1, <4>2, DropHeld
      <4> QED
        BY <4>3 DEF Known, Safe
    <3> QED
      BY <1>5, <3>2, <3>3 DEF Known
  <2> QED
    BY <2>3, <2>4
<1>8. ASSUME NEW f \in owed' PROVE Covered(f, roots') /\ (~IsIgnored(f) => Safe(f)' \/ f \in listing'.files)
  <2>1. f \in owed /\ Covered(f, new)
    BY <1>1 DEF Covered
  <2> QED
    BY <1>1, <1>5, <1>6, <2>1 DEF FilesKnown
<1> QED
  BY <1>1, <1>7, <1>8, PromiseNext

(* Every step of the specification keeps the promise. *)
LEMMA NextPromise ==
    ASSUME IInv, TopRoots, Book, Stale, Stale', Promise, [Next]_vars
    PROVE  Promise'
<1>1. CASE closing
  <2>1. closing'
    BY <1>1 DEF Next, FileSystem, MkDir, RmDir, Create, Delete, Rename, Loop, ListDir, Attach, ReadOverflow,
                ReadIgnored, ReadFile, ReadNewDir, ReadGoneDir, WalkNext, SetRoots, Aclose, vars
  <2> QED
    BY <2>1 DEF Promise
<1>2. CASE ~closing /\ FileSystem
  BY <1>2, MkDirPromise, CreatePromise, DeletePromise, RmDirPromise, RenamePromise DEF FileSystem
<1>3. CASE ~closing /\ Loop
  BY <1>3, ListDirPromise, AttachPromise, ReadPromise, ReadGonePromise, WalkNextPromise DEF Loop
<1>4. CASE ~closing /\ \E new \in RootSets : SetRoots(new)
  BY <1>4, SetRootsPromise
<1>5. CASE Aclose
  BY <1>5 DEF Aclose, Promise
<1>6. CASE UNCHANGED vars
  BY <1>6 DEF vars, system, walk, Promise, DirsKnown, FilesKnown, ListingKnown, Listed, Known, Safe, Due,
              Coming, Half, Told, Blind, Held
<1> QED
  BY <1>1, <1>2, <1>3, <1>4, <1>5, <1>6 DEF Next

(* Nothing is watched and no root is set at the start. *)
LEMMA InitPromise == Init => Book /\ Stale /\ Promise
<1> SUFFICES ASSUME Init PROVE Stale /\ Promise
  BY InitBook
<1>1. watches = <<>> /\ roots = {} /\ owed = {} /\ listing = NoListing /\ DOMAIN <<>> = {}
  BY EmptyFunction DEF Init
<1>2. \A t : ~Covered(t, roots)
  BY <1>1 DEF Covered
<1> QED
  BY <1>1, <1>2 DEF Stale, Promise, DirsKnown, FilesKnown, ListingKnown

(* The watcher keeps its books and its promise in every reachable state. *)
THEOREM PromiseKept == ASSUME TopRoots PROVE Spec => [](IInv /\ Book /\ Stale /\ Promise)
<1>1. Init => IInv /\ Book /\ Stale /\ Promise
  BY InitInv, InitPromise
<1>2. IInv /\ Book /\ Stale /\ Promise /\ [Next]_vars => (IInv /\ Book /\ Stale /\ Promise)'
  <2> SUFFICES ASSUME IInv, Book, Stale, Promise, [Next]_vars PROVE (IInv /\ Book /\ Stale /\ Promise)'
    OBVIOUS
  <2>1. IInv'
    BY NextInv
  <2>2. Book' /\ Stale'
    BY NextBook, NextStale
  <2>3. Promise'
    BY <2>2, NextPromise
  <2> QED
    BY <2>1, <2>2, <2>3
<1> QED
  BY <1>1, <1>2, PTL DEF Spec

(* When there is nothing left to read nothing is due. *)
LEMMA QuietDue ==
    ASSUME Quiet, IInv PROVE \A t : ~Due(t)
<1>1. queue = <<>> /\ visit = {} /\ pending = {} /\ listing = NoListing
  BY DEF Quiet, LoopFree
<1>2. Range(queue) = {}
  BY <1>1, EmptyFunction DEF Range
<1> QED
  BY <1>1, <1>2, NoHalf DEF Due, Coming, Told

(* _walk_add_watches, _on_event and the resync of an overflow together     *)
(* leave no directory below a root without its watch: when the queue is    *)
(* read and no walk is left, every directory is watched at its own path,   *)
(* but for those that add_watch failed on, missing roots and what slipped  *)
(* between listing and watching.                                           *)
THEOREM NothingUnwatched == ASSUME TopRoots PROVE Spec => []AllWatched
<1>1. IInv /\ Book /\ Promise => AllWatched
  <2> SUFFICES ASSUME IInv, Book, Promise, Quiet, NEW d \in Visible PROVE Watched(d) \/ Blind(d)
    BY DEF AllWatched
  <2>1. d \in DOMAIN dirs /\ Known(d)
    BY DEF Visible, Promise, DirsKnown, Quiet
  <2>2. ~Due(d) /\ listing.dir # d
    BY <2>1, QuietDue, DirsAre DEF Quiet, LoopFree, NoListing
  <2>3. Held(d) \/ Blind(d)
    BY <2>1, <2>2 DEF Known, Safe
  <2>4. Held(d) => Watched(d)
    BY DEF Held, Watched, Book, LiveOk
  <2> QED
    BY <2>3, <2>4
<1> QED
  BY <1>1, PromiseKept, PTL

(* Every file that appeared below a root has been reported by then, by its *)
(* event or by the walk that found it, with the same exceptions: "nothing  *)
(* is silently missed".                                                    *)
THEOREM NothingUnreported == ASSUME TopRoots PROVE Spec => []AllReported
<1>1. IInv /\ Promise => AllReported
  <2> SUFFICES ASSUME IInv, Promise, Quiet, NEW f \in owed PROVE IsIgnored(f) \/ Blind(f)
    BY DEF AllReported
  <2> QED
    BY QuietDue DEF Promise, FilesKnown, Safe, Quiet, LoopFree, NoListing
<1> QED
  BY <1>1, PromiseKept, PTL
===============================================================================
