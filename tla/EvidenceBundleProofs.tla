-------------------------- MODULE EvidenceBundleProofs --------------------------
(***************************************************************************)
(* Proofs about EvidenceBundle for every limit, every size of an item and  *)
(* of a sample, and every pair of answers.  Lemmas say what the grouping,  *)
(* the sort and the two caps make of an answer, and that a bundle has a    *)
(* size; the inductive invariant and the theorems rest on them.            *)
(***************************************************************************)
EXTENDS EvidenceBundle, FiniteSetTheorems, SequenceTheorems, TLAPS

USE BundleAssumption

(***************************************************************************)
(* Numbers                                                                 *)
(***************************************************************************)

LEMMA LeastElement ==
  ASSUME NEW T, T \subseteq Nat, T # {}
  PROVE  \E x \in T : \A y \in T : x <= y
<1> DEFINE R == {p \in Nat \X Nat : p[1] < p[2]}
<1>1. OpToRel(<, Nat) = R
  BY Zenon DEF OpToRel
<1>2. IsWellFoundedOn(R, Nat)
  BY <1>1, NatLessThanWellFounded
<1>3. \A x, y \in Nat : <<y, x>> \in R <=> y < x
  OBVIOUS
<1> HIDE DEF R
<1>4. PICK x \in T : \A y \in T : ~(<<y, x>> \in R)
  BY <1>2, WFMin
<1>5. \A y \in T : ~(y < x) /\ x \in Nat /\ y \in Nat
  BY <1>3, <1>4
<1> QED
  BY <1>5

(* What holds of 0 and is passed on holds up to n.                         *)
LEMMA UpTo ==
  ASSUME NEW n \in Nat, NEW P \in SUBSET (0..n), 0 \in P,
         \A k \in 0..n : k - 1 \in P => k \in P
  PROVE  P = 0..n
<1> SUFFICES ASSUME (0..n) \ P # {} PROVE FALSE
  OBVIOUS
<1>1. PICK k \in (0..n) \ P : \A y \in (0..n) \ P : k <= y
  <2>1. (0..n) \ P \subseteq Nat
    OBVIOUS
  <2> QED
    BY <2>1, LeastElement
<1>2. k - 1 \in 0..n /\ ~(k <= k - 1)
  BY <1>1
<1> QED
  BY <1>1, <1>2

(***************************************************************************)
(* The size of a bundle                                                    *)
(***************************************************************************)

LEMMA BytesOfType ==
  ASSUME NEW item \in Item
  PROVE  BytesOf(item) \in Nat
<1>1. CASE item \in GroupItem
  <2>0. item.samples \in 0..2 /\ item.signature \in Signature
    BY <1>1 DEF GroupItem
  <2>3. item.samples \in {0, 1, 2}
    BY <2>0
  <2>4. SampleBytes[item.signature] \in Nat
    BY <2>0
  <2>1. item.samples \in {0, 1, 2} /\ SampleBytes[item.signature] \in Nat
    BY <2>3, <2>4
  <2> DEFINE b == SampleBytes[item.signature]
  <2>2. \A x \in Nat : 0 * x \in Nat /\ 1 * x \in Nat /\ 2 * x \in Nat
    OBVIOUS
  <2>5. item.samples * b \in Nat
    BY <2>1, <2>2
  <2> QED
    BY <1>1, <2>5 DEF BytesOf
<1>2. CASE item \in EmptyItem
  BY <1>2 DEF EmptyItem, BytesOf
<1> QED
  BY <1>1, <1>2 DEF Item

(* The recursive function in LogBytes is one, and its values are numbers.  *)
LEMMA LogBytesType ==
  ASSUME evidence \in Seq(Item)
  PROVE  LogBytes \in Nat
<1> DEFINE N == Len(evidence)
           Next_(f, n) == IF n = 0 THEN FrameBytes ELSE f[n - 1] + BytesOf(evidence[n])
           Sums(k) == {f \in [0..k -> Nat] : \A n \in 0..k : f[n] = Next_(f, n)}
           P == {k \in 0..N : Sums(k) # {}}
<1>0. N \in Nat /\ \A n \in 1..N : BytesOf(evidence[n]) \in Nat
  BY BytesOfType
<1>1. 0 \in P
  <2>1. [n \in 0..0 |-> FrameBytes] \in Sums(0)
    OBVIOUS
  <2> QED
    BY <1>0, <2>1
<1>2. ASSUME NEW k \in 0..N, k - 1 \in P PROVE k \in P
  <2>1. PICK f \in Sums(k - 1) : TRUE
    BY <1>2
  <2>2. k - 1 \in Nat /\ k \in 1..N /\ BytesOf(evidence[k]) \in Nat
    BY <1>0, <1>2
  <2> DEFINE g == [n \in 0..k |-> IF n = k THEN f[k - 1] + BytesOf(evidence[k]) ELSE f[n]]
  <2>3. f[k - 1] \in Nat
    BY <2>1, <2>2
  <2>4. \A n \in 0..k : n # k => n \in 0..(k - 1) /\ f[n] \in Nat
    BY <2>1, <2>2
  <2>5. g \in [0..k -> Nat]
    BY <2>2, <2>3, <2>4
  <2>6. ASSUME NEW n \in 0..k PROVE g[n] = Next_(g, n)
    <3>1. CASE n = k
      BY <2>2, <3>1
    <3>2. CASE n # k
      <4>1. n \in 0..(k - 1) /\ f[n] = Next_(f, n) /\ g[n] = f[n]
        BY <2>1, <2>4, <3>2
      <4>2. n # 0 => n - 1 \in 0..k /\ n - 1 # k /\ g[n - 1] = f[n - 1]
        BY <2>2, <3>2
      <4> QED
        BY <4>1, <4>2
    <3> QED
      BY <3>1, <3>2
  <2>7. g \in Sums(k)
    BY <2>5, <2>6
  <2> QED
    BY <2>7
<1>3. N \in P
  <2>1. P \in SUBSET (0..N)
    OBVIOUS
  <2> HIDE DEF P
  <2>2. P = 0..N
    BY <1>0, <1>1, <1>2, <2>1, UpTo
  <2> QED
    BY <1>0, <2>2
<1> DEFINE sum == CHOOSE f : f = [n \in 0..N |-> Next_(f, n)]
<1>4. sum = [n \in 0..N |-> Next_(sum, n)]
  <2>1. PICK f \in Sums(N) : TRUE
    BY <1>3
  <2>2. f = [n \in 0..N |-> Next_(f, n)]
    BY <2>1
  <2> QED
    BY <2>2
<1>5. LogBytes = sum[N]
  BY DEF LogBytes
<1>6. sum[N] \in Nat
  <2> DEFINE Q == {n \in 0..N : sum[n] \in Nat}
  <2> HIDE DEF sum
  <2>1. 0 \in Q
    BY <1>0, <1>4
  <2>2. ASSUME NEW k \in 0..N, k - 1 \in Q PROVE k \in Q
    <3>1. k # 0 /\ k \in 1..N
      BY <1>0, <2>2
    <3>2. sum[k] = sum[k - 1] + BytesOf(evidence[k])
      BY <1>4, <3>1
    <3> QED
      BY <1>0, <2>2, <3>1, <3>2
  <2>3. Q \in SUBSET (0..N)
    OBVIOUS
  <2> HIDE DEF Q
  <2>4. Q = 0..N
    BY <1>0, <2>1, <2>2, <2>3, UpTo
  <2> QED
    BY <1>0, <2>4 DEF Q
<1> QED
  BY <1>5, <1>6

(***************************************************************************)
(* The sort                                                                *)
(***************************************************************************)

(* Items whose numbers compare, at most one of a signature.                *)
Keyed(items) ==
  /\ IsFiniteSet(items)
  /\ \A a \in items : a.count \in Nat /\ a.signature \in Nat
  /\ \A a, b \in items : a.signature = b.signature => a = b

LEMMA BeforeIsTotal ==
  ASSUME NEW G, Keyed(G)
  PROVE  /\ \A a \in G : ~Before(a, a)
         /\ \A a, b \in G : a # b => Before(a, b) \/ Before(b, a)
         /\ \A a, b, c \in G : Before(a, b) /\ Before(b, c) => Before(a, c)
         /\ \A a, b \in G : Before(a, b) => b.count <= a.count
  BY DEF Keyed, Before

(* sorted() returns every item once, the more frequent ones first.         *)
LEMMA SortedIs ==
  ASSUME NEW G, Keyed(G)
  PROVE  /\ Cardinality(G) \in Nat
         /\ Sorted(G) \in [1..Cardinality(G) -> G]
         /\ \A a \in G : \E n \in 1..Cardinality(G) : Sorted(G)[n] = a
         /\ \A m, n \in 1..Cardinality(G) : m < n => Sorted(G)[n].count <= Sorted(G)[m].count
<1> DEFINE Below(a) == {b \in G : Before(b, a)}
           c == Cardinality(G)
           rank == [a \in G |-> Cardinality(Below(a))]
<1>0. IsFiniteSet(G) /\ c \in Nat
  BY FS_CardinalityType DEF Keyed
<1>1. ASSUME NEW a \in G
      PROVE  IsFiniteSet(Below(a)) /\ rank[a] \in Nat /\ rank[a] < c
  <2>1. Below(a) \in SUBSET G /\ Below(a) # G
    BY BeforeIsTotal
  <2> HIDE DEF Below
  <2>2. IsFiniteSet(Below(a)) /\ Cardinality(Below(a)) <= c /\ Cardinality(Below(a)) # c
    BY <1>0, <2>1, FS_Subset
  <2>3. Cardinality(Below(a)) \in Nat
    BY <2>2, FS_CardinalityType
  <2> QED
    BY <1>0, <2>2, <2>3
<1>2. ASSUME NEW a \in G, NEW b \in G, Before(a, b)
      PROVE  rank[a] < rank[b]
  <2>1. Below(a) \in SUBSET Below(b) /\ Below(a) # Below(b)
    BY <1>2, BeforeIsTotal
  <2>2. IsFiniteSet(Below(b)) /\ rank[a] \in Nat /\ rank[b] \in Nat
    BY <1>1
  <2>3. rank[a] = Cardinality(Below(a)) /\ rank[b] = Cardinality(Below(b))
    OBVIOUS
  <2> HIDE DEF Below, rank
  <2>4. Cardinality(Below(a)) <= Cardinality(Below(b)) /\ Cardinality(Below(a)) # Cardinality(Below(b))
    BY <2>1, <2>2, FS_Subset
  <2> QED
    BY <2>2, <2>3, <2>4
<1> HIDE DEF Below, rank, c
<1>3. \A a, b \in G : rank[a] = rank[b] => a = b
  <2> SUFFICES ASSUME NEW a \in G, NEW b \in G, rank[a] = rank[b], a # b PROVE FALSE
    OBVIOUS
  <2>1. Before(a, b) \/ Before(b, a)
    BY BeforeIsTotal
  <2> QED
    BY <1>1, <1>2, <2>1
<1>4. rank \in Injection(G, 0..(c - 1))
  <2>1. rank \in [G -> 0..(c - 1)]
    <3>1. rank = [a \in G |-> rank[a]]
      BY DEF rank
    <3>2. \A a \in G : rank[a] \in 0..(c - 1)
      BY <1>0, <1>1
    <3> QED
      BY <3>1, <3>2
  <2> QED
    BY <1>3, <2>1 DEF Injection, IsInjective
<1>5. IsFiniteSet(0..(c - 1)) /\ Cardinality(0..(c - 1)) = c
  <2>1. 0 \in Int /\ c - 1 \in Int
    BY <1>0
  <2>2. /\ IsFiniteSet(0..(c - 1))
        /\ Cardinality(0..(c - 1)) = IF 0 > c - 1 THEN 0 ELSE (c - 1) - 0 + 1
    BY <2>1, FS_Interval, Zenon
  <2> QED
    BY <1>0, <2>2
<1>6. \A n \in 1..c : \E a \in G : rank[a] = n - 1
  <2>0. Cardinality(G) = Cardinality(0..(c - 1))
    BY <1>5 DEF c
  <2>1. rank \in Surjection(G, 0..(c - 1))
    BY <1>4, <1>5, <2>0, FS_Injection
  <2> QED
    BY <1>0, <2>1 DEF Surjection
<1>7. \A n \in 1..c : Sorted(G)[n] \in G /\ rank[Sorted(G)[n]] = n - 1
  <2>1. \A a \in G : rank[a] = Cardinality({b \in G : Before(b, a)})
    BY DEF rank, Below
  <2>2. Sorted(G) = [n \in 1..c |-> CHOOSE a \in G : rank[a] = n - 1]
    BY <2>1 DEF Sorted, c
  <2> QED
    BY <1>6, <2>2
<1>8. Sorted(G) \in [1..c -> G]
  BY <1>7 DEF Sorted, c
<1>9. ASSUME NEW a \in G PROVE \E n \in 1..c : Sorted(G)[n] = a
  <2>1. rank[a] + 1 \in 1..c /\ (rank[a] + 1) - 1 = rank[a]
    BY <1>0, <1>1
  <2> QED
    BY <1>3, <1>7, <2>1
<1>10. ASSUME NEW m \in 1..c, NEW n \in 1..c, m < n
       PROVE  Sorted(G)[n].count <= Sorted(G)[m].count
  <2> DEFINE a == Sorted(G)[m]
             b == Sorted(G)[n]
  <2>1. a \in G /\ b \in G /\ rank[a] = m - 1 /\ rank[b] = n - 1
    BY <1>7
  <2>2. rank[a] < rank[b] /\ rank[a] \in Nat /\ rank[b] \in Nat
    BY <1>1, <1>10, <2>1
  <2> HIDE DEF a, b
  <2>3. Before(a, b)
    <3>1. a # b /\ ~(rank[b] < rank[a])
      BY <2>2
    <3> QED
      BY <1>2, <2>1, <3>1, BeforeIsTotal
  <2> QED
    BY <2>1, <2>3, BeforeIsTotal DEF a, b
<1> QED
  BY <1>0, <1>8, <1>9, <1>10 DEF c

(***************************************************************************)
(* One query                                                               *)
(***************************************************************************)

LEMMA ReadIs ==
  ASSUME NEW a \in Answer
  PROVE  /\ Read(a) \in Seq(Line)
         /\ ~Unreadable(a) => Read(a) \in Seq(Signature)
<1>1. a.lines \in Seq(Line)
  <2>1. CASE a = Failed \/ a = Misshapen
    <3>1. a.lines = <<>>
      BY <2>1 DEF Failed, Misshapen
    <3> QED
      BY <3>1
  <2>2. CASE a \in [kind : {"lines"}, lines : SeqOf(Line, LongestAnswer)]
    <3>1. PICK m \in 0..LongestAnswer : a.lines \in [1..m -> Line]
      BY <2>2 DEF SeqOf
    <3> QED
      BY <3>1
  <2> QED
    BY <2>1, <2>2 DEF Answer
<1>2. Read(a) \in Seq(Line)
  BY <1>1 DEF Read
<1>3. \A x \in Line : x # BadLine => x \in Signature
  BY DEF Line
<1> QED
  BY <1>2, <1>3 DEF Unreadable

LEMMA OccurrencesType ==
  ASSUME NEW lines \in Seq(Line), NEW sig
  PROVE  /\ Occurrences(lines, sig) \in Nat
         /\ sig \in ToSet(lines) => Occurrences(lines, sig) \in Nat \ {0}
<1> DEFINE At == {n \in DOMAIN lines : lines[n] = sig}
<1>1. DOMAIN lines = 1..Len(lines) /\ 1 \in Int /\ Len(lines) \in Int
  OBVIOUS
<1>2. IsFiniteSet(1..Len(lines)) /\ At \in SUBSET (1..Len(lines))
  BY <1>1, FS_Interval
<1>3. IsFiniteSet(At)
  BY <1>2, FS_Subset
<1>4. Cardinality(At) \in Nat /\ (Cardinality(At) = 0 <=> At = {})
  BY <1>3, FS_CardinalityType, FS_EmptySet
<1>5. sig \in ToSet(lines) => At # {}
  BY DEF ToSet
<1> QED
  BY <1>4, <1>5 DEF Occurrences

LEMMA GroupIs ==
  ASSUME NEW source \in Source, NEW lines \in Seq(Signature), NEW sig \in ToSet(lines)
  PROVE  /\ Group(source, lines, sig) \in GroupItem
         /\ Group(source, lines, sig).source = source
         /\ Group(source, lines, sig).signature = sig
         /\ Group(source, lines, sig).count = Occurrences(lines, sig)
<1>1. sig \in Signature
  BY DEF ToSet
<1>2. lines \in Seq(Line)
  BY DEF Line
<1>3. Occurrences(lines, sig) \in Nat \ {0}
  BY <1>2, OccurrencesType
<1>4. \A n \in Nat : (IF n < 2 THEN n ELSE 2) \in 0..2
  OBVIOUS
<1> QED
  BY <1>1, <1>3, <1>4 DEF Group, GroupItem

LEMMA GroupsKeyed ==
  ASSUME NEW source \in Source, NEW lines \in Seq(Signature)
  PROVE  Keyed(Groups(source, lines)) /\ Groups(source, lines) \subseteq GroupItem
<1> DEFINE G == Groups(source, lines)
           f == [n \in 1..Len(lines) |-> Group(source, lines, lines[n])]
<1>1. IsFiniteSet(1..Len(lines))
  BY FS_Interval
<1>2. f \in Surjection(1..Len(lines), G)
  <2>1. \A n \in 1..Len(lines) : lines[n] \in ToSet(lines)
    BY DEF ToSet
  <2>2. f \in [1..Len(lines) -> G]
    BY <2>1 DEF Groups
  <2>3. ASSUME NEW b \in G PROVE \E n \in 1..Len(lines) : f[n] = b
    <3>1. PICK sig \in ToSet(lines) : b = Group(source, lines, sig)
      BY DEF Groups
    <3>2. PICK n \in 1..Len(lines) : lines[n] = sig
      BY DEF ToSet
    <3> QED
      BY <3>1, <3>2
  <2> HIDE DEF f, G
  <2> QED
    BY <2>2, <2>3 DEF Surjection
<1>3. IsFiniteSet(G)
  <2> HIDE DEF f, G
  <2> QED
    BY <1>1, <1>2, FS_Surjection
<1>4. G \subseteq GroupItem
  BY GroupIs DEF Groups
<1>5. \A a, b \in G : a.signature = b.signature => a = b
  BY GroupIs DEF Groups
<1>6. \A a \in GroupItem : a.count \in Nat /\ a.signature \in Nat
  BY DEF GroupItem
<1> QED
  BY <1>3, <1>4, <1>5, <1>6 DEF Keyed

(* What comes before any cut of a list of items: every signature of the    *)
(* lines that the cut leaves out has at most the count of what it keeps.   *)
FrequentFirst(items, lines) ==
  \A cut \in 1..Len(items) : \A n \in 1..cut : items[n].status = "OK" =>
    \A sig \in ToSet(lines) :
      \/ \E m \in 1..cut : items[m].signature = sig
      \/ Occurrences(lines, sig) <= items[n].count

LEMMA PrefixIs ==
  ASSUME NEW T, NEW s \in Seq(T), NEW n \in Nat \ {0}
  PROVE  /\ Prefix(s, n) \in Seq(T)
         /\ Len(Prefix(s, n)) \in Nat /\ Len(Prefix(s, n)) <= Len(s)
         /\ s # <<>> => Len(Prefix(s, n)) >= 1
         /\ \A k \in 1..Len(Prefix(s, n)) : k \in 1..Len(s) /\ Prefix(s, n)[k] = s[k]
  BY DEF Prefix

LEMMA GroupedIs ==
  ASSUME NEW source \in Source, NEW lines \in Seq(Signature), lines # <<>>
  PROVE  /\ Grouped(source, lines) \in Seq(Item)
         /\ Len(Grouped(source, lines)) >= 1
         /\ \A n \in 1..Len(Grouped(source, lines)) : Grouped(source, lines)[n].source = source
         /\ FrequentFirst(Grouped(source, lines), lines)
<1> DEFINE G == Groups(source, lines)
           s == Sorted(G)
           c == Cardinality(G)
           g == Prefix(s, PerQuery)
<1>1. /\ c \in Nat /\ s \in [1..c -> G]
      /\ \A a \in G : \E n \in 1..c : s[n] = a
      /\ \A m, n \in 1..c : m < n => s[n].count <= s[m].count
  BY GroupsKeyed, SortedIs
<1>2. \A a \in G : /\ a \in Item /\ a.source = source /\ a.count \in Nat
                   /\ \E sig \in ToSet(lines) : a.signature = sig /\ a.count = Occurrences(lines, sig)
  BY GroupIs DEF Groups, Item, GroupItem
<1>3. \A sig \in ToSet(lines) : \E a \in G : a.signature = sig /\ a.count = Occurrences(lines, sig)
  BY GroupIs DEF Groups
<1>4. G # {}
  <2>1. lines[1] \in ToSet(lines)
    BY DEF ToSet
  <2> QED
    BY <1>3, <2>1
<1> HIDE DEF s, c, G
<1>5. s \in Seq(Item) /\ Len(s) = c /\ s # <<>>
  BY <1>1, <1>2, <1>4
<1>6. /\ g \in Seq(Item) /\ Len(g) \in Nat /\ Len(g) <= c /\ Len(g) >= 1
      /\ \A k \in 1..Len(g) : k \in 1..c /\ g[k] = s[k]
  BY <1>5, PrefixIs
<1> HIDE DEF g
<1>7. \A n \in 1..Len(g) : g[n].source = source
  BY <1>1, <1>2, <1>6
<1>8. FrequentFirst(g, lines)
  <2> SUFFICES ASSUME NEW cut \in 1..Len(g), NEW n \in 1..cut, NEW sig \in ToSet(lines),
                      ~\E m \in 1..cut : g[m].signature = sig
               PROVE  Occurrences(lines, sig) <= g[n].count
    BY DEF FrequentFirst
  <2>1. PICK p \in 1..c : s[p].signature = sig /\ s[p].count = Occurrences(lines, sig)
    BY <1>1, <1>3
  <2>2. p \notin 1..cut
    <3>1. p \in 1..cut => p \in 1..Len(g)
      BY <1>6
    <3> QED
      BY <1>6, <2>1, <3>1
  <2>3. n \in 1..c /\ n \in 1..Len(g) /\ n < p
    BY <1>1, <1>6, <2>1, <2>2
  <2> QED
    BY <1>1, <1>6, <2>1, <2>3
<1>9. Grouped(source, lines) = g
  BY DEF Grouped, g, s, G
<1> QED
  BY <1>6, <1>7, <1>8, <1>9

(* What becomes of any answer of a query.                                  *)
LEMMA NormalizedIs ==
  ASSUME TypeOK, NEW source \in Source
  PROVE  /\ Normalized(source) \in Seq(Item)
         /\ Len(Normalized(source)) >= 1
         /\ \A n \in 1..Len(Normalized(source)) : Normalized(source)[n].source = source
         /\ FrequentFirst(Normalized(source), Read(answer[source]))
<1> DEFINE a == answer[source]
<1>1. a \in Answer
  BY DEF TypeOK
<1>2. ASSUME NEW status \in {"QUERY_FAILED", "NO_DATA"},
             Normalized(source) = <<Placeholder(source, status)>>
      PROVE  /\ Normalized(source) \in Seq(Item)
             /\ Len(Normalized(source)) >= 1
             /\ \A n \in 1..Len(Normalized(source)) : Normalized(source)[n].source = source
             /\ FrequentFirst(Normalized(source), Read(answer[source]))
  <2>1. /\ Placeholder(source, status) \in Item
        /\ Placeholder(source, status).source = source
        /\ Placeholder(source, status).status # "OK"
    BY DEF Placeholder, Item, EmptyItem
  <2>2. /\ Normalized(source) \in Seq(Item) /\ Len(Normalized(source)) = 1
        /\ Normalized(source)[1] = Placeholder(source, status)
    BY <1>2, <2>1
  <2>3. \A n \in 1..Len(Normalized(source)) : n = 1
    BY <2>2
  <2>4. \A cut \in 1..Len(Normalized(source)) : \A n \in 1..cut : n = 1
    BY <2>3
  <2> QED
    BY <2>1, <2>2, <2>3, <2>4 DEF FrequentFirst
<1>3. CASE a.kind # "lines" \/ Unreadable(a)
  BY <1>2, <1>3 DEF Normalized
<1>4. CASE a.kind = "lines" /\ ~Unreadable(a) /\ Read(a) = <<>>
  BY <1>2, <1>4 DEF Normalized
<1>5. CASE a.kind = "lines" /\ ~Unreadable(a) /\ Read(a) # <<>>
  <2>1. Normalized(source) = Grouped(source, Read(a))
    BY <1>5 DEF Normalized
  <2>2. Read(a) \in Seq(Signature)
    BY <1>1, <1>5, ReadIs
  <2> QED
    BY <1>5, <2>1, <2>2, GroupedIs
<1> QED
  BY <1>3, <1>4, <1>5

(***************************************************************************)
(* The bundle                                                              *)
(***************************************************************************)

(* The bundle has the items of the application first, then those of MySQL, *)
(* numbered as they stand.                                                 *)
LEMMA CollectedIs ==
  ASSUME TypeOK
  PROVE  LET app == Prefix(Normalized("application"), PerSource)
             mysql == Prefix(Normalized("mysql_lock"), PerSource)
         IN  /\ Collected \in Seq(Item)
             /\ Len(app) \in Nat /\ Len(mysql) \in Nat /\ Len(app) >= 1 /\ Len(mysql) >= 1
             /\ Len(Collected) = Len(app) + Len(mysql)
             /\ \A n \in 1..Len(Collected) :
                  Collected[n] = [(IF n <= Len(app) THEN app[n] ELSE mysql[n - Len(app)])
                                    EXCEPT !.id = n]
<1> DEFINE app == Prefix(Normalized("application"), PerSource)
           mysql == Prefix(Normalized("mysql_lock"), PerSource)
           both == app \o mysql
<1>1. app \in Seq(Item) /\ mysql \in Seq(Item) /\ Len(app) >= 1 /\ Len(mysql) >= 1
  <2>1. \A source \in Source : /\ Normalized(source) \in Seq(Item)
                               /\ Len(Normalized(source)) >= 1
    BY NormalizedIs
  <2>2. \A source \in Source : Normalized(source) # <<>>
    BY <2>1
  <2> QED
    BY <2>1, <2>2, PrefixIs DEF Source
<1>2. Collected = [n \in DOMAIN both |-> [both[n] EXCEPT !.id = n]]
  BY DEF Collected, Combined, Renumbered
<1> HIDE DEF app, mysql
<1>3. /\ both \in Seq(Item) /\ Len(both) = Len(app) + Len(mysql) /\ DOMAIN both = 1..Len(both)
      /\ \A n \in 1..Len(both) :
           both[n] = IF n <= Len(app) THEN app[n] ELSE mysql[n - Len(app)]
  BY <1>1
<1> HIDE DEF both
<1>4. \A n \in Nat, item \in Item : [item EXCEPT !.id = n] \in Item
  BY DEF Item, GroupItem, EmptyItem
<1>5. Collected \in Seq(Item) /\ Len(Collected) = Len(both)
  <2>1. \A n \in 1..Len(both) : n \in Nat /\ both[n] \in Item
    BY <1>3
  <2>2. Collected \in [1..Len(both) -> Item] /\ Len(both) \in Nat
    BY <1>2, <1>3, <1>4, <2>1
  <2> HIDE DEF Collected
  <2> QED
    BY <2>2
<1>6. \A n \in 1..Len(Collected) :
        Collected[n] = [(IF n <= Len(app) THEN app[n] ELSE mysql[n - Len(app)])
                          EXCEPT !.id = n]
  BY <1>2, <1>3, <1>5
<1> QED
  BY <1>1, <1>3, <1>5, <1>6 DEF app, mysql

SameGroup(a, b) ==
  a.source = b.source /\ a.status = b.status /\ a.signature = b.signature /\ a.count = b.count

(* What a bundle holds of a source is the first items of its query, from   *)
(* some place on.                                                          *)
HoldsOf(source, before, cut) ==
  /\ cut <= Len(Normalized(source))
  /\ \A k \in 1..cut : /\ before + k \in DOMAIN evidence
                       /\ SameGroup(evidence[before + k], Normalized(source)[k])
                       /\ evidence[before + k].source = source
  /\ \A n \in DOMAIN evidence :
       evidence[n].source = source => \E k \in 1..cut : n = before + k

LEMMA SourceIsFirst ==
  ASSUME TypeOK, CutOfCollected, InBundle, NEW source \in Source
  PROVE  \E before \in Nat, cut \in Nat : HoldsOf(source, before, cut)
<1> DEFINE N(s) == Normalized(s)
           app == Prefix(N("application"), PerSource)
           mysql == Prefix(N("mysql_lock"), PerSource)
           L == Len(evidence)
           Of(n) == IF n <= Len(app) THEN app[n] ELSE mysql[n - Len(app)]
           cutApp == IF L <= Len(app) THEN L ELSE Len(app)
           cutMysql == L - cutApp
<1>1. /\ Collected \in Seq(Item) /\ Len(app) \in Nat /\ Len(mysql) \in Nat
      /\ Len(Collected) = Len(app) + Len(mysql)
      /\ \A n \in 1..Len(Collected) : Collected[n] = [Of(n) EXCEPT !.id = n]
  BY CollectedIs
<1>2. \A s \in Source : /\ N(s) \in Seq(Item)
                        /\ \A k \in 1..Len(N(s)) : N(s)[k].source = s
  BY NormalizedIs
<1>3. /\ Len(app) <= Len(N("application")) /\ Len(mysql) <= Len(N("mysql_lock"))
      /\ \A k \in 1..Len(app) : app[k] = N("application")[k] /\ k \in 1..Len(N("application"))
      /\ \A k \in 1..Len(mysql) : mysql[k] = N("mysql_lock")[k] /\ k \in 1..Len(N("mysql_lock"))
  BY <1>2, PrefixIs DEF Source
<1> HIDE DEF N, app, mysql
<1>4. /\ L \in Nat /\ L <= Len(app) + Len(mysql) /\ DOMAIN evidence = 1..L
      /\ \A n \in 1..L : n \in 1..Len(Collected)
                         /\ evidence[n] = [Collected[n] EXCEPT !.samples = evidence[n].samples]
  <2>1. evidence \in Seq(Item)
    BY DEF TypeOK
  <2>2. L \in Nat /\ DOMAIN evidence = 1..L
    BY <2>1
  <2>3. /\ L <= Len(Collected)
        /\ \A n \in DOMAIN evidence :
             evidence[n] = [Collected[n] EXCEPT !.samples = evidence[n].samples]
    BY DEF CutOfCollected
  <2>4. \A n \in 1..L : n \in 1..Len(Collected)
    BY <1>1, <2>2, <2>3
  <2> QED
    BY <1>1, <2>2, <2>3, <2>4
<1> HIDE DEF L
<1>5. \A n \in 1..L : Of(n) \in Item
  <2> SUFFICES ASSUME NEW n \in 1..L PROVE Of(n) \in Item
    OBVIOUS
  <2>1. CASE n <= Len(app)
    <3>1. n \in 1..Len(app)
      BY <2>1, <1>1, <1>4
    <3> QED
      BY <2>1, <3>1, <1>2, <1>3 DEF Source
  <2>2. CASE ~(n <= Len(app))
    <3>1. n - Len(app) \in 1..Len(mysql)
      BY <2>2, <1>1, <1>4
    <3> QED
      BY <2>2, <3>1, <1>2, <1>3 DEF Source
  <2> QED
    BY <2>1, <2>2
<1>6. \A item \in Item : \A id, samples :
        SameGroup([[item EXCEPT !.id = id] EXCEPT !.samples = samples], item)
  BY DEF Item, GroupItem, EmptyItem, SameGroup
<1>7. \A n \in 1..L : SameGroup(evidence[n], Of(n))
  <2> SUFFICES ASSUME NEW n \in 1..L PROVE SameGroup(evidence[n], Of(n))
    OBVIOUS
  <2>1. evidence[n] = [[Of(n) EXCEPT !.id = n] EXCEPT !.samples = evidence[n].samples]
    BY <1>1, <1>4
  <2>2. Of(n) \in Item
    BY <1>5
  <2> HIDE DEF Of
  <2>3. SameGroup([[Of(n) EXCEPT !.id = n] EXCEPT !.samples = evidence[n].samples], Of(n))
    BY <1>6, <2>2
  <2> QED
    BY <2>1, <2>3, Zenon
<1>8. /\ cutApp \in Nat /\ cutApp <= Len(app) /\ cutApp <= L
      /\ cutMysql \in Nat /\ cutMysql <= Len(mysql)
      /\ cutMysql > 0 => cutApp = Len(app)
  BY <1>1, <1>4
<1>9. ASSUME NEW k \in 1..cutApp
      PROVE  k \in 1..L /\ Of(k) = N("application")[k] /\ N("application")[k].source = "application"
  <2>1. k \in 1..L /\ k \in 1..Len(app) /\ k <= Len(app)
    BY <1>1, <1>4, <1>8
  <2> QED
    BY <2>1, <1>2, <1>3 DEF Source
<1>10. ASSUME NEW k \in 1..cutMysql
       PROVE  /\ Len(app) + k \in 1..L /\ Of(Len(app) + k) = N("mysql_lock")[k]
              /\ N("mysql_lock")[k].source = "mysql_lock"
  <2>1. /\ Len(app) + k \in 1..L /\ k \in 1..Len(mysql)
        /\ ~(Len(app) + k <= Len(app)) /\ (Len(app) + k) - Len(app) = k
    BY <1>1, <1>4, <1>8
  <2> QED
    BY <2>1, <1>2, <1>3 DEF Source
<1>11. \A n \in 1..L : \/ n \in 1..cutApp
                        \/ \E k \in 1..cutMysql : n = Len(app) + k
  <2> SUFFICES ASSUME NEW n \in 1..L, n \notin 1..cutApp
               PROVE  n - Len(app) \in 1..cutMysql /\ n = Len(app) + (n - Len(app))
    OBVIOUS
  <2> QED
    BY <1>1, <1>4, <1>8
<1> HIDE DEF Of, cutApp, cutMysql
<1>12. CASE source = "application"
  <2>1. \A k \in 1..cutApp : k = 0 + k
    OBVIOUS
  <2>2. ASSUME NEW n \in 1..L, evidence[n].source = "application" PROVE n \in 1..cutApp
    <3>1. ASSUME NEW k \in 1..cutMysql, n = Len(app) + k PROVE FALSE
      <4>1. Of(n) = N("mysql_lock")[k] /\ N("mysql_lock")[k].source = "mysql_lock"
        BY <1>10, <3>1
      <4> QED
        BY <1>7, <2>2, <4>1 DEF SameGroup
    <3> QED
      BY <1>11, <3>1
  <2>3. 0 \in Nat /\ cutApp \in Nat /\ cutApp <= Len(N("application"))
    <3>1. Len(N("application")) \in Nat
      BY <1>2 DEF Source
    <3> QED
      BY <1>1, <1>3, <1>8, <3>1
  <2>4. ASSUME NEW k \in 1..cutApp
        PROVE  /\ 0 + k \in DOMAIN evidence /\ SameGroup(evidence[0 + k], N("application")[k])
               /\ evidence[0 + k].source = "application"
    <3>1. SameGroup(evidence[k], N("application")[k])
      BY <1>7, <1>9
    <3> QED
      BY <1>4, <1>9, <2>1, <3>1 DEF SameGroup
  <2>5. HoldsOf("application", 0, cutApp)
    BY <1>4, <2>1, <2>2, <2>3, <2>4 DEF HoldsOf, N
  <2> QED
    BY <1>12, <2>3, <2>5
<1>13. CASE source = "mysql_lock"
  <2>1. ASSUME NEW n \in 1..L, evidence[n].source = "mysql_lock"
        PROVE  \E k \in 1..cutMysql : n = Len(app) + k
    <3>1. ASSUME n \in 1..cutApp PROVE FALSE
      <4>1. Of(n) = N("application")[n] /\ N("application")[n].source = "application"
        BY <1>9, <3>1
      <4> QED
        BY <1>7, <2>1, <4>1 DEF SameGroup
    <3> QED
      BY <1>11, <3>1
  <2>2. cutMysql \in Nat /\ cutMysql <= Len(N("mysql_lock"))
    <3>1. Len(N("mysql_lock")) \in Nat
      BY <1>2 DEF Source
    <3> QED
      BY <1>1, <1>3, <1>8, <3>1
  <2>3. ASSUME NEW k \in 1..cutMysql
        PROVE  /\ Len(app) + k \in DOMAIN evidence
               /\ SameGroup(evidence[Len(app) + k], N("mysql_lock")[k])
               /\ evidence[Len(app) + k].source = "mysql_lock"
    <3>1. SameGroup(evidence[Len(app) + k], N("mysql_lock")[k])
      BY <1>7, <1>10
    <3> QED
      BY <1>4, <1>10, <3>1 DEF SameGroup
  <2>4. HoldsOf("mysql_lock", Len(app), cutMysql)
    BY <1>4, <2>1, <2>2, <2>3 DEF HoldsOf, N
  <2> QED
    BY <1>1, <1>13, <2>2, <2>4
<1> QED
  BY <1>12, <1>13 DEF Source

LEMMA KeptIsFrequent ==
  ASSUME TypeOK, CutOfCollected
  PROVE  FrequentKept
<1> SUFFICES ASSUME InBundle, NEW s \in Source, NEW n \in DOMAIN evidence,
                    evidence[n].source = s, evidence[n].status = "OK",
                    NEW sig \in ToSet(Read(answer[s]))
             PROVE  \/ \E m \in DOMAIN evidence :
                          evidence[m].source = s /\ evidence[m].signature = sig
                    \/ Occurrences(Read(answer[s]), sig) <= evidence[n].count
  BY DEF FrequentKept, Bundled, InBundle
<1> DEFINE N == Normalized(s)
<1>1. N \in Seq(Item) /\ FrequentFirst(N, Read(answer[s]))
  BY NormalizedIs
<1>2. PICK before \in Nat, cut \in Nat : HoldsOf(s, before, cut)
  BY SourceIsFirst
<1>3. PICK k \in 1..cut : n = before + k
  BY <1>2 DEF HoldsOf
<1>4. N[k].status = "OK" /\ N[k].count = evidence[n].count
  BY <1>2, <1>3 DEF HoldsOf, SameGroup
<1>5. cut \in 1..Len(N)
  BY <1>1, <1>2, <1>3 DEF HoldsOf
<1>6. \/ \E m \in 1..cut : N[m].signature = sig
      \/ Occurrences(Read(answer[s]), sig) <= N[k].count
  BY <1>1, <1>4, <1>5 DEF FrequentFirst
<1>7. \A m \in 1..cut : /\ before + m \in DOMAIN evidence /\ evidence[before + m].source = s
                        /\ evidence[before + m].signature = N[m].signature
  BY <1>2 DEF HoldsOf, SameGroup
<1> QED
  BY <1>4, <1>6, <1>7

(***************************************************************************)
(* The inductive invariant                                                 *)
(***************************************************************************)

LEMMA WithSamples ==
  ASSUME NEW item \in Item
  PROVE  /\ [item EXCEPT !.samples = item.samples] = item
         /\ [item EXCEPT !.samples = 0] \in Item
         /\ \A x, y : /\ [[item EXCEPT !.samples = x] EXCEPT !.samples = y] =
                           [item EXCEPT !.samples = y]
                      /\ [item EXCEPT !.samples = y].samples = y
<1> DEFINE Fields == {"source", "status", "signature", "count", "samples", "id"}
<1>1. item = [f \in Fields |-> item[f]] /\ "samples" \in Fields
  <2>1. CASE item \in GroupItem
    BY <2>1 DEF GroupItem
  <2>2. CASE item \in EmptyItem
    BY <2>2 DEF EmptyItem
  <2> QED
    BY <2>1, <2>2 DEF Item
<1>2. [item EXCEPT !.samples = 0] \in Item
  <2>1. CASE item \in GroupItem
    BY <2>1 DEF Item, GroupItem
  <2>2. CASE item \in EmptyItem
    BY <2>2 DEF Item, EmptyItem
  <2> QED
    BY <2>1, <2>2 DEF Item
<1> HIDE DEF Fields
<1>3. DOMAIN item = Fields /\ "samples" \in DOMAIN item
  BY <1>1
<1>4. [item EXCEPT !.samples = item.samples] = item
  BY <1>1, <1>3
<1>5. \A x, y : [[item EXCEPT !.samples = x] EXCEPT !.samples = y] = [item EXCEPT !.samples = y]
  BY <1>3
<1>6. \A y : [item EXCEPT !.samples = y].samples = y
  BY <1>3
<1> QED
  BY <1>2, <1>4, <1>5, <1>6

LEMMA CollectedStays ==
  ASSUME answer' = answer
  PROVE  Collected' = Collected
  BY DEF Collected, Normalized

LEMMA LogsStay ==
  ASSUME evidence' = evidence
  PROVE  LogBytes' = LogBytes
  BY DEF LogBytes

LEMMA InitInv == Init => IInv
<1> SUFFICES ASSUME Init PROVE IInv
  OBVIOUS
<1>1. Failed \in Answer
  BY DEF Answer
<1>2. answer \in [Source -> Answer]
  BY <1>1 DEF Init
<1>3. <<>> \in Seq(Item)
  OBVIOUS
<1>4. truncated \in BOOLEAN
  BY Zenon DEF Init
<1>5. TypeOK
  BY <1>2, <1>3, <1>4 DEF Init, TypeOK
<1>6. CutOfCollected /\ LogsFit
  BY DEF Init, CutOfCollected, InBundle, LogsFit, Bundled
<1> QED
  BY <1>5, <1>6 DEF IInv

LEMMA CombineStep ==
  ASSUME IInv, Combine
  PROVE  IInv'
<1>1. TypeOK /\ evidence' = Collected /\ phase' = "shrink" /\ UNCHANGED <<answer, truncated, alerts>>
  BY DEF IInv, Combine
<1>2. Collected \in Seq(Item) /\ Len(Collected) >= 1
  BY <1>1, CollectedIs
<1>3. Collected' = Collected
  BY <1>1, CollectedStays
<1>4. TypeOK'
  BY <1>1, <1>2 DEF TypeOK
<1>5. CutOfCollected'
  <2>1. \A n \in DOMAIN Collected : Collected[n] \in Item
    BY <1>2
  <2>2. \A n \in DOMAIN Collected :
          Collected[n] = [Collected[n] EXCEPT !.samples = Collected[n].samples]
    BY <2>1, WithSamples
  <2>3. Len(Collected) <= Len(Collected) /\ Collected # <<>>
    BY <1>2
  <2> QED
    BY <1>1, <1>3, <2>2, <2>3 DEF CutOfCollected
<1> QED
  BY <1>1, <1>4, <1>5 DEF IInv, LogsFit, Bundled

LEMMA DropLastStep ==
  ASSUME IInv, DropLast
  PROVE  IInv'
<1>1. /\ TypeOK /\ phase = "shrink" /\ Len(evidence) > 1 /\ evidence' = Shorter(evidence)
      /\ truncated' = TRUE /\ UNCHANGED <<phase, answer, alerts>>
  BY DEF IInv, DropLast
<1>2. evidence \in Seq(Item)
  BY <1>1 DEF TypeOK
<1>3. /\ evidence' \in Seq(Item) /\ Len(evidence') = Len(evidence) - 1
      /\ DOMAIN evidence' \subseteq DOMAIN evidence
      /\ \A n \in DOMAIN evidence' : evidence'[n] = evidence[n]
  BY <1>1, <1>2 DEF Shorter, Front
<1>4. Collected' = Collected
  BY <1>1, CollectedStays
<1>5. TypeOK'
  BY <1>1, <1>3 DEF TypeOK
<1>6. CutOfCollected'
  <2>1. /\ Len(evidence) <= Len(Collected)
        /\ \A n \in DOMAIN evidence :
             evidence[n] = [Collected[n] EXCEPT !.samples = evidence[n].samples]
    BY <1>1 DEF IInv, CutOfCollected, InBundle
  <2>2. Len(Collected) \in Nat /\ Len(evidence) \in Nat
    BY <1>1, <1>2, CollectedIs
  <2>3. evidence' # <<>> /\ Len(evidence') <= Len(Collected)
    BY <1>1, <1>2, <1>3, <2>1, <2>2
  <2> QED
    BY <1>1, <1>3, <1>4, <2>1, <2>3 DEF CutOfCollected
<1> QED
  BY <1>1, <1>5, <1>6 DEF IInv, LogsFit, Bundled

LEMMA DropSamplesStep ==
  ASSUME IInv, DropSamples
  PROVE  IInv'
<1>1. /\ TypeOK /\ phase = "shrink" /\ Len(evidence) = 1
      /\ evidence' = [evidence EXCEPT ![1].samples = 0]
      /\ truncated' = TRUE /\ phase' = "bundled" /\ UNCHANGED <<answer, alerts>>
  BY DEF IInv, DropSamples
<1>2. evidence \in Seq(Item) /\ DOMAIN evidence = 1..1 /\ evidence[1] \in Item
  <2>1. evidence \in Seq(Item)
    BY <1>1 DEF TypeOK
  <2>2. DOMAIN evidence = 1..1 /\ 1 \in 1..1
    BY <1>1, <2>1
  <2>3. evidence[1] \in Item
    BY <1>1, <2>1, <2>2, ElementOfSeq, Zenon
  <2> QED
    BY <2>1, <2>2, <2>3
<1>3. /\ evidence' \in Seq(Item) /\ Len(evidence') = 1 /\ DOMAIN evidence' = 1..1
      /\ evidence'[1] = [evidence[1] EXCEPT !.samples = 0]
  <2> DEFINE new == [evidence[1] EXCEPT !.samples = 0]
  <2>1. new \in Item
    BY <1>2, WithSamples
  <2>2. evidence' = [evidence EXCEPT ![1] = new]
    BY <1>1
  <2> HIDE DEF new
  <2>3. /\ evidence' \in Seq(Item) /\ Len(evidence') = 1
        /\ evidence'[1] = new
    <3>1. 1 \in 1..Len(evidence)
      BY <1>1
    <3>2. /\ [evidence EXCEPT ![1] = new] \in Seq(Item)
          /\ Len([evidence EXCEPT ![1] = new]) = Len(evidence)
          /\ \A j \in 1..Len(evidence) :
               [evidence EXCEPT ![1] = new][j] = IF j = 1 THEN new ELSE evidence[j]
      BY <1>2, <2>1, <3>1, ExceptSeq
    <3>3. [evidence EXCEPT ![1] = new][1] = new
      BY <3>1, <3>2, Zenon
    <3> QED
      BY <1>1, <2>2, <3>2, <3>3, Zenon
  <2>4. DOMAIN evidence' = 1..1
    BY <2>3, LenProperties, Zenon
  <2> QED
    BY <2>3, <2>4 DEF new
<1>4. Collected' = Collected
  BY <1>1, CollectedStays
<1>5. evidence'[1].samples = 0
  <2>1. [evidence[1] EXCEPT !.samples = 0].samples = 0
    BY <1>2, WithSamples
  <2> QED
    BY <1>3, <2>1, Zenon
<1>6. TypeOK'
  BY <1>1, <1>3 DEF TypeOK
<1>7. CutOfCollected'
  <2>1. /\ Len(evidence) <= Len(Collected)
        /\ evidence[1] = [Collected[1] EXCEPT !.samples = evidence[1].samples]
    BY <1>1, <1>2 DEF IInv, CutOfCollected, InBundle
  <2>2. Collected \in Seq(Item) /\ Len(Collected) \in Nat
    BY <1>1, CollectedIs
  <2>3. Collected[1] \in Item
    BY <1>1, <2>1, <2>2
  <2>4. evidence'[1] = [Collected[1] EXCEPT !.samples = evidence'[1].samples]
    <3> DEFINE x == evidence[1].samples
    <3>1. [evidence[1] EXCEPT !.samples = 0] =
            [[Collected[1] EXCEPT !.samples = x] EXCEPT !.samples = 0]
      BY <2>1
    <3> HIDE DEF x
    <3>2. [[Collected[1] EXCEPT !.samples = x] EXCEPT !.samples = 0] =
            [Collected[1] EXCEPT !.samples = 0]
      <4> DEFINE c == Collected[1]
      <4> HIDE DEF c
      <4>1. c \in Item
        BY <2>3 DEF c
      <4>2. \A y, z : [[c EXCEPT !.samples = y] EXCEPT !.samples = z] =
                        [c EXCEPT !.samples = z]
        BY <4>1, WithSamples
      <4> QED
        BY <4>2, Zenon DEF c
    <3>3. evidence'[1] = [Collected[1] EXCEPT !.samples = 0]
      BY <1>3, <3>1, <3>2, Zenon
    <3> QED
      BY <1>5, <3>3
  <2>5. Len(evidence') <= Len(Collected)
    BY <1>1, <1>3, <2>1
  <2>6. evidence' # <<>>
    <3>1. Len(<<>>) = 0 /\ 0 # 1
      OBVIOUS
    <3>2. Len(evidence') = 1
      BY <1>3, Zenon
    <3> QED
      BY <3>1, <3>2, Zenon
  <2> QED
    BY <1>1, <1>3, <1>4, <2>4, <2>5, <2>6 DEF CutOfCollected
<1> QED
  BY <1>1, <1>3, <1>5, <1>6, <1>7 DEF IInv, LogsFit

LEMMA FitsStep ==
  ASSUME IInv, Fits \/ AttachAlert
  PROVE  IInv'
<1>1. /\ TypeOK /\ CutOfCollected /\ LogsFit /\ UNCHANGED <<answer, evidence, truncated>>
      /\ InBundle /\ phase' \in {"bundled", "ready"} /\ alerts' \in 0..1
  BY DEF IInv, Fits, AttachAlert, InBundle, TypeOK
<1>2. Collected' = Collected /\ LogBytes' = LogBytes
  BY <1>1, CollectedStays, LogsStay
<1>3. TypeOK'
  BY <1>1 DEF TypeOK
<1>4. CutOfCollected'
  BY <1>1, <1>2 DEF CutOfCollected
<1>5. LogBytes \in Nat
  BY <1>1, LogBytesType DEF TypeOK
<1>6. \/ LogBytes <= MaxBytes
      \/ Len(evidence) = 1 /\ evidence[1].samples = 0
  <2>1. CASE Fits
    BY <1>5, <2>1 DEF Fits, TooLarge
  <2>2. CASE AttachAlert
    BY <1>1, <2>2 DEF AttachAlert, LogsFit, Bundled
  <2> QED
    BY <2>1, <2>2
<1> QED
  BY <1>1, <1>2, <1>3, <1>4, <1>6 DEF IInv, LogsFit

(***************************************************************************)
(* The theorems                                                            *)
(***************************************************************************)

(* Through the caps and the loop the bundle stays an initial part of what  *)
(* the queries gave, and is told whole only when it is (_combine_evidence, *)
(* _bundle in loki.py).                                                    *)
THEOREM Invariance == Spec => []IInv
<1>1. IInv /\ Next => IInv'
  <2> SUFFICES ASSUME IInv, Next PROVE IInv'
    OBVIOUS
  <2>1. CASE Query \/ Die
    BY <2>1 DEF Query, Die, IInv, TypeOK, CutOfCollected, InBundle, LogsFit, Bundled
  <2>2. CASE Fits \/ AttachAlert
    BY <2>2, FitsStep
  <2> QED
    BY <2>1, <2>2, CombineStep, DropLastStep, DropSamplesStep DEF Next
<1>2. IInv /\ UNCHANGED vars => IInv'
  <2> SUFFICES ASSUME IInv, UNCHANGED vars PROVE IInv'
    OBVIOUS
  <2>1. Collected' = Collected /\ LogBytes' = LogBytes
    BY CollectedStays, LogsStay DEF vars
  <2> QED
    BY <2>1 DEF vars, IInv, TypeOK, CutOfCollected, InBundle, LogsFit, Bundled
<1> QED
  BY <1>1, <1>2, InitInv, PTL DEF Spec

(* The ids of a bundle are L1, L2, ... whatever was dropped                *)
(* (_combine_evidence and _bundle in loki.py).                             *)
THEOREM IdsCitable == Spec => []IdsAreCitable
<1>1. IInv => IdsAreCitable
  <2> SUFFICES ASSUME IInv, InBundle
               PROVE  evidence # <<>> /\ \A n \in DOMAIN evidence : evidence[n].id = n
    BY DEF IdsAreCitable, InBundle, Bundled
  <2> DEFINE app == Prefix(Normalized("application"), PerSource)
             mysql == Prefix(Normalized("mysql_lock"), PerSource)
             Of(n) == IF n <= Len(app) THEN app[n] ELSE mysql[n - Len(app)]
  <2>1. /\ Collected \in Seq(Item) /\ Len(Collected) \in Nat
        /\ \A n \in 1..Len(Collected) : Collected[n] = [Of(n) EXCEPT !.id = n]
    <3>1. TypeOK
      BY DEF IInv
    <3> HIDE DEF app, mysql
    <3>2. /\ Collected \in Seq(Item)
          /\ \A n \in 1..Len(Collected) :
               Collected[n] = [(IF n <= Len(app) THEN app[n] ELSE mysql[n - Len(app)])
                                 EXCEPT !.id = n]
      BY <3>1, CollectedIs DEF app, mysql
    <3> QED
      BY <3>2
  <2>2. /\ evidence \in Seq(Item) /\ evidence # <<>> /\ Len(evidence) <= Len(Collected)
        /\ \A n \in DOMAIN evidence :
             evidence[n] = [Collected[n] EXCEPT !.samples = evidence[n].samples]
    BY DEF IInv, TypeOK, CutOfCollected
  <2> HIDE DEF Of
  <2>3. ASSUME NEW n \in DOMAIN evidence PROVE evidence[n].id = n
    <3>1. n \in 1..Len(Collected)
      BY <2>1, <2>2
    <3>2. Collected[n] \in Item /\ Collected[n] = [Of(n) EXCEPT !.id = n]
      BY <2>1, <3>1
    <3>3. "id" \in DOMAIN Collected[n]
      BY <3>2 DEF Item, GroupItem, EmptyItem
    <3>4. Collected[n].id = n
      BY <3>2, <3>3
    <3>5. \A item \in Item : \A x : [item EXCEPT !.samples = x].id = item.id
      BY DEF Item, GroupItem, EmptyItem
    <3>6. [Collected[n] EXCEPT !.samples = evidence[n].samples].id = n
      BY <3>2, <3>4, <3>5
    <3> QED
      BY <2>2, <3>6, Zenon
  <2> QED
    BY <2>2, <2>3
<1> QED
  BY <1>1, Invariance, PTL

(* What is dropped of a source is never more frequent than what is kept of *)
(* it (sorted, the caps of 20 and 10 and the loop in loki.py).             *)
THEOREM MostFrequentKept == Spec => []FrequentKept
<1>1. IInv => FrequentKept
  BY KeptIsFrequent DEF IInv
<1> QED
  BY <1>1, Invariance, PTL

(* The logs of a finished bundle fit MAX_EVIDENCE_BYTES, or are one item   *)
(* without samples (_bundle in loki.py).                                   *)
THEOREM BundleFits == Spec => []LogsFit
<1>1. IInv => LogsFit
  BY DEF IInv
<1> QED
  BY <1>1, Invariance, PTL

(* The half of the bundle that _combine_evidence reserves for a source is  *)
(* lost to the loop of _bundle only: what it did not cut has both sources, *)
(* and the application is never cut out (loki.py:255, :281-285).           *)
THEOREM OnlyTheLoopPushesOut ==
  Spec => [](Bundled => \A s \in Source :
               s = "application" \/ ~truncated =>
                 \E n \in DOMAIN evidence : evidence[n].source = s)
<1> DEFINE Held == Bundled => \A s \in Source :
             s = "application" \/ ~truncated =>
               \E n \in DOMAIN evidence : evidence[n].source = s
           N(s) == Normalized(s)
           app == Prefix(N("application"), PerSource)
           mysql == Prefix(N("mysql_lock"), PerSource)
<1>1. ASSUME IInv, InBundle
      PROVE  /\ \E n \in DOMAIN evidence : evidence[n].source = "application"
             /\ ~truncated => \E n \in DOMAIN evidence : evidence[n].source = "mysql_lock"
  <2>1. TypeOK /\ CutOfCollected
    BY <1>1 DEF IInv
  <2>2. /\ Collected \in Seq(Item) /\ Len(app) \in Nat /\ Len(mysql) \in Nat
        /\ Len(app) >= 1 /\ Len(mysql) >= 1 /\ Len(Collected) = Len(app) + Len(mysql)
        /\ \A n \in 1..Len(Collected) :
             Collected[n] = [(IF n <= Len(app) THEN app[n] ELSE mysql[n - Len(app)])
                               EXCEPT !.id = n]
    BY <2>1, CollectedIs
  <2>3. \A s \in Source : /\ N(s) \in Seq(Item)
                          /\ \A k \in 1..Len(N(s)) : N(s)[k].source = s
    BY <2>1, NormalizedIs
  <2>4. /\ app[1] = N("application")[1] /\ 1 \in 1..Len(N("application"))
        /\ mysql[1] = N("mysql_lock")[1] /\ 1 \in 1..Len(N("mysql_lock"))
    <3>1. \A q \in Source :
            /\ \A k \in 1..Len(Prefix(N(q), PerSource)) :
                 Prefix(N(q), PerSource)[k] = N(q)[k] /\ k \in 1..Len(N(q))
      BY <2>3, PrefixIs
    <3>2. 1 \in 1..Len(app) /\ 1 \in 1..Len(mysql)
      BY <2>2
    <3> QED
      BY <3>1, <3>2 DEF Source
  <2> HIDE DEF N, app, mysql
  <2>5. /\ app[1] \in Item /\ app[1].source = "application"
        /\ mysql[1] \in Item /\ mysql[1].source = "mysql_lock"
    BY <2>3, <2>4 DEF Source
  <2>6. \A item \in Item : \A x : /\ [item EXCEPT !.id = x].source = item.source
                                 /\ [item EXCEPT !.samples = x].source = item.source
    BY DEF Item, GroupItem, EmptyItem
  <2>7. /\ Collected[1] = [app[1] EXCEPT !.id = 1]
        /\ Collected[Len(app) + 1] = [mysql[1] EXCEPT !.id = Len(app) + 1]
        /\ 1 \in 1..Len(Collected) /\ Len(app) + 1 \in 1..Len(Collected)
    <3>1. /\ 1 \in 1..Len(Collected) /\ 1 <= Len(app)
          /\ Len(app) + 1 \in 1..Len(Collected) /\ ~(Len(app) + 1 <= Len(app))
          /\ (Len(app) + 1) - Len(app) = 1
      BY <2>2
    <3> QED
      BY <2>2, <3>1
  <2>8. Collected[1] \in Item /\ Collected[1].source = "application"
    <3>1. Collected[1] \in Item
      BY <2>2, <2>7, ElementOfSeq
    <3>2. [app[1] EXCEPT !.id = 1].source = "application"
      BY <2>5, <2>6
    <3> QED
      BY <2>7, <3>1, <3>2, Zenon
  <2>9. Collected[Len(app) + 1].source = "mysql_lock"
    BY <2>5, <2>6, <2>7
  <2>10. 1 \in DOMAIN evidence /\ evidence[1].source = "application"
    <3>1. 1 \in DOMAIN evidence
      BY <1>1, <2>1 DEF CutOfCollected, TypeOK
    <3>2. evidence[1] = [Collected[1] EXCEPT !.samples = evidence[1].samples]
      BY <1>1, <2>1, <3>1 DEF CutOfCollected
    <3>3. [Collected[1] EXCEPT !.samples = evidence[1].samples].source = "application"
      BY <2>6, <2>8
    <3> QED
      BY <3>1, <3>2, <3>3, Zenon
  <2>11. ~truncated => /\ Len(app) + 1 \in DOMAIN evidence
                       /\ evidence[Len(app) + 1].source = "mysql_lock"
    <3>1. ~truncated => evidence = Collected
      BY <1>1, <2>1 DEF CutOfCollected
    <3>2. Len(app) + 1 \in DOMAIN Collected
      BY <2>2, <2>7
    <3> QED
      BY <2>9, <3>1, <3>2
  <2> QED
    BY <2>10, <2>11
<1>2. IInv => Held
  BY <1>1 DEF Source, Bundled, InBundle
<1> QED
  BY <1>2, Invariance, PTL
================================================================================
