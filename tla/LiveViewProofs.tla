--------------------------- MODULE LiveViewProofs ---------------------------
(***************************************************************************)
(* Theorems about JobList, for any jobs, page sizes, requests and events,  *)
(* and about JobPage, for any requests, reports and events: the list shows *)
(* no job twice, and neither shows an older version of a job than it did.  *)
(*                                                                         *)
(* For the list both rest on no list having a job twice: the one shown,    *)
(* and those in the answers on their way.  For the page it is what every   *)
(* snapshot on its way knows of the document: a version that exists, and   *)
(* the last one if it says that the job is being deleted.                  *)
(***************************************************************************)
EXTENDS JobList, JobPage, FiniteSetTheorems, SequenceTheorems, TLAPS

----------------------------------------------------------------------------
(* The inductive invariant of the list *)

\* No two entries of a list are of one job.
Distinct(s) == \A i, k \in DOMAIN s : s[i].job = s[k].job => i = k

Listing == {s \in Seq(Entry) : Distinct(s)}

ListCall ==
    [kind : {"list", "older", "again"}, step : {"sent", "ok", "failed"},
     before : Jobs \cup {NoJob}, latest : BOOLEAN,
     jobs : Listing, next : Jobs \cup {NoJob}]

ListView == [jobs : Listing, next : Jobs \cup {NoJob}, error : BOOLEAN]

ListInv ==
    /\ doc \in [Jobs -> Document]
    /\ pushes \in SUBSET Entry
    /\ view \in ListView
    /\ calls \in Seq(ListCall)

----------------------------------------------------------------------------
(* Sequences *)

LEMMA FunctionIsSeq ==
    ASSUME NEW T, NEW n \in Nat, NEW f \in [1 .. n -> T]
    PROVE  f \in Seq(T) /\ Len(f) = n /\ DOMAIN f = 1 .. n
  OBVIOUS

LEMMA ItemsOf ==
    ASSUME NEW T, NEW s \in Seq(T)
    PROVE  /\ Len(s) \in Nat /\ DOMAIN s = 1 .. Len(s)
           /\ \A i \in DOMAIN s : s[i] \in T /\ i \in Int
  BY LenProperties, ElementOfSeq

\* What is left of a sequence, by its place.
LEMMA RemovedPlaces ==
    ASSUME NEW T, NEW s \in Seq(T), NEW c \in DOMAIN s
    PROVE  /\ RemoveAt(s, c) \in Seq(T) /\ Len(RemoveAt(s, c)) = Len(s) - 1
           /\ \A i \in DOMAIN RemoveAt(s, c) :
                /\ i \in 1 .. Len(s) - 1
                /\ RemoveAt(s, c)[i] = IF i < c THEN s[i] ELSE s[i + 1]
<1> DEFINE before == SubSeq(s, 1, c - 1)
           after == SubSeq(s, c + 1, Len(s))
<1>1. Len(s) \in Nat /\ DOMAIN s = 1 .. Len(s) /\ c \in 1 .. Len(s)
  BY ItemsOf
<1>2. c - 1 \in Int /\ c + 1 \in Int /\ Len(s) \in Int /\ 1 \in Int
  BY <1>1
<1>3. \A i \in 1 .. Len(s) : s[i] \in T
  BY <1>1, ItemsOf
<1>4. /\ before \in Seq(T) /\ Len(before) = c - 1
      /\ \A i \in 1 .. c - 1 : before[i] = s[i]
  <2>1. \A i \in 1 .. c - 1 : s[i] \in T
    BY <1>1, <1>3
  <2>2. Len(before) = IF 1 <= c - 1 THEN c - 1 - 1 + 1 ELSE 0
    BY <1>2, <2>1, SubSeqProperties
  <2>3. before \in Seq(T) /\ \A i \in 1 .. c - 1 - 1 + 1 : before[i] = s[1 + i - 1]
    BY <1>2, <2>1, SubSeqProperties
  <2>4. \A i \in 1 .. c - 1 : 1 + i - 1 = i
    BY <1>1
  <2>5. c - 1 - 1 + 1 = c - 1
    BY <1>1
  <2> QED
    BY <1>1, <2>2, <2>3, <2>4, <2>5
<1>5. /\ after \in Seq(T) /\ Len(after) = Len(s) - c
      /\ \A i \in 1 .. Len(s) - c : after[i] = s[c + i]
  <2>1. \A i \in c + 1 .. Len(s) : s[i] \in T
    BY <1>1, <1>3
  <2>2. Len(after) = IF c + 1 <= Len(s) THEN Len(s) - (c + 1) + 1 ELSE 0
    BY <1>2, <2>1, SubSeqProperties
  <2>3. after \in Seq(T) /\ \A i \in 1 .. Len(s) - (c + 1) + 1 : after[i] = s[c + 1 + i - 1]
    BY <1>2, <2>1, SubSeqProperties
  <2>4. \A i \in 1 .. Len(s) - c : c + 1 + i - 1 = c + i
    BY <1>1
  <2>5. Len(s) - (c + 1) + 1 = Len(s) - c
    BY <1>1
  <2> QED
    BY <1>1, <2>2, <2>3, <2>4, <2>5
<1>6. RemoveAt(s, c) = before \o after
  BY DEF RemoveAt
<1> HIDE DEF before, after
<1> DEFINE left == before \o after
<1>7. /\ left \in Seq(T) /\ Len(left) = Len(before) + Len(after)
      /\ \A i \in 1 .. Len(before) + Len(after) :
            left[i] = IF i <= Len(before) THEN before[i] ELSE after[i - Len(before)]
  BY <1>4, <1>5, ConcatProperties
<1>8. DOMAIN left = 1 .. Len(left)
  BY <1>7, ItemsOf
<1> HIDE DEF left
<1>9. ASSUME NEW i \in 1 .. Len(s) - 1
      PROVE  left[i] = IF i < c THEN s[i] ELSE s[i + 1]
  <2>1. i \in 1 .. Len(before) + Len(after) /\ i \in Int /\ Len(before) = c - 1
    BY <1>1, <1>4, <1>5
  <2>2. CASE i < c
    BY <1>1, <1>4, <1>7, <2>1, <2>2
  <2>3. CASE i >= c
    <3>1. left[i] = after[i - (c - 1)]
      BY <1>1, <1>7, <2>1, <2>3
    <3>2. i - (c - 1) \in 1 .. Len(s) - c /\ c + (i - (c - 1)) = i + 1
      BY <1>1, <2>1, <2>3
    <3>3. after[i - (c - 1)] = s[i + 1]
      BY <1>5, <3>2
    <3>4. ~(i < c)
      BY <1>1, <2>1, <2>3
    <3> QED
      BY <3>1, <3>3, <3>4
  <2> QED
    BY <1>1, <2>1, <2>2, <2>3
<1>10. Len(left) = Len(s) - 1
  BY <1>1, <1>4, <1>5, <1>7
<1>11. RemoveAt(s, c) = left
  BY <1>6 DEF left
<1> QED
  BY <1>7, <1>8, <1>9, <1>10, <1>11

LEMMA Removed ==
    ASSUME NEW T, NEW s \in Seq(T), NEW c \in DOMAIN s
    PROVE  /\ RemoveAt(s, c) \in Seq(T)
           /\ \A i \in DOMAIN RemoveAt(s, c) : \E k \in DOMAIN s : RemoveAt(s, c)[i] = s[k]
<1> DEFINE left == RemoveAt(s, c)
<1>1. /\ Len(s) \in Nat /\ DOMAIN s = 1 .. Len(s) /\ left \in Seq(T) /\ c \in Int
      /\ \A i \in DOMAIN left :
           i \in 1 .. Len(s) - 1 /\ left[i] = IF i < c THEN s[i] ELSE s[i + 1]
  BY ItemsOf, RemovedPlaces
<1> HIDE DEF left
<1>2. \A i \in 1 .. Len(s) - 1 : i \in 1 .. Len(s) /\ i + 1 \in 1 .. Len(s)
  BY <1>1
<1>3. \A i \in DOMAIN left : \E k \in DOMAIN s : left[i] = s[k]
  BY <1>1, <1>2
<1> QED
  BY <1>1, <1>3 DEF left

LEMMA Joined ==
    ASSUME NEW T, NEW s \in Seq(T), NEW x \in T
    PROVE  /\ Append(s, x) \in Seq(T)
           /\ DOMAIN Append(s, x) = 1 .. Len(s) + 1
           /\ \A i \in 1 .. Len(s) : Append(s, x)[i] = s[i]
           /\ Append(s, x)[Len(s) + 1] = x
  BY AppendProperties

----------------------------------------------------------------------------
(* The n-th smallest *)

\* Counting the smaller ones numbers a finite set.
LEMMA NthFound ==
    ASSUME NEW S \in SUBSET Int, IsFiniteSet(S), NEW n \in 1 .. Cardinality(S)
    PROVE  /\ Nth(S, n) \in S
           /\ Cardinality({h \in S : h < Nth(S, n)}) = n - 1
<1> DEFINE below == [i \in S |-> {h \in S : h < i}]
           size == Cardinality(S)
           rank == [i \in S |-> Cardinality(below[i])]
           T == 0 .. size - 1
<1>1. size \in Nat
  BY FS_CardinalityType
<1>2. \A i \in S : IsFiniteSet(below[i]) /\ rank[i] \in T
  <2> TAKE i \in S
  <2>1. below[i] \subseteq S /\ i \notin below[i] /\ below[i] # S
    OBVIOUS
  <2> HIDE DEF below
  <2>2. /\ IsFiniteSet(below[i]) /\ Cardinality(below[i]) <= size
        /\ (size = Cardinality(below[i]) => S = below[i])
    BY <2>1, FS_Subset
  <2>3. Cardinality(below[i]) \in Nat
    BY <2>2, FS_CardinalityType
  <2> QED
    BY <1>1, <2>1, <2>2, <2>3
<1>3. ASSUME NEW i \in S, NEW k \in S, i < k PROVE rank[i] < rank[k]
  <2>1. below[i] \cup {i} \subseteq below[k] /\ i \notin below[i]
    <3>1. i \in Int /\ k \in Int /\ \A h \in S : h \in Int
      OBVIOUS
    <3> HIDE DEF below, rank
    <3>2. ASSUME NEW h \in S, h < i \/ h = i PROVE h < k
      BY <1>3, <3>1, <3>2
    <3>3. below[i] = {h \in S : h < i} /\ below[k] = {h \in S : h < k}
      BY DEF below
    <3>4. ~(i < i)
      BY <3>1
    <3>5. i \in below[k]
      BY <1>3, <3>3
    <3>6. below[i] \subseteq below[k]
      BY <3>2, <3>3
    <3>7. i \notin below[i]
      BY <3>3, <3>4
    <3> QED
      BY <3>5, <3>6, <3>7
  <2> HIDE DEF below
  <2>2. Cardinality(below[i] \cup {i}) = Cardinality(below[i]) + 1
    BY <1>2, <2>1, FS_AddElement
  <2>3. Cardinality(below[i] \cup {i}) <= Cardinality(below[k])
    BY <1>2, <2>1, FS_Subset
  <2>4. Cardinality(below[i]) \in Nat /\ Cardinality(below[k]) \in Nat
    BY <1>2, FS_CardinalityType
  <2> QED
    BY <2>2, <2>3, <2>4
<1>4. rank \in [S -> T]
  BY <1>2
<1> HIDE DEF rank, below
<1>5. rank \in Injection(S, T)
  <2>1. \A i, k \in S : i < k \/ k < i \/ i = k
    OBVIOUS
  <2>2. \A i \in S : rank[i] \in Int
    BY <1>4
  <2>3. \A i, k \in S : rank[i] = rank[k] => i = k
    BY <1>3, <2>1, <2>2
  <2> QED
    BY <1>4, <2>3 DEF Injection, IsInjective
<1>6. IsFiniteSet(T) /\ Cardinality(T) = size
  <2>1. 0 \in Int /\ size - 1 \in Int
    BY <1>1
  <2> HIDE DEF size
  <2>2. IsFiniteSet(0 .. size - 1)
        /\ Cardinality(0 .. size - 1) = IF 0 > size - 1 THEN 0 ELSE size - 1 - 0 + 1
    BY <2>1, FS_Interval
  <2> QED
    BY <1>1, <2>2
<1>7. rank \in Surjection(S, T)
  BY <1>5, <1>6, FS_Injection
<1>8. n - 1 \in T
  BY <1>1
<1>9. \E i \in S : rank[i] = n - 1
  BY <1>7, <1>8 DEF Surjection
<1>10. \E i \in S : Cardinality({h \in S : h < i}) = n - 1
  BY <1>9 DEF rank, below
<1> QED
  BY <1>10 DEF Nth

\* No two numbers name one member.
LEMMA NthDistinct ==
    ASSUME NEW S \in SUBSET Int, IsFiniteSet(S),
           NEW n \in 1 .. Cardinality(S), NEW m \in 1 .. Cardinality(S),
           Nth(S, n) = Nth(S, m)
    PROVE  n = m
<1>1. /\ Cardinality({h \in S : h < Nth(S, n)}) = n - 1
      /\ Cardinality({h \in S : h < Nth(S, m)}) = m - 1
  BY NthFound
<1> QED
  BY <1>1

----------------------------------------------------------------------------
(* Answers and events of the list *)

LEMMA ListedJobs ==
    ASSUME NEW before
    PROVE  /\ Listed(before) \in SUBSET Jobs /\ Listed(before) \in SUBSET Int
           /\ IsFiniteSet(Listed(before)) /\ Cardinality(Listed(before)) \in Nat
<1>1. Listed(before) \subseteq Jobs
  BY DEF Listed
<1>2. MaxJobs \in Int /\ 1 \in Int
  BY ListAssumption
<1>3. IsFiniteSet(1 .. MaxJobs)
  BY <1>2, FS_Interval
<1>4. IsFiniteSet(Listed(before))
  BY <1>1, <1>3, FS_Subset DEF Jobs
<1> QED
  BY <1>1, <1>2, <1>4, FS_CardinalityType DEF Jobs

\* A page has no job twice.
LEMMA PageSound ==
    ASSUME doc \in [Jobs -> Document], NEW before
    PROVE  /\ Page(before).jobs \in Seq(Entry) /\ Distinct(Page(before).jobs)
           /\ Page(before).next \in Jobs \cup {NoJob}
<1> DEFINE all == Listed(before)
           count == Cardinality(all)
           size == IF count > PageSize THEN PageSize ELSE count
           place(n) == Nth(all, count + 1 - n)
           entries == [n \in 1 .. size |-> EntryIn(doc, place(n))]
<1>1. Page(before).jobs = entries
  BY DEF Page
<1>2. Page(before).next = IF count > PageSize THEN place(PageSize) ELSE NoJob
  BY DEF Page
<1>3. all \in SUBSET Jobs /\ all \in SUBSET Int /\ IsFiniteSet(all) /\ count \in Nat
  BY ListedJobs
<1> HIDE DEF all
<1>4. PageSize \in Nat /\ PageSize > 0
  BY ListAssumption
<1>5. size \in Nat /\ size <= count
  BY <1>3, <1>4
<1>6. ASSUME NEW n \in 1 .. size PROVE place(n) \in Jobs
  <2>1. count + 1 - n \in 1 .. count
    BY <1>3, <1>5
  <2> QED
    BY <1>3, <2>1, NthFound
<1>7. ASSUME NEW n \in 1 .. size, NEW m \in 1 .. size, place(n) = place(m) PROVE n = m
  <2>1. count + 1 - n \in 1 .. count /\ count + 1 - m \in 1 .. count
    BY <1>3, <1>5
  <2>2. count + 1 - n = count + 1 - m
    BY <1>3, <1>7, <2>1, NthDistinct
  <2> QED
    BY <1>3, <1>5, <2>2
<1>8. count > PageSize => place(PageSize) \in Jobs
  <2>1. count > PageSize => count + 1 - PageSize \in 1 .. count
    BY <1>3, <1>4
  <2> QED
    BY <1>3, <2>1, NthFound
<1> HIDE DEF size, count, place
<1>9. \A n \in 1 .. size : entries[n] \in Entry /\ entries[n].job = place(n)
  BY <1>6 DEF EntryIn, Entry, Document
<1>10. entries \in [1 .. size -> Entry]
  BY <1>9
<1> HIDE DEF entries
<1>11. entries \in Seq(Entry) /\ DOMAIN entries = 1 .. size
  BY <1>5, <1>10, FunctionIsSeq
<1>12. Distinct(entries)
  BY <1>7, <1>9, <1>11 DEF Distinct
<1> QED
  BY <1>1, <1>2, <1>8, <1>11, <1>12

\* What is shown of a job is the only entry it has.
LEMMA ShownIs ==
    ASSUME NEW s, Distinct(s), NEW i \in DOMAIN s
    PROVE  s[i].job \in Ids(s) /\ Shown(s, s[i].job) = s[i]
  BY DEF Distinct, Ids, Shown

LEMMA ShownFound ==
    ASSUME NEW s, NEW j \in Ids(s)
    PROVE  \E i \in DOMAIN s : s[i].job = j /\ Shown(s, j) = s[i]
  BY DEF Ids, Shown

\* The second list shows nothing older than the first.
Ahead(old, new) ==
    \A j \in Ids(old) \cap Ids(new) : Shown(new, j).version >= Shown(old, j).version

LEMMA AheadOfItself ==
    ASSUME NEW s \in Seq(Entry)
    PROVE  Ahead(s, s)
<1> SUFFICES ASSUME NEW j \in Ids(s) PROVE Shown(s, j).version >= Shown(s, j).version
  BY DEF Ahead
<1>1. PICK i \in DOMAIN s : Shown(s, j) = s[i]
  BY ShownFound
<1>2. s[i] \in Entry
  BY ItemsOf
<1>3. Shown(s, j).version \in Nat
  BY <1>1, <1>2 DEF Entry
<1> QED
  BY <1>3

LEMMA MergedSound ==
    ASSUME NEW shown \in Seq(Entry), Distinct(shown), NEW answer \in Seq(Entry), Distinct(answer)
    PROVE  /\ Merged(shown, answer) \in Seq(Entry) /\ Distinct(Merged(shown, answer))
           /\ Ahead(shown, Merged(shown, answer))
<1> DEFINE new == Merged(shown, answer)
           stays(i) == /\ answer[i].job \in Ids(shown)
                       /\ Shown(shown, answer[i].job).version >= answer[i].version
<1>1. /\ DOMAIN new = DOMAIN answer
      /\ \A i \in DOMAIN answer :
           new[i] = IF stays(i) THEN Shown(shown, answer[i].job) ELSE answer[i]
  BY DEF Merged
<1>2. \A j \in Ids(shown) : Shown(shown, j) \in Entry /\ Shown(shown, j).job = j
  BY ShownFound, ItemsOf
<1>3. \A i \in DOMAIN answer : new[i] \in Entry /\ new[i].job = answer[i].job
  BY <1>1, <1>2, ItemsOf
<1>4. new \in Seq(Entry)
  <2>1. Len(answer) \in Nat /\ DOMAIN answer = 1 .. Len(answer)
    BY ItemsOf
  <2>2. new \in [1 .. Len(answer) -> Entry]
    BY <1>1, <1>3, <2>1 DEF Merged
  <2> QED
    BY <2>1, <2>2, FunctionIsSeq
<1>5. Distinct(new)
  BY <1>1, <1>3 DEF Distinct
<1>6. ASSUME NEW j \in Ids(shown) \cap Ids(new)
      PROVE  Shown(new, j).version >= Shown(shown, j).version
  <2>1. PICK i \in DOMAIN new : new[i].job = j /\ Shown(new, j) = new[i]
    BY <1>6, ShownFound
  <2>2. i \in DOMAIN answer /\ answer[i].job = j
    BY <1>1, <1>3, <2>1
  <2>3. new[i] = IF stays(i) THEN Shown(shown, j) ELSE answer[i]
    BY <1>1, <2>2
  <2>4. Shown(shown, j).version \in Nat /\ answer[i].version \in Nat
    <3>1. Shown(shown, j) \in Entry /\ answer[i] \in Entry
      BY <1>2, <1>6, <2>2, ItemsOf
    <3> QED
      BY <3>1 DEF Entry
  <2>5. stays(i) <=> Shown(shown, j).version >= answer[i].version
    BY <1>6, <2>2
  <2> QED
    BY <2>1, <2>3, <2>4, <2>5
<1> QED
  BY <1>4, <1>5, <1>6 DEF Ahead

\* A list in which some entries are replaced by ones at least as new.
LEMMA ReplacedSound ==
    ASSUME NEW s \in Seq(Entry), Distinct(s), NEW t \in Seq(Entry), DOMAIN t = DOMAIN s,
           \A i \in DOMAIN s : t[i].job = s[i].job /\ t[i].version >= s[i].version
    PROVE  Distinct(t) /\ Ahead(s, t)
<1>1. Distinct(t)
  BY DEF Distinct
<1>2. ASSUME NEW j \in Ids(s) \cap Ids(t) PROVE Shown(t, j).version >= Shown(s, j).version
  <2>1. PICK i \in DOMAIN s : s[i].job = j /\ Shown(s, j) = s[i]
    BY <1>2, ShownFound
  <2>2. t[i].job = j
    BY <2>1
  <2>3. Shown(t, j) = t[i]
    BY <1>1, <2>2, ShownIs
  <2> QED
    BY <2>1, <2>3
<1> QED
  BY <1>1, <1>2 DEF Ahead

\* Two lists without a job in common, one after the other.
LEMMA JoinedSound ==
    ASSUME NEW s \in Seq(Entry), Distinct(s), NEW t \in Seq(Entry), Distinct(t),
           \A i \in DOMAIN s : \A k \in DOMAIN t : s[i].job # t[k].job
    PROVE  /\ s \o t \in Seq(Entry) /\ Distinct(s \o t)
           /\ Ahead(s, s \o t) /\ Ahead(t, s \o t)
<1> DEFINE both == s \o t
           m == Len(s)
           n == Len(t)
<1>1. m \in Nat /\ n \in Nat /\ DOMAIN s = 1 .. m /\ DOMAIN t = 1 .. n
  BY ItemsOf
<1>2. /\ both \in Seq(Entry) /\ Len(both) = m + n
      /\ \A i \in 1 .. m + n : both[i] = IF i <= m THEN s[i] ELSE t[i - m]
  BY ConcatProperties
<1>3. DOMAIN both = 1 .. m + n
  BY <1>2, ItemsOf
<1> HIDE DEF both, m, n
<1>4. \A i \in 1 .. m : i \in DOMAIN both /\ both[i] = s[i]
  BY <1>1, <1>2, <1>3
<1>5. \A i \in 1 .. n : m + i \in DOMAIN both /\ both[m + i] = t[i]
  <2> TAKE i \in 1 .. n
  <2> DEFINE h == m + i
  <2>1. h \in 1 .. m + n /\ ~(h <= m) /\ h - m = i
    BY <1>1
  <2> HIDE DEF h
  <2>2. both[h] = IF h <= m THEN s[h] ELSE t[h - m]
    BY <1>2, <2>1
  <2>3. h \in DOMAIN both /\ both[h] = t[i]
    BY <1>3, <2>1, <2>2
  <2> QED
    BY <2>3 DEF h
<1>6. ASSUME NEW i \in DOMAIN both
      PROVE  \/ i \in DOMAIN s /\ both[i] = s[i]
             \/ i - m \in DOMAIN t /\ both[i] = t[i - m]
  <2>1. i \in Int /\ (i <= m => i \in 1 .. m) /\ (~(i <= m) => i - m \in 1 .. n)
    BY <1>1, <1>3
  <2> QED
    BY <1>1, <1>2, <1>3, <2>1
<1>7. ASSUME NEW i \in DOMAIN both, NEW k \in DOMAIN both, both[i].job = both[k].job
      PROVE  i = k
  <2>1. i \in Int /\ k \in Int
    BY <1>1, <1>3
  <2>2. CASE i \in DOMAIN s /\ both[i] = s[i]
    <3>1. k \in DOMAIN s /\ both[k] = s[k]
      BY <1>6, <1>7, <2>2
    <3> QED
      BY <1>7, <2>2, <3>1 DEF Distinct
  <2>3. CASE i - m \in DOMAIN t /\ both[i] = t[i - m]
    <3>1. k - m \in DOMAIN t /\ both[k] = t[k - m]
      BY <1>6, <1>7, <2>3
    <3>2. i - m = k - m
      BY <1>7, <2>3, <3>1 DEF Distinct
    <3> QED
      BY <1>1, <2>1, <3>2
  <2> QED
    BY <1>6, <2>2, <2>3
<1>8. Distinct(both)
  BY <1>7 DEF Distinct
<1>9. ASSUME NEW j \in Ids(s) PROVE Shown(both, j) = Shown(s, j) /\ Shown(s, j).version \in Nat
  <2>1. PICK i \in DOMAIN s : s[i].job = j /\ Shown(s, j) = s[i]
    BY ShownFound
  <2>2. i \in DOMAIN both /\ both[i] = s[i]
    BY <1>1, <1>4
  <2>3. s[i] \in Entry
    BY ItemsOf
  <2>4. Shown(both, both[i].job) = both[i]
    BY <1>8, <2>2, ShownIs
  <2> QED
    BY <2>1, <2>2, <2>3, <2>4 DEF Entry
<1>10. ASSUME NEW j \in Ids(t) PROVE Shown(both, j) = Shown(t, j) /\ Shown(t, j).version \in Nat
  <2>1. PICK i \in DOMAIN t : t[i].job = j /\ Shown(t, j) = t[i]
    BY ShownFound
  <2>2. m + i \in DOMAIN both /\ both[m + i] = t[i]
    BY <1>1, <1>5
  <2>3. t[i] \in Entry
    BY ItemsOf
  <2>4. Shown(both, both[m + i].job) = both[m + i]
    BY <1>8, <2>2, ShownIs
  <2> QED
    BY <2>1, <2>2, <2>3, <2>4 DEF Entry
<1>11. \A v \in Nat : v >= v
  OBVIOUS
<1>12. Ahead(s, both)
  BY <1>9, <1>11 DEF Ahead
<1>13. Ahead(t, both)
  BY <1>10, <1>11 DEF Ahead
<1> QED
  BY <1>2, <1>8, <1>12, <1>13 DEF both

LEMMA PushedSound ==
    ASSUME NEW shown \in Seq(Entry), Distinct(shown), NEW e \in Entry
    PROVE  /\ Pushed(shown, e) \in Seq(Entry) /\ Distinct(Pushed(shown, e))
           /\ Ahead(shown, Pushed(shown, e))
<1>1. CASE e.job \in Ids(shown)
  <2> DEFINE new == [i \in DOMAIN shown |->
                       IF shown[i].job = e.job /\ e.version >= shown[i].version
                       THEN e ELSE shown[i]]
  <2>1. Pushed(shown, e) = new
    BY <1>1 DEF Pushed
  <2>2. ASSUME NEW i \in DOMAIN shown
        PROVE  new[i] \in Entry /\ new[i].job = shown[i].job /\ new[i].version >= shown[i].version
    <3>1. shown[i] \in Entry
      BY ItemsOf
    <3>2. shown[i].version \in Nat
      BY <3>1 DEF Entry
    <3>3. shown[i].version >= shown[i].version
      BY <3>2
    <3> QED
      BY <3>1, <3>3
  <2>3. Len(shown) \in Nat /\ DOMAIN shown = 1 .. Len(shown)
    BY ItemsOf
  <2>4. new \in [1 .. Len(shown) -> Entry]
    BY <2>2, <2>3
  <2>5. DOMAIN new = DOMAIN shown
    OBVIOUS
  <2> HIDE DEF new
  <2>6. new \in Seq(Entry)
    BY <2>3, <2>4, FunctionIsSeq
  <2>7. Distinct(new) /\ Ahead(shown, new)
    BY <2>2, <2>5, <2>6, ReplacedSound
  <2> QED
    BY <2>1, <2>6, <2>7
<1>2. CASE e.job \notin Ids(shown)
  <2> DEFINE top == <<e>>
  <2>1. top \in Seq(Entry) /\ DOMAIN top = {1} /\ top[1] = e
    OBVIOUS
  <2>2. Pushed(shown, e) = top \o shown
    BY <1>2 DEF Pushed
  <2> HIDE DEF top
  <2>3. Distinct(top)
    BY <2>1 DEF Distinct
  <2>4. \A i \in DOMAIN top : \A k \in DOMAIN shown : top[i].job # shown[k].job
    BY <1>2, <2>1 DEF Ids
  <2> QED
    BY <2>1, <2>2, <2>3, <2>4, JoinedSound
<1> QED
  BY <1>1, <1>2

LEMMA ExtendedSound ==
    ASSUME NEW shown \in Seq(Entry), Distinct(shown), NEW answer \in Seq(Entry), Distinct(answer)
    PROVE  /\ Extended(shown, answer) \in Seq(Entry) /\ Distinct(Extended(shown, answer))
           /\ Ahead(shown, Extended(shown, answer))
<1> DEFINE more == {i \in DOMAIN answer : answer[i].job \notin Ids(shown)}
           count == Cardinality(more)
           new == [n \in 1 .. count |-> answer[Nth(more, n)]]
<1>1. Extended(shown, answer) = shown \o new
  BY DEF Extended
<1>2. Len(answer) \in Nat /\ DOMAIN answer = 1 .. Len(answer)
  BY ItemsOf
<1>3. more \in SUBSET Int /\ more \subseteq 1 .. Len(answer)
  BY <1>2
<1>4. IsFiniteSet(more) /\ count \in Nat
  <2>1. 1 \in Int /\ Len(answer) \in Int
    BY <1>2
  <2>2. IsFiniteSet(1 .. Len(answer))
    BY <2>1, FS_Interval
  <2> HIDE DEF more
  <2> QED
    BY <1>3, <2>2, FS_Subset, FS_CardinalityType
<1> HIDE DEF more
<1>5. \A n \in 1 .. count : Nth(more, n) \in more
  BY <1>3, <1>4, NthFound
<1>6. \A n, m \in 1 .. count : Nth(more, n) = Nth(more, m) => n = m
  BY <1>3, <1>4, NthDistinct
<1> HIDE DEF count
<1>7. \A i \in more : answer[i] \in Entry /\ answer[i].job \notin Ids(shown) /\ i \in DOMAIN answer
  BY ItemsOf DEF more
<1>8. \A n \in 1 .. count : new[n] = answer[Nth(more, n)]
  OBVIOUS
<1>9. new \in [1 .. count -> Entry]
  BY <1>5, <1>7
<1> HIDE DEF new
<1>10. new \in Seq(Entry) /\ DOMAIN new = 1 .. count
  BY <1>4, <1>9, FunctionIsSeq
<1>11. Distinct(new)
  <2> SUFFICES ASSUME NEW n \in 1 .. count, NEW m \in 1 .. count, new[n].job = new[m].job
               PROVE  n = m
    BY <1>10 DEF Distinct
  <2>1. Nth(more, n) = Nth(more, m)
    BY <1>5, <1>7, <1>8 DEF Distinct
  <2> QED
    BY <1>6, <2>1
<1>12. \A i \in DOMAIN shown : \A n \in DOMAIN new : shown[i].job # new[n].job
  BY <1>5, <1>7, <1>8, <1>10 DEF Ids
<1> QED
  BY <1>1, <1>10, <1>11, <1>12, JoinedSound

----------------------------------------------------------------------------
(* Steps of the list *)

\* A list without a job twice has as many jobs as entries.
LEMMA DistinctCounted ==
    ASSUME NEW s \in Seq(Entry), Distinct(s)
    PROVE  Cardinality(Ids(s)) = Len(s)
<1> DEFINE D == 1 .. Len(s)
           name == [i \in D |-> s[i].job]
<1>1. Len(s) \in Nat /\ DOMAIN s = D
  BY ItemsOf
<1>2. IsFiniteSet(D) /\ Cardinality(D) = Len(s)
  <2>1. 1 \in Int /\ Len(s) \in Int
    BY <1>1
  <2>2. Cardinality(D) = IF 1 > Len(s) THEN 0 ELSE Len(s) - 1 + 1
    BY <2>1, FS_Interval
  <2> QED
    BY <1>1, <2>1, <2>2, FS_Interval, SMTT(30)
<1>3. name \in [D -> Ids(s)]
  BY <1>1 DEF Ids
<1>4. \A i, k \in D : name[i] = name[k] => i = k
  BY <1>1 DEF Distinct
<1>5. \A j \in Ids(s) : \E i \in D : name[i] = j
  BY <1>1 DEF Ids
<1> HIDE DEF name, D
<1>6. name \in Bijection(D, Ids(s))
  BY <1>3, <1>4, <1>5 DEF Bijection, Injection, Surjection, IsInjective
<1>7. ExistsBijection(D, Ids(s))
  BY <1>6 DEF ExistsBijection
<1> QED
  BY <1>2, <1>7, FS_Bijection

LEMMA NoneListed == <<>> \in Listing
<1>1. <<>> \in Seq(Entry) /\ DOMAIN <<>> = {}
  OBVIOUS
<1> QED
  BY <1>1 DEF Listing, Distinct

LEMMA NewListCall ==
    ASSUME NEW kind \in {"list", "older", "again"}, NEW before \in Jobs \cup {NoJob}
    PROVE  New(kind, before) \in ListCall
<1>1. (kind = "list") \in BOOLEAN
  OBVIOUS
<1> QED
  BY <1>1, NoneListed DEF New, ListCall

LEMMA CallTypes ==
    ASSUME ListInv, NEW c \in DOMAIN calls
    PROVE  calls[c] \in ListCall
  BY ItemsOf DEF ListInv

\* What a request is replaced by.
LEMMA CallReplaced ==
    ASSUME ListInv, NEW c \in DOMAIN calls, NEW call \in ListCall
    PROVE  [calls EXCEPT ![c] = call] \in Seq(ListCall)
<1>1. c \in 1 .. Len(calls)
  BY ItemsOf DEF ListInv
<1> QED
  BY <1>1, ExceptSeq DEF ListInv

\* The view after an answer, which is not older but for the Retry button.
LEMMA AnsweredSound ==
    ASSUME ListInv, NEW call \in ListCall
    PROVE  /\ Answered(call) \in ListView
           /\ \/ call.kind = "again" /\ call.step = "ok"
              \/ Ahead(view.jobs, Answered(call).jobs)
<1> DEFINE shows(jobs) == [view EXCEPT !.jobs = jobs, !.next = call.next]
<1>1. /\ view \in ListView /\ view.jobs \in Seq(Entry) /\ Distinct(view.jobs)
      /\ call.jobs \in Listing /\ call.jobs \in Seq(Entry) /\ Distinct(call.jobs)
      /\ call.next \in Jobs \cup {NoJob}
  BY DEF ListInv, ListView, ListCall, Listing
<1>2. /\ Merged(view.jobs, call.jobs) \in Listing
      /\ Ahead(view.jobs, Merged(view.jobs, call.jobs))
  BY <1>1, MergedSound DEF Listing
<1>3. /\ Extended(view.jobs, call.jobs) \in Listing
      /\ Ahead(view.jobs, Extended(view.jobs, call.jobs))
  BY <1>1, ExtendedSound DEF Listing
<1>4. Ahead(view.jobs, view.jobs)
  BY <1>1, AheadOfItself
<1>5. ASSUME NEW jobs \in Listing
      PROVE  shows(jobs) \in ListView /\ shows(jobs).jobs = jobs
  BY <1>1 DEF ListView
<1>6. /\ [view EXCEPT !.error = TRUE] \in ListView
      /\ [view EXCEPT !.error = TRUE].jobs = view.jobs
  BY <1>1 DEF ListView
<1>7. CASE Counts(call) /\ call.step = "ok"
  <2>1. Answered(call) = shows(Merged(view.jobs, call.jobs))
    BY <1>7 DEF Answered, Counts
  <2> HIDE DEF shows
  <2> QED
    BY <1>2, <1>5, <2>1
<1>8. CASE Counts(call) /\ call.step = "failed"
  <2>1. Answered(call) = [view EXCEPT !.error = TRUE]
    BY <1>8 DEF Answered
  <2> QED
    BY <1>4, <1>6, <2>1
<1>9. CASE call.kind = "again" /\ call.step = "ok"
  <2>1. Answered(call) = shows(call.jobs)
    BY <1>9 DEF Answered, Counts
  <2> HIDE DEF shows
  <2> QED
    BY <1>1, <1>5, <1>9, <2>1
<1>10. CASE call.kind = "older" /\ call.step = "ok"
  <2>1. Answered(call) = shows(Extended(view.jobs, call.jobs))
    BY <1>10 DEF Answered, Counts
  <2> HIDE DEF shows
  <2> QED
    BY <1>3, <1>5, <2>1
<1>11. CASE ~(\/ Counts(call) /\ call.step \in {"ok", "failed"}
              \/ call.kind \in {"again", "older"} /\ call.step = "ok")
  <2>1. Answered(call) = view
    BY <1>11 DEF Answered
  <2> QED
    BY <1>1, <1>4, <2>1
<1> QED
  BY <1>7, <1>8, <1>9, <1>10, <1>11

LEMMA ListInit == Init => ListInv
<1> SUFFICES ASSUME Init PROVE ListInv
  OBVIOUS
<1>1. doc \in [Jobs -> Document]
  BY DEF Init, Document, Cleanups
<1>2. view \in ListView
  BY NoneListed DEF Init, ListView
<1>3. New("list", NoJob) \in ListCall
  BY NewListCall
<1>4. calls \in Seq(ListCall)
  BY <1>3 DEF Init
<1> QED
  BY <1>1, <1>2, <1>4 DEF Init, ListInv

\* Sending a request.
LEMMA SendStep ==
    ASSUME ListInv, NEW kind \in {"list", "older", "again"}, NEW before \in Jobs \cup {NoJob},
           calls' = Append(calls, New(kind, before)), view' \in ListView,
           doc' = doc, pushes' \in SUBSET pushes
    PROVE  ListInv'
  BY NewListCall, Joined DEF ListInv

LEMMA LoadStep ==
    ASSUME ListInv, StartLoad, doc' = doc, pushes' \in SUBSET pushes
    PROVE  ListInv' /\ view'.jobs = view.jobs
<1> DEFINE others == [c \in DOMAIN calls |-> [calls[c] EXCEPT !.latest = FALSE]]
<1>1. Len(calls) \in Nat /\ DOMAIN calls = 1 .. Len(calls)
  BY ItemsOf DEF ListInv
<1>2. \A c \in DOMAIN calls : [calls[c] EXCEPT !.latest = FALSE] \in ListCall
  BY CallTypes DEF ListCall
<1>3. others \in [1 .. Len(calls) -> ListCall]
  BY <1>1, <1>2
<1>4. others \in Seq(ListCall)
  BY <1>1, <1>3, FunctionIsSeq
<1>5. calls' = Append(others, New("list", NoJob)) /\ view' = [view EXCEPT !.error = FALSE]
  BY DEF StartLoad
<1> HIDE DEF others
<1>6. calls' \in Seq(ListCall)
  BY <1>4, <1>5, NewListCall, Joined
<1>7. view' \in ListView /\ view'.jobs = view.jobs
  BY <1>5 DEF ListInv, ListView
<1> QED
  BY <1>6, <1>7 DEF ListInv

\* A job gets another document, and something is sent or not.
LEMMA DocumentStep ==
    ASSUME ListInv, NEW j \in Jobs, NEW new \in Document,
           doc' = [doc EXCEPT ![j] = new], UNCHANGED <<view, calls>>,
           pushes' = pushes \/ Emit(EntryIn(doc, j)) \/ Emit(EntryIn(doc', j))
    PROVE  ListInv'
<1>1. doc' \in [Jobs -> Document]
  BY DEF ListInv
<1>2. EntryIn(doc, j) \in Entry /\ EntryIn(doc', j) \in Entry
  BY <1>1 DEF EntryIn, Entry, Document, ListInv
<1>3. pushes' \in SUBSET Entry
  BY <1>2 DEF Emit, ListInv
<1> QED
  BY <1>1, <1>3 DEF ListInv

\* The versions, cleanups and ends of the jobs.
LEMMA JobStep ==
    ASSUME ListInv, NEW j \in Jobs,
           Change(j) \/ DeleteAgain(j) \/ GiveUp(j) \/ Erase(j) \/ Submit(j)
    PROVE  ListInv'
<1>1. doc[j] \in Document /\ doc[j].version + 1 \in Nat
  BY DEF ListInv, Document
<1>2. {"none", "pending", "failed"} = Cleanups
  BY DEF Cleanups
<1>3. CASE Change(j)
  <2>1. /\ Emit(EntryIn(doc', j)) /\ UNCHANGED <<view, calls>>
        /\ \E cleanup \in Cleanups :
             doc' = [doc EXCEPT ![j].version = @ + 1, ![j].cleanup = cleanup]
    BY <1>2, <1>3 DEF Change
  <2>2. PICK cleanup \in Cleanups :
             doc' = [doc EXCEPT ![j].version = @ + 1, ![j].cleanup = cleanup]
    BY <2>1
  <2> DEFINE new == [doc[j] EXCEPT !.version = @ + 1, !.cleanup = cleanup]
  <2>3. new \in Document /\ doc' = [doc EXCEPT ![j] = new]
    BY <1>1, <2>2 DEF Document, ListInv
  <2> HIDE DEF new
  <2> QED
    BY <2>1, <2>3, DocumentStep
<1>4. CASE DeleteAgain(j) \/ GiveUp(j)
  <2>1. /\ UNCHANGED <<view, calls>>
        /\ pushes' = pushes \/ Emit(EntryIn(doc, j)) \/ Emit(EntryIn(doc', j))
        /\ \E cleanup \in Cleanups : doc' = [doc EXCEPT ![j].cleanup = cleanup]
    BY <1>2, <1>4 DEF DeleteAgain, GiveUp
  <2>2. PICK cleanup \in Cleanups : doc' = [doc EXCEPT ![j].cleanup = cleanup]
    BY <2>1
  <2> DEFINE new == [doc[j] EXCEPT !.cleanup = cleanup]
  <2>3. new \in Document /\ doc' = [doc EXCEPT ![j] = new]
    BY <1>1, <2>2 DEF Document, ListInv
  <2> HIDE DEF new
  <2> QED
    BY <2>1, <2>3, DocumentStep
<1>5. CASE Erase(j)
  <2> DEFINE new == [doc[j] EXCEPT !.status = "deleted", !.cleanup = "none"]
  <2>1. new \in Document
    BY <1>1, <1>2 DEF Document
  <2>2. doc' = [doc EXCEPT ![j] = new] /\ UNCHANGED <<pushes, view, calls>>
    BY <1>5 DEF Erase, ListInv
  <2> HIDE DEF new
  <2> QED
    BY <2>1, <2>2, DocumentStep
<1>6. CASE Submit(j)
  <2> DEFINE new == [doc[j] EXCEPT !.status = "kept"]
  <2>1. new \in Document
    BY <1>1 DEF Document
  <2>2. doc' = [doc EXCEPT ![j] = new] /\ UNCHANGED <<pushes, view, calls>>
    BY <1>6 DEF Submit, ListInv
  <2> HIDE DEF new
  <2> QED
    BY <2>1, <2>2, DocumentStep
<1> QED
  BY <1>3, <1>4, <1>5, <1>6

\* ListInv is inductive.
LEMMA ListStep == ListInv /\ [Next]_vars => ListInv'
<1> SUFFICES ASSUME ListInv, [Next]_vars PROVE ListInv'
  OBVIOUS
<1>1. ASSUME NEW j \in Jobs,
             Change(j) \/ DeleteAgain(j) \/ GiveUp(j) \/ Erase(j) \/ Submit(j)
      PROVE  ListInv'
  BY <1>1, JobStep
<1>3. ASSUME NEW c \in DOMAIN calls, ListJobs(c) PROVE ListInv'
  <2> DEFINE page == Page(calls[c].before)
             jobs == page.jobs
             next == page.next
             call == [calls[c] EXCEPT !.step = "ok", !.jobs = jobs, !.next = next]
  <2>1. jobs \in Listing /\ next \in Jobs \cup {NoJob}
    BY PageSound DEF ListInv, Listing
  <2>2. calls' = [calls EXCEPT ![c] = call] /\ UNCHANGED <<doc, pushes, view>>
    BY <1>3 DEF ListJobs
  <2> HIDE DEF jobs, next
  <2>3. call \in ListCall
    BY <2>1, CallTypes DEF ListCall
  <2> HIDE DEF call
  <2> QED
    BY <2>2, <2>3, CallReplaced DEF ListInv
<1>4. ASSUME NEW c \in DOMAIN calls, CallFails(c) PROVE ListInv'
  <2> DEFINE call == [calls[c] EXCEPT !.step = "failed", !.jobs = <<>>, !.next = NoJob]
  <2>1. calls' = [calls EXCEPT ![c] = call] /\ UNCHANGED <<doc, pushes, view>>
    BY <1>4 DEF CallFails
  <2>2. call \in ListCall
    BY CallTypes, NoneListed DEF ListCall
  <2> HIDE DEF call
  <2> QED
    BY <2>1, <2>2, CallReplaced DEF ListInv
<1>5. ASSUME NEW c \in DOMAIN calls, Receive(c) PROVE ListInv'
  <2>1. /\ calls' = RemoveAt(calls, c) /\ view' = Answered(calls[c])
        /\ UNCHANGED <<doc, pushes>>
    BY <1>5 DEF Receive
  <2>2. calls' \in Seq(ListCall)
    BY <2>1, Removed DEF ListInv
  <2>3. view' \in ListView
    BY <2>1, CallTypes, AnsweredSound
  <2> QED
    BY <2>1, <2>2, <2>3 DEF ListInv
<1>6. CASE Load
  BY <1>6, LoadStep DEF Load
<1>7. CASE LoadAgain
  <2>1. calls' = Append(calls, New("again", NoJob)) /\ UNCHANGED <<doc, pushes>>
        /\ view' = [view EXCEPT !.error = FALSE]
    BY <1>7 DEF LoadAgain
  <2>2. view' \in ListView
    BY <2>1 DEF ListInv, ListView
  <2> QED
    BY <2>1, <2>2, SendStep
<1>8. CASE LoadMore
  <2>1. calls' = Append(calls, New("older", view.next)) /\ UNCHANGED <<doc, pushes, view>>
    BY <1>8 DEF LoadMore
  <2>2. view \in ListView /\ view.next \in Jobs \cup {NoJob}
    BY DEF ListInv, ListView
  <2> QED
    BY <2>1, <2>2, SendStep
<1>9. CASE Reconnect
  <2>1. StartLoad /\ doc' = doc /\ pushes' = {}
    BY <1>9 DEF Reconnect
  <2> QED
    BY <2>1, LoadStep
<1>10. ASSUME NEW e \in pushes, OnUpdate(e) PROVE ListInv'
  <2>1. /\ UNCHANGED <<doc, calls>> /\ pushes' = pushes \ {e}
        /\ view' = view \/ view' = [view EXCEPT !.jobs = Pushed(view.jobs, e)]
    BY <1>10 DEF OnUpdate
  <2>2. Pushed(view.jobs, e) \in Listing
    BY PushedSound DEF ListInv, ListView, Listing
  <2>3. view' \in ListView
    BY <2>1, <2>2 DEF ListInv, ListView
  <2> QED
    BY <2>1, <2>3 DEF ListInv
<1>11. CASE TokenRefreshed
  BY <1>11 DEF TokenRefreshed, ListInv
<1>12. CASE UNCHANGED vars
  BY <1>12 DEF vars, ListInv
<1> QED
  BY <1>1, <1>3, <1>4, <1>5, <1>6, <1>7, <1>8, <1>9, <1>10, <1>11, <1>12 DEF Next

----------------------------------------------------------------------------
(* Theorems about the list *)

\* The inductive invariant, of every instance: what is shown and every answer on
\* its way has each job once.
THEOREM ListInvariant == Spec => []ListInv
  BY ListInit, ListStep, PTL DEF Spec

\* First pages, older pages and pushed jobs never show a job twice.
THEOREM ShownOnce == Spec => []ListedOnce
<1>1. ListInv => ListedOnce
  BY DistinctCounted DEF ListInv, ListView, Listing, ListedOnce
<1> QED
  BY <1>1, ListInvariant, PTL

\* A step shows nothing older than before, but for the Retry button's answer.
LEMMA NeverBackStep ==
    ASSUME ListInv, [Next]_vars
    PROVE  RetryShown \/ Ahead(view.jobs, view'.jobs)
<1>1. view \in ListView /\ view.jobs \in Seq(Entry) /\ Distinct(view.jobs)
  BY DEF ListInv, ListView, Listing
<1>2. Ahead(view.jobs, view.jobs)
  BY <1>1, AheadOfItself
<1>3. CASE view'.jobs = view.jobs
  BY <1>2, <1>3
<1>4. ASSUME NEW c \in DOMAIN calls, Receive(c) PROVE RetryShown \/ Ahead(view.jobs, view'.jobs)
  <2>1. calls' = RemoveAt(calls, c) /\ view' = Answered(calls[c])
    BY <1>4 DEF Receive
  <2>2. \/ calls[c].kind = "again" /\ calls[c].step = "ok"
        \/ Ahead(view.jobs, Answered(calls[c]).jobs)
    BY CallTypes, AnsweredSound
  <2> QED
    BY <2>1, <2>2 DEF RetryShown
<1>5. ASSUME NEW e \in pushes, OnUpdate(e) PROVE Ahead(view.jobs, view'.jobs)
  <2>1. view' = view \/ view' = [view EXCEPT !.jobs = Pushed(view.jobs, e)]
    BY <1>5 DEF OnUpdate
  <2>2. Ahead(view.jobs, Pushed(view.jobs, e))
    BY <1>1, PushedSound DEF ListInv
  <2>3. view'.jobs = view.jobs \/ view'.jobs = Pushed(view.jobs, e)
    BY <1>1, <2>1 DEF ListView
  <2> QED
    BY <1>2, <2>2, <2>3
<1>6. CASE Load \/ Reconnect \/ LoadAgain
  <2>1. view' = [view EXCEPT !.error = FALSE]
    BY <1>6 DEF Load, Reconnect, LoadAgain, StartLoad
  <2> QED
    BY <1>1, <1>3, <2>1 DEF ListView
<1>7. ASSUME NEW j \in Jobs,
             Change(j) \/ DeleteAgain(j) \/ GiveUp(j) \/ Erase(j) \/ Submit(j)
      PROVE  view' = view
  BY <1>7 DEF Change, DeleteAgain, GiveUp, Erase, Submit
<1>8. ASSUME NEW c \in DOMAIN calls, ListJobs(c) \/ CallFails(c) PROVE view' = view
  BY <1>8 DEF ListJobs, CallFails
<1>9. CASE LoadMore \/ TokenRefreshed \/ UNCHANGED vars
  BY <1>3, <1>9 DEF LoadMore, TokenRefreshed, vars
<1> QED
  BY <1>3, <1>4, <1>5, <1>6, <1>7, <1>8, <1>9 DEF Next

\* In whatever order polls and events arrive, what is shown of a job never goes
\* back to an earlier version.
THEOREM ListNeverBack == Spec => NeverBack
<1>1. ListInv /\ [Next]_vars =>
        [RetryShown \/ \A j \in Ids(view.jobs) \cap Ids(view'.jobs) :
            Shown(view'.jobs, j).version >= Shown(view.jobs, j).version]_vars
  BY NeverBackStep DEF Ahead
<1> QED
  BY <1>1, ListInvariant, PTL DEF Spec, NeverBack

----------------------------------------------------------------------------
(* The bounds of the list *)

OneLatest(s) == \A c, d \in DOMAIN s : s[c].latest /\ s[d].latest => c = d

ListBounds ==
    /\ listening \in BOOLEAN
    /\ IsFiniteSet(pushes) /\ Cardinality(pushes) <= MaxPushes
    /\ Len(calls) <= MaxCalls /\ OneLatest(calls)
    /\ faults \in 0 .. MaxFaults

LEMMA FewerPushes ==
    ASSUME IsFiniteSet(pushes), Cardinality(pushes) <= MaxPushes, pushes' \in SUBSET pushes
    PROVE  IsFiniteSet(pushes') /\ Cardinality(pushes') <= MaxPushes
<1>1. IsFiniteSet(pushes') /\ Cardinality(pushes') <= Cardinality(pushes)
  BY FS_Subset
<1>2. Cardinality(pushes') \in Nat /\ Cardinality(pushes) \in Nat /\ MaxPushes \in Nat
  BY <1>1, FS_CardinalityType, ViewAssumption
<1> QED
  BY <1>1, <1>2

LEMMA OnePush ==
    ASSUME NEW e, Emit(e), IsFiniteSet(pushes), Cardinality(pushes) <= MaxPushes
    PROVE  IsFiniteSet(pushes') /\ Cardinality(pushes') <= MaxPushes
<1>1. CASE pushes' = pushes
  BY <1>1
<1>2. CASE Cardinality(pushes) < MaxPushes /\ pushes' = pushes \cup {e}
  <2>1. /\ IsFiniteSet(pushes')
        /\ Cardinality(pushes') = Cardinality(pushes)
           \/ Cardinality(pushes') = Cardinality(pushes) + 1
    BY <1>2, FS_AddElement
  <2>2. Cardinality(pushes) \in Nat /\ MaxPushes \in Nat
    BY FS_CardinalityType, ViewAssumption
  <2> QED
    BY <1>2, <2>1, <2>2
<1> QED
  BY <1>1, <1>2 DEF Emit

LEMMA OneFault == Fault /\ faults \in 0 .. MaxFaults => faults' \in 0 .. MaxFaults
  BY ViewAssumption DEF Fault

LEMMA SendBounds ==
    ASSUME NEW T, NEW s \in Seq(T), NEW x, x \in T, Len(s) < MaxCalls
    PROVE  Len(Append(s, x)) <= MaxCalls
  BY AppendProperties, LenProperties, ViewAssumption

\* Loading takes the number of the request before.
LEMMA LoadBounds ==
    ASSUME ListInv, StartLoad
    PROVE  Len(calls') <= MaxCalls /\ OneLatest(calls')
<1> DEFINE others == [c \in DOMAIN calls |-> [calls[c] EXCEPT !.latest = FALSE]]
<1>1. Len(calls) \in Nat /\ DOMAIN calls = 1 .. Len(calls)
  BY ItemsOf DEF ListInv
<1>2. \A c \in DOMAIN calls : [calls[c] EXCEPT !.latest = FALSE] \in ListCall
  BY CallTypes DEF ListCall
<1>3. \A c \in DOMAIN calls : ~[calls[c] EXCEPT !.latest = FALSE].latest
  BY CallTypes DEF ListCall
<1>4. others \in Seq(ListCall) /\ Len(others) = Len(calls)
  BY <1>1, <1>2, FunctionIsSeq
<1>5. \A c \in 1 .. Len(others) : ~others[c].latest
  BY <1>1, <1>3, <1>4
<1>6. calls' = Append(others, New("list", NoJob)) /\ Len(calls) < MaxCalls
  BY DEF StartLoad, MayCall
<1> HIDE DEF others
<1>7. New("list", NoJob) \in ListCall
  BY NewListCall
<1>8. Len(calls') <= MaxCalls
  BY <1>4, <1>6, <1>7, SendBounds
<1>9. OneLatest(calls')
  BY <1>4, <1>5, <1>6, <1>7, Joined DEF OneLatest
<1> QED
  BY <1>8, <1>9

\* Other requests are not counted.
LEMMA SendUncounted ==
    ASSUME ListInv, ListBounds, MayCall, NEW kind \in {"older", "again"},
           NEW before \in Jobs \cup {NoJob}, calls' = Append(calls, New(kind, before))
    PROVE  Len(calls') <= MaxCalls /\ OneLatest(calls')
<1>1. New(kind, before) \in ListCall /\ ~New(kind, before).latest
  BY NewListCall DEF New
<1>2. Len(calls) \in Nat /\ DOMAIN calls = 1 .. Len(calls) /\ calls \in Seq(ListCall)
  BY ItemsOf DEF ListInv
<1>3. Len(calls') <= MaxCalls
  BY <1>1, <1>2, SendBounds DEF MayCall
<1>4. OneLatest(calls')
  BY <1>1, <1>2, Joined DEF OneLatest, ListBounds
<1> QED
  BY <1>3, <1>4

LEMMA ReceiveBounds ==
    ASSUME ListInv, ListBounds, NEW c \in DOMAIN calls, calls' = RemoveAt(calls, c)
    PROVE  Len(calls') <= MaxCalls /\ OneLatest(calls')
<1>1. Len(calls) \in Nat /\ DOMAIN calls = 1 .. Len(calls) /\ calls \in Seq(ListCall)
  BY ItemsOf DEF ListInv
<1>2. /\ Len(calls') = Len(calls) - 1
      /\ \A i \in DOMAIN calls' :
           /\ i \in 1 .. Len(calls) - 1
           /\ calls'[i] = IF i < c THEN calls[i] ELSE calls[i + 1]
  BY <1>1, RemovedPlaces
<1>3. Len(calls') <= MaxCalls
  BY <1>1, <1>2, ViewAssumption DEF ListBounds
<1>4. ASSUME NEW i \in DOMAIN calls', NEW k \in DOMAIN calls',
             calls'[i].latest, calls'[k].latest
      PROVE  i = k
  <2> DEFINE place(n) == IF n < c THEN n ELSE n + 1
  <2>1. place(i) \in DOMAIN calls /\ place(k) \in DOMAIN calls /\ i \in Int /\ k \in Int /\ c \in Int
    BY <1>1, <1>2
  <2>2. calls'[i] = calls[place(i)] /\ calls'[k] = calls[place(k)]
    BY <1>2
  <2>3. place(i) = place(k)
    <3> HIDE DEF place
    <3> QED
      BY <1>4, <2>1, <2>2 DEF ListBounds, OneLatest
  <2> QED
    BY <2>1, <2>3
<1> QED
  BY <1>3, <1>4 DEF OneLatest

LEMMA SameRequests ==
    ASSUME ListInv, ListBounds, NEW c \in DOMAIN calls, NEW call,
           call.latest = calls[c].latest, calls' = [calls EXCEPT ![c] = call]
    PROVE  Len(calls') <= MaxCalls /\ OneLatest(calls')
<1>1. Len(calls') = Len(calls) /\ DOMAIN calls' = DOMAIN calls
  BY DEF ListInv
<1>2. \A d \in DOMAIN calls : calls'[d].latest = calls[d].latest
  BY <1>1
<1> QED
  BY <1>1, <1>2 DEF ListBounds, OneLatest

LEMMA ListBoundsStep == ListInv /\ ListBounds /\ [Next]_vars => ListBounds'
<1> SUFFICES ASSUME ListInv, ListBounds, [Next]_vars PROVE ListBounds'
  OBVIOUS
<1> DEFINE CallsKept == Len(calls') <= MaxCalls /\ OneLatest(calls')
<1>0. calls' = calls => CallsKept
  BY DEF ListBounds
<1>1. ASSUME CallsKept, pushes' \in SUBSET pushes, UNCHANGED <<listening, faults>>
      PROVE  ListBounds'
  BY <1>1, FewerPushes DEF ListBounds
<1> HIDE DEF CallsKept
<1>2. ASSUME NEW j \in Jobs, Change(j) \/ DeleteAgain(j) PROVE ListBounds'
  <2>1. /\ Emit(EntryIn(doc', j)) \/ Emit(EntryIn(doc, j))
        /\ UNCHANGED <<listening, calls>>
        /\ faults' = faults \/ Fault
    BY <1>2 DEF Change, DeleteAgain
  <2>2. IsFiniteSet(pushes') /\ Cardinality(pushes') <= MaxPushes
    BY <2>1, OnePush DEF ListBounds
  <2>3. faults' \in 0 .. MaxFaults
    BY <2>1, OneFault DEF ListBounds
  <2> QED
    BY <2>1, <2>2, <2>3 DEF ListBounds
<1>3. ASSUME NEW j \in Jobs, GiveUp(j) \/ Erase(j) \/ Submit(j) PROVE ListBounds'
  <2>1. UNCHANGED <<pushes, listening, calls>> /\ (faults' = faults \/ Fault)
    BY <1>3 DEF GiveUp, Erase, Submit
  <2>2. faults' \in 0 .. MaxFaults
    BY <2>1, OneFault DEF ListBounds
  <2> QED
    BY <2>1, <2>2 DEF ListBounds
<1>4. ASSUME NEW c \in DOMAIN calls, ListJobs(c) PROVE ListBounds'
  <2> DEFINE page == Page(calls[c].before)
             call == [calls[c] EXCEPT !.step = "ok", !.jobs = page.jobs, !.next = page.next]
  <2>1. calls' = [calls EXCEPT ![c] = call] /\ UNCHANGED <<pushes, listening, faults>>
    BY <1>4 DEF ListJobs
  <2>2. call.latest = calls[c].latest
    <3> HIDE DEF page
    <3> QED
      BY CallTypes DEF ListCall
  <2> HIDE DEF call
  <2>3. CallsKept
    BY <2>1, <2>2, SameRequests DEF CallsKept
  <2> QED
    BY <1>1, <2>1, <2>3
<1>5. ASSUME NEW c \in DOMAIN calls, CallFails(c) PROVE ListBounds'
  <2> DEFINE call == [calls[c] EXCEPT !.step = "failed", !.jobs = <<>>, !.next = NoJob]
  <2>1. calls' = [calls EXCEPT ![c] = call] /\ UNCHANGED <<pushes, listening>> /\ Fault
    BY <1>5 DEF CallFails
  <2>2. call.latest = calls[c].latest
    BY CallTypes DEF ListCall
  <2> HIDE DEF call
  <2>3. CallsKept
    BY <2>1, <2>2, SameRequests DEF CallsKept
  <2> QED
    BY <2>1, <2>3, OneFault DEF ListBounds, CallsKept
<1>6. ASSUME NEW c \in DOMAIN calls, Receive(c) PROVE ListBounds'
  <2>1. calls' = RemoveAt(calls, c) /\ UNCHANGED <<pushes, listening, faults>>
    BY <1>6 DEF Receive
  <2> QED
    BY <1>1, <2>1, ReceiveBounds DEF CallsKept
<1>7. CASE Load \/ Reconnect
  BY <1>1, <1>7, LoadBounds DEF Load, Reconnect, CallsKept
<1>8. CASE LoadAgain
  <2>1. /\ MayCall /\ calls' = Append(calls, New("again", NoJob))
        /\ UNCHANGED <<pushes, listening, faults>>
    BY <1>8 DEF LoadAgain
  <2> QED
    BY <1>1, <2>1, SendUncounted DEF CallsKept
<1>9. CASE LoadMore
  <2>1. /\ MayCall /\ calls' = Append(calls, New("older", view.next))
        /\ UNCHANGED <<pushes, listening, faults>> /\ view.next \in Jobs \cup {NoJob}
    BY <1>9 DEF LoadMore, ListInv, ListView
  <2> QED
    BY <1>1, <2>1, SendUncounted DEF CallsKept
<1>10. ASSUME NEW e \in pushes, OnUpdate(e) PROVE ListBounds'
  BY <1>0, <1>1, <1>10 DEF OnUpdate
<1>11. CASE TokenRefreshed
  BY <1>0, <1>11, FewerPushes DEF TokenRefreshed, ListBounds, CallsKept
<1>12. CASE UNCHANGED vars
  BY <1>0, <1>1, <1>12 DEF vars
<1> QED
  BY <1>2, <1>3, <1>4, <1>5, <1>6, <1>7, <1>8, <1>9, <1>10, <1>11, <1>12 DEF Next

LEMMA ListBoundsInit == Init => ListBounds
<1> SUFFICES ASSUME Init PROVE ListBounds
  OBVIOUS
<1>1. pushes = {} /\ calls = <<New("list", NoJob)>> /\ listening = TRUE /\ faults = 0
  BY DEF Init
<1>2. IsFiniteSet(pushes) /\ Cardinality(pushes) <= MaxPushes
  BY <1>1, FS_EmptySet, ViewAssumption
<1>3. Len(calls) = 1 /\ DOMAIN calls = {1}
  <2> DEFINE first == New("list", NoJob)
  <2> HIDE DEF first
  <2>1. Len(<<first>>) = 1 /\ DOMAIN <<first>> = {1}
    OBVIOUS
  <2> QED
    BY <1>1, <2>1 DEF first
<1>4. OneLatest(calls)
  BY <1>3 DEF OneLatest
<1> QED
  BY <1>1, <1>2, <1>3, <1>4, ViewAssumption DEF ListBounds

\* The documents, events and requests of every instance have their types and stay
\* within their bounds, and the request number is that of one request at most.
THEOREM ListTypes == Spec => []TypeOK
<1>1. ASSUME ListInv, ListBounds PROVE TypeOK
  <2>1. \A call \in ListCall : call \in Call
    BY DEF ListCall, Call, Listing
  <2>2. calls \in Seq(Call)
    <3>1. ListCall \subseteq Call /\ calls \in Seq(ListCall)
      BY <1>1, <2>1 DEF ListInv
    <3> QED
      BY <3>1, SeqMonotonic
  <2>3. view \in List
    BY <1>1 DEF ListInv, ListView, Listing, List
  <2>4. Cardinality({c \in DOMAIN calls : calls[c].latest}) <= 1
    <3> DEFINE latest == {c \in DOMAIN calls : calls[c].latest}
    <3>1. \A c, d \in latest : c = d
      BY <1>1 DEF ListBounds, OneLatest
    <3> HIDE DEF latest
    <3>2. latest = {} => Cardinality(latest) <= 1
      BY FS_EmptySet
    <3>3. ASSUME NEW c \in latest PROVE Cardinality(latest) <= 1
      <4>1. latest = {c}
        BY <3>1, <3>3
      <4> QED
        BY <4>1, FS_Singleton
    <3>4. Cardinality(latest) <= 1
      BY <3>2, <3>3
    <3> QED
      BY <3>4 DEF latest
  <2>5. /\ doc \in [Jobs -> Document] /\ pushes \in SUBSET Entry /\ listening \in BOOLEAN
        /\ Cardinality(pushes) <= MaxPushes /\ Len(calls) <= MaxCalls
        /\ faults \in 0 .. MaxFaults
    BY <1>1 DEF ListInv, ListBounds
  <2> QED
    BY <2>2, <2>3, <2>4, <2>5 DEF TypeOK
<1> QED
  BY <1>1, ListBoundsInit, ListBoundsStep, ListInvariant, PTL DEF Spec

----------------------------------------------------------------------------
(* The inductive invariant of the page *)

Snap == [status : Statuses, version : Nat, cleanup : Cleanups]

OneDocument == [status : Statuses \cup {"deleted"}, version : Nat, cleanup : Cleanups]

Buried(d) == d.status \in {"deleting", "deleted"}

\* What a document was or is; marking it for deletion is its last version.
Precedes(e, d) ==
    /\ e.version <= d.version
    /\ e.status = "deleting" => Buried(d) /\ e.version = d.version

Seen(d) == {e \in Snap : Precedes(e, d)}

OpenPage(d) ==
    [job : Seen(d) \cup {NoEntry}, result : BOOLEAN, error : BOOLEAN, missed : BOOLEAN]

Answers(k) == k.step = "ok" /\ k.kind # "retry"

\* A request carries what it was answered with, and counts for an open page only.
PageCalls(d, open) ==
    {k \in [kind : {"open", "poll", "final", "remove", "cancel", "retry"},
            step : {"sent", "ok", "missing", "failed"}, mine : BOOLEAN,
            entry : Snap \cup {NoEntry}] :
       /\ Answers(k) => k.entry \in Seen(d)
       /\ ~Answers(k) => k.entry = NoEntry
       /\ Answers(k) /\ k.kind = "remove" => k.entry.status = "deleting"
       /\ k.mine => open}

PageInv ==
    /\ doc \in OneDocument
    /\ pushes \in SUBSET Seen(doc)
    /\ view \in OpenPage(doc) \cup {Elsewhere}
    /\ calls \in Seq(PageCalls(doc, Open))

----------------------------------------------------------------------------
(* What changes of the document leave true *)

Later(d, e) ==
    /\ d.version <= e.version
    /\ Buried(d) => Buried(e) /\ e.version = d.version

LEMMA NoEntryUnseen == NoEntry \notin Snap /\ Elsewhere.job = NoEntry
<1>1. NoEntry.status = "none" /\ "none" \notin Statuses
  BY DEF NoEntry, Statuses
<1>2. \A e \in Snap : e.status \in Statuses
  BY DEF Snap
<1> QED
  BY <1>1, <1>2 DEF Elsewhere

LEMMA OpenIsOpen ==
    ASSUME NEW d, NEW v \in OpenPage(d)
    PROVE  v # Elsewhere
<1>1. "error" \in DOMAIN v
  BY DEF OpenPage
<1>2. DOMAIN Elsewhere = {"job"}
  BY DEF Elsewhere
<1> QED
  BY <1>1, <1>2

LEMMA SeenVersion ==
    ASSUME NEW d, NEW e \in Seen(d)
    PROVE  /\ e \in Snap /\ e.version \in Nat
           /\ e.version <= d.version /\ e.version >= e.version
           /\ e.status = "deleting" => e.version = d.version
<1>0. e \in Snap /\ Precedes(e, d)
  BY DEF Seen
<1>1. /\ e \in Snap /\ e.version <= d.version
      /\ e.status = "deleting" => e.version = d.version
  BY <1>0 DEF Precedes
<1>2. e.version \in Nat
  BY <1>1 DEF Snap
<1>3. e.version >= e.version
  BY <1>2
<1> QED
  BY <1>1, <1>2, <1>3

LEMMA SeenMore ==
    ASSUME NEW d \in OneDocument, NEW e \in OneDocument, Later(d, e)
    PROVE  Seen(d) \subseteq Seen(e)
<1> SUFFICES ASSUME NEW x \in Seen(d) PROVE x \in Seen(e)
  OBVIOUS
<1>0. x \in Snap /\ Precedes(x, d)
  BY DEF Seen
<1>1. /\ x \in Snap /\ x.version <= d.version
      /\ x.status = "deleting" => Buried(d) /\ x.version = d.version
  BY <1>0 DEF Precedes
<1>2. x.version \in Nat /\ d.version \in Nat /\ e.version \in Nat
  BY <1>1 DEF Snap, OneDocument
<1>3. x.version <= e.version
  BY <1>1, <1>2 DEF Later
<1>4. x.status = "deleting" => Buried(e) /\ x.version = e.version
  BY <1>1, <1>2 DEF Later
<1> QED
  BY <1>1, <1>3, <1>4 DEF Seen, Precedes

LEMMA PageCallsMore ==
    ASSUME NEW d \in OneDocument, NEW e \in OneDocument, Later(d, e),
           NEW a \in BOOLEAN, NEW b \in BOOLEAN, a => b
    PROVE  PageCalls(d, a) \subseteq PageCalls(e, b)
<1>1. Seen(d) \subseteq Seen(e)
  BY SeenMore
<1> QED
  BY <1>1 DEF PageCalls

LEMMA LaterSelf == ASSUME NEW d \in OneDocument PROVE Later(d, d)
<1>1. d.version \in Nat
  BY DEF OneDocument
<1> QED
  BY <1>1 DEF Later

LEMMA SeenSelf ==
    ASSUME NEW d \in OneDocument, d.status # "deleted"
    PROVE  d \in Seen(d) /\ d.version \in Nat
<1>1. d \in Snap /\ d.version \in Nat
  BY DEF OneDocument, Snap
<1>2. d.version <= d.version
  BY <1>1
<1> QED
  BY <1>1, <1>2 DEF Seen, Precedes, Buried

LEMMA OpenPageMore ==
    ASSUME NEW d \in OneDocument, NEW e \in OneDocument, Later(d, e)
    PROVE  OpenPage(d) \subseteq OpenPage(e)
<1>1. Seen(d) \subseteq Seen(e)
  BY SeenMore
<1> QED
  BY <1>1 DEF OpenPage

LEMMA UpdateLater ==
    ASSUME doc \in OneDocument, NEW status \in Statuses, NEW cleanup \in Cleanups,
           doc.status \in {"active", "completed", "stopped"}, Update(status, cleanup)
    PROVE  /\ doc' \in OneDocument /\ Later(doc, doc') /\ doc' \in Seen(doc')
           /\ doc'.status = status
<1>1. doc' = [status |-> status, version |-> doc.version + 1, cleanup |-> cleanup]
  BY DEF Update
<1>2. doc.version \in Nat /\ ~Buried(doc)
  BY DEF OneDocument, Buried
<1>3. doc.version <= doc.version + 1 /\ doc.version + 1 \in Nat
  BY <1>2
<1>4. doc' \in OneDocument /\ doc'.status = status /\ doc'.version = doc.version + 1
  BY <1>1, <1>3 DEF OneDocument
<1>5. doc'.status # "deleted"
  BY <1>4 DEF Statuses
<1>6. doc' \in Seen(doc')
  BY <1>4, <1>5, SeenSelf
<1> QED
  BY <1>2, <1>3, <1>4, <1>6 DEF Later

LEMMA MarkLater ==
    ASSUME doc \in OneDocument, Mark
    PROVE  /\ doc' \in OneDocument /\ Later(doc, doc') /\ doc' \in Seen(doc')
           /\ doc'.status = "deleting"
<1>1. "deleting" \in Statuses /\ "pending" \in Cleanups
  BY DEF Statuses, Cleanups
<1> QED
  BY <1>1, UpdateLater DEF Mark

----------------------------------------------------------------------------
(* Steps of the page *)

\* A change of the document alone, or with an event.
LEMMA PageDocumentStep ==
    ASSUME PageInv, doc' \in OneDocument, Later(doc, doc'), view' = view, calls' = calls,
           pushes' \in SUBSET Seen(doc')
    PROVE  PageInv'
<1>1. Open' = Open /\ Open \in BOOLEAN
  BY DEF Open
<1>2. PageCalls(doc, Open) \subseteq PageCalls(doc', Open)
  BY <1>1, PageCallsMore DEF PageInv
<1>3. calls \in Seq(PageCalls(doc', Open))
  BY <1>2, SeqMonotonic DEF PageInv
<1>4. view \in OpenPage(doc') \cup {Elsewhere}
  BY OpenPageMore DEF PageInv
<1> QED
  BY <1>1, <1>3, <1>4 DEF PageInv

LEMMA EmitStep ==
    ASSUME PageInv, doc' \in OneDocument, Later(doc, doc'), NEW e \in Seen(doc'), Emit(e)
    PROVE  pushes' \in SUBSET Seen(doc')
  BY SeenMore DEF PageInv, Emit

\* A request is answered, or fails.
LEMMA AnswerStep ==
    ASSUME PageInv, doc' \in OneDocument, Later(doc, doc'), view' = view,
           pushes' \in SUBSET Seen(doc'),
           NEW c \in DOMAIN calls, NEW step \in {"ok", "missing", "failed"}, NEW e,
           Answer(c, step, e),
           step = "ok" /\ calls[c].kind # "retry" => e \in Seen(doc'),
           ~(step = "ok" /\ calls[c].kind # "retry") => e = NoEntry,
           step = "ok" /\ calls[c].kind = "remove" => e.status = "deleting"
    PROVE  PageInv'
<1>1. Open' = Open /\ Open \in BOOLEAN
  BY DEF Open
<1> DEFINE T == PageCalls(doc', Open)
           new == [calls[c] EXCEPT !.step = step, !.entry = e]
<1>2. PageCalls(doc, Open) \subseteq T
  BY <1>1, PageCallsMore DEF PageInv
<1>3. calls \in Seq(T)
  BY <1>2, SeqMonotonic DEF PageInv
<1>4. c \in 1 .. Len(calls) /\ calls[c] \in T
  BY <1>3, ItemsOf
<1>5. new \in T
  BY <1>4, NoEntryUnseen DEF PageCalls, Answers, Seen
<1>6. calls' = [calls EXCEPT ![c] = new]
  BY DEF Answer
<1> HIDE DEF T, new
<1>7. calls' \in Seq(T)
  BY <1>3, <1>4, <1>5, <1>6, ExceptSeq
<1>8. view \in OpenPage(doc') \cup {Elsewhere}
  BY OpenPageMore DEF PageInv
<1> QED
  BY <1>1, <1>7, <1>8 DEF PageInv, T

LEMMA PageHandleStep ==
    ASSUME PageInv, NEW c \in DOMAIN calls, Handle(c)
    PROVE  PageInv'
<1>1. view' = view /\ doc \in OneDocument /\ pushes \in SUBSET Seen(doc) /\ Later(doc, doc)
  BY LaterSelf DEF Handle, PageInv
<1>2. CASE GetJob(c)
  <2>1. calls[c].kind \in {"open", "poll", "final"} /\ doc' = doc /\ pushes' = pushes
    BY <1>2 DEF GetJob
  <2>2. CASE doc.status = "deleted"
    <3>1. Answer(c, "missing", NoEntry)
      BY <1>2, <2>2 DEF GetJob
    <3> QED
      BY <1>1, <2>1, <3>1, AnswerStep
  <2>3. CASE doc.status # "deleted"
    <3>1. Answer(c, "ok", doc)
      BY <1>2, <2>3 DEF GetJob
    <3> QED
      BY <1>1, <2>1, <2>3, <3>1, SeenSelf, AnswerStep
  <2> QED
    BY <2>2, <2>3
<1>3. CASE DeleteJob(c)
  <2>1. calls[c].kind = "remove"
    BY <1>3 DEF DeleteJob
  <2>2. CASE Mark /\ Answer(c, "ok", doc') /\ Emit(doc')
    BY <1>1, <2>1, <2>2, MarkLater, EmitStep, AnswerStep
  <2>3. CASE /\ doc.status = "deleting" /\ doc' = [doc EXCEPT !.cleanup = "pending"]
             /\ Answer(c, "ok", doc') /\ Emit(doc')
    <3>1. /\ doc' \in OneDocument /\ doc'.status = "deleting" /\ doc'.version = doc.version
          /\ doc.version \in Nat
      BY <1>1, <2>3 DEF OneDocument, Cleanups
    <3>2. Later(doc, doc') /\ doc' \in Seen(doc')
      BY <3>1, SeenSelf DEF Later, Buried
    <3>3. pushes' \in SUBSET Seen(doc')
      BY <2>3, <3>1, <3>2, EmitStep
    <3> QED
      BY <1>1, <2>1, <2>3, <3>1, <3>2, <3>3, AnswerStep
  <2>4. CASE Answer(c, "missing", NoEntry) /\ UNCHANGED <<doc, pushes>>
    BY <1>1, <2>4, AnswerStep
  <2> QED
    BY <1>3, <2>2, <2>3, <2>4 DEF DeleteJob
<1>4. CASE CancelJob(c)
  <2>1. calls[c].kind = "cancel"
    BY <1>4 DEF CancelJob
  <2>2. CASE /\ doc.status = "active" /\ Update("stopped", "none")
             /\ Answer(c, "ok", doc') /\ Emit(doc')
    <3>1. "stopped" \in Statuses /\ "none" \in Cleanups
      BY DEF Statuses, Cleanups
    <3>2. doc' \in OneDocument /\ Later(doc, doc') /\ doc' \in Seen(doc')
      BY <1>1, <2>2, <3>1, UpdateLater
    <3>3. pushes' \in SUBSET Seen(doc')
      BY <2>2, <3>2, EmitStep
    <3> QED
      BY <1>1, <2>1, <2>2, <3>2, <3>3, AnswerStep
  <2>3. CASE doc.status = "stopped" /\ UNCHANGED doc /\ Answer(c, "ok", doc) /\ Emit(doc)
    <3>1. doc' = doc /\ doc \in Seen(doc)
      BY <1>1, <2>3, SeenSelf
    <3>2. pushes' \in SUBSET Seen(doc')
      BY <1>1, <2>3, <3>1, EmitStep
    <3> QED
      BY <1>1, <2>1, <2>3, <3>1, <3>2, AnswerStep
  <2>4. CASE Answer(c, "failed", NoEntry) /\ UNCHANGED <<doc, pushes>>
    BY <1>1, <2>4, AnswerStep
  <2> QED
    BY <1>4, <2>2, <2>3, <2>4 DEF CancelJob
<1>5. CASE RetryJob(c)
  <2>1. /\ calls[c].kind = "retry" /\ doc' = doc /\ pushes' = pushes
        /\ Answer(c, "ok", NoEntry) \/ Answer(c, "failed", NoEntry)
    BY <1>5 DEF RetryJob
  <2> QED
    BY <1>1, <2>1, AnswerStep
<1> QED
  BY <1>2, <1>3, <1>4, <1>5 DEF Handle

\* Sending a request of the open page.
LEMMA PageSendStep ==
    ASSUME PageInv, NEW kind \in {"open", "poll", "final", "remove", "cancel", "retry"},
           Send(kind), Open, doc' = doc, view' \in OpenPage(doc), pushes' \in SUBSET pushes
    PROVE  PageInv'
<1>1. NewRequest(kind) \in PageCalls(doc, TRUE)
  BY DEF NewRequest, PageCalls, Answers
<1>2. Append(calls, NewRequest(kind)) \in Seq(PageCalls(doc, TRUE))
  BY <1>1, Joined DEF PageInv
<1>3. view' # Elsewhere /\ (Open' <=> TRUE)
  BY OpenIsOpen DEF Open
<1>4. calls' = Append(calls, NewRequest(kind))
  BY DEF Send
<1>5. PageCalls(doc, Open') = PageCalls(doc, TRUE)
  BY <1>3 DEF Open
<1> QED
  BY <1>2, <1>4, <1>5 DEF PageInv

\* The requests that survive their page are no longer its own.
LEMMA LeaveSound ==
    ASSUME PageInv, NEW c \in DOMAIN calls \cup {0}
    PROVE  Leave(c) \in Seq(PageCalls(doc, FALSE))
<1> DEFINE rest == Without(c)
           kept == {i \in DOMAIN rest : rest[i].kind \in {"remove", "retry"}}
           count == Cardinality(kept)
           left == [n \in 1 .. count |-> [rest[Nth(kept, n)] EXCEPT !.mine = FALSE]]
<1>1. calls \in Seq(PageCalls(doc, Open))
  BY DEF PageInv
<1>2. rest \in Seq(PageCalls(doc, Open))
  BY <1>1, Removed DEF Without
<1>3. Leave(c) = left
  BY DEF Leave
<1> HIDE DEF rest
<1>4. Len(rest) \in Nat /\ DOMAIN rest = 1 .. Len(rest)
  BY <1>2, ItemsOf
<1>5. kept \in SUBSET Int /\ kept \subseteq 1 .. Len(rest)
  BY <1>4
<1>6. IsFiniteSet(kept) /\ count \in Nat
  <2>1. 1 \in Int /\ Len(rest) \in Int
    BY <1>4
  <2>2. IsFiniteSet(1 .. Len(rest))
    BY <2>1, FS_Interval
  <2> HIDE DEF kept
  <2> QED
    BY <1>5, <2>2, FS_Subset, FS_CardinalityType
<1>7. \A i \in kept : [rest[i] EXCEPT !.mine = FALSE] \in PageCalls(doc, FALSE)
  <2> SUFFICES ASSUME NEW i \in kept
               PROVE  [rest[i] EXCEPT !.mine = FALSE] \in PageCalls(doc, FALSE)
    OBVIOUS
  <2>1. rest[i] \in PageCalls(doc, Open)
    BY <1>2, <1>4, <1>5, ItemsOf
  <2> QED
    BY <2>1 DEF PageCalls, Answers
<1> HIDE DEF kept
<1>8. \A n \in 1 .. count : Nth(kept, n) \in kept
  BY <1>5, <1>6, NthFound
<1> HIDE DEF count
<1>9. left \in [1 .. count -> PageCalls(doc, FALSE)]
  BY <1>7, <1>8
<1> HIDE DEF left
<1> QED
  BY <1>3, <1>6, <1>9, FunctionIsSeq

LEMMA OpenedIsOpen == Opened \in OpenPage(doc) /\ Opened # Elsewhere
<1>1. Opened \in OpenPage(doc)
  BY DEF Opened, OpenPage
<1> QED
  BY <1>1, OpenIsOpen

LEMMA LeaveToStep ==
    ASSUME PageInv, NEW new \in {Elsewhere, Opened}, NEW c \in DOMAIN calls \cup {0},
           LeaveTo(new, c), doc' = doc
    PROVE  PageInv'
<1>1. view' = new /\ pushes' = pushes
  BY DEF LeaveTo
<1>2. Leave(c) \in Seq(PageCalls(doc, FALSE))
  BY LeaveSound
<1>3. CASE new = Elsewhere
  <2>1. calls' = Leave(c) /\ (Open' <=> FALSE)
    BY <1>1, <1>3 DEF LeaveTo, Open
  <2>2. PageCalls(doc, Open') = PageCalls(doc, FALSE)
    BY <1>1, <1>3 DEF Open
  <2> QED
    BY <1>1, <1>2, <1>3, <2>1, <2>2 DEF PageInv
<1>4. CASE new = Opened
  <2>1. calls' = Append(Leave(c), NewRequest("open"))
    BY <1>4, OpenedIsOpen DEF LeaveTo
  <2>2. NewRequest("open") \in PageCalls(doc, TRUE)
    BY DEF NewRequest, PageCalls, Answers
  <2>3. PageCalls(doc, FALSE) \subseteq PageCalls(doc, TRUE)
    BY LaterSelf, PageCallsMore DEF PageInv
  <2>4. Leave(c) \in Seq(PageCalls(doc, TRUE))
    BY <1>2, <2>3, SeqMonotonic
  <2>5. calls' \in Seq(PageCalls(doc, TRUE))
    BY <2>1, <2>2, <2>4, Joined
  <2>6. Open' <=> TRUE
    BY <1>1, <1>4, OpenedIsOpen DEF Open
  <2>7. PageCalls(doc, Open') = PageCalls(doc, TRUE)
    BY <1>1, <1>4, OpenedIsOpen DEF Open
  <2> QED
    BY <1>1, <1>4, <2>5, <2>7, OpenedIsOpen DEF PageInv
<1> QED
  BY <1>3, <1>4

\* The page after an answer of its own, which is not older but for a cancellation's.
LEMMA PageAnsweredSound ==
    ASSUME PageInv, NEW call \in PageCalls(doc, Open), call.mine, ~Goes(call),
           call.step # "sent"
    PROVE  /\ PageAnswered(call) \in OpenPage(doc)
           /\ \/ view.job = NoEntry
              \/ call.kind = "cancel" /\ call.step = "ok"
              \/ PageAnswered(call).job.version >= view.job.version
<1>1. view \in OpenPage(doc)
  BY DEF PageInv, PageCalls, Open
<1>2. view.job \in Seen(doc) \cup {NoEntry} /\ doc.version \in Nat
  BY <1>1 DEF OpenPage, PageInv, OneDocument
<1>3. view.job # NoEntry =>
        view.job.version \in Nat /\ view.job.version <= doc.version
        /\ view.job.version >= view.job.version
  BY <1>2, SeenVersion
<1>4. CASE call.step # "ok"
  <2> DEFINE a == view.error \/ call.kind = "open"
             b == view.missed \/ call.kind = "final"
  <2>1. PageAnswered(call) = Failed(call)
    BY <1>4 DEF PageAnswered
  <2>2. a \in BOOLEAN /\ b \in BOOLEAN
    BY <1>1 DEF OpenPage
  <2>3. Failed(call) = [view EXCEPT !.error = a, !.missed = b]
    BY DEF Failed
  <2> HIDE DEF a, b
  <2>4. Failed(call) \in OpenPage(doc) /\ Failed(call).job = view.job
    BY <1>1, <2>2, <2>3 DEF OpenPage
  <2> QED
    BY <1>3, <2>1, <2>4
<1>5. ASSUME NEW e \in Seen(doc) PROVE Set(e) \in OpenPage(doc) /\ Set(e).job = e
  BY <1>1 DEF Set, OpenPage
<1>6. CASE call.step = "ok"
  <2>1. call.kind # "retry" /\ Answers(call) /\ call.entry \in Seen(doc)
    BY <1>6 DEF Goes, PageCalls, Answers
  <2>2. /\ call.entry.version \in Nat
        /\ call.entry.status = "deleting" => call.entry.version = doc.version
    BY <2>1, SeenVersion
  <2>3. CASE call.kind = "poll"
    <3>1. CASE call.entry.status = "deleting"
      <4>1. PageAnswered(call) = Set(call.entry)
        BY <1>6, <2>3, <3>1 DEF PageAnswered
      <4>2. view.job # NoEntry => call.entry.version >= view.job.version
        BY <1>2, <1>3, <2>2, <3>1
      <4> QED
        BY <1>5, <2>1, <4>1, <4>2
    <3>2. CASE call.entry.status # "deleting"
      <4>1. PageAnswered(call) = view
        BY <1>6, <2>3, <3>2 DEF PageAnswered
      <4> QED
        BY <1>1, <1>3, <4>1
    <3> QED
      BY <3>1, <3>2
  <2>4. CASE call.kind \in {"open", "final"}
    <3>1. CASE Newer(call.entry)
      <4>1. PageAnswered(call) = Set(call.entry)
        BY <1>6, <2>4, <3>1 DEF PageAnswered
      <4> QED
        BY <1>5, <2>1, <3>1, <4>1 DEF Newer
    <3>2. CASE ~Newer(call.entry)
      <4>1. PageAnswered(call) = view
        BY <1>6, <2>4, <3>2 DEF PageAnswered
      <4> QED
        BY <1>1, <1>3, <4>1
    <3> QED
      BY <3>1, <3>2
  <2>5. CASE call.kind \in {"remove", "cancel"}
    <3>1. PageAnswered(call) = Set(call.entry)
      BY <1>6, <2>5 DEF PageAnswered
    <3>2. call.kind = "remove" => call.entry.status = "deleting"
      BY <2>1 DEF PageCalls
    <3>3. call.kind = "remove" /\ view.job # NoEntry => call.entry.version >= view.job.version
      BY <1>2, <1>3, <2>2, <3>2
    <3> QED
      BY <1>5, <1>6, <2>1, <2>5, <3>1, <3>3
  <2>6. call.kind \in {"open", "poll", "final", "remove", "cancel", "retry"}
    BY DEF PageCalls
  <2> QED
    BY <2>1, <2>3, <2>4, <2>5, <2>6
<1> QED
  BY <1>4, <1>6

LEMMA PageReceiveStep ==
    ASSUME PageInv, NEW c \in DOMAIN calls, PageReceive(c)
    PROVE  /\ PageInv'
           /\ \/ view.job = NoEntry \/ view'.job = NoEntry \/ CancelShown
              \/ view'.job.version >= view.job.version
<1>1. calls[c].step # "sent" /\ doc' = doc
  BY DEF PageReceive
<1>2. CASE Goes(calls[c])
  <2>1. LeaveTo(Elsewhere, c)
    BY <1>2 DEF PageReceive
  <2>2. view' = Elsewhere
    BY <2>1 DEF LeaveTo
  <2> QED
    BY <1>1, <2>1, <2>2, LeaveToStep, NoEntryUnseen
<1>3. CASE ~Goes(calls[c])
  <2> DEFINE call == calls[c]
             T == PageCalls(doc, Open)
  <2>1. /\ view' = IF call.mine THEN PageAnswered(call) ELSE view
        /\ calls' = RemoveAt(calls, c) /\ pushes' = pushes
    BY <1>3 DEF PageReceive
  <2>2. calls \in Seq(T)
    BY DEF PageInv
  <2>3. call \in T /\ calls' \in Seq(T)
    BY <2>1, <2>2, ItemsOf, Removed
  <2>4. CASE call.mine
    <3> HIDE DEF call
    <3>1. view' = PageAnswered(call) /\ Open
      BY <2>1, <2>3, <2>4 DEF PageCalls
    <3>2. /\ view' \in OpenPage(doc)
          /\ \/ view.job = NoEntry
             \/ call.kind = "cancel" /\ call.step = "ok"
             \/ view'.job.version >= view.job.version
      BY <1>1, <1>3, <2>3, <2>4, <3>1, PageAnsweredSound DEF call
    <3>3. (Open' <=> TRUE) /\ (Open <=> TRUE)
      BY <3>1, <3>2, OpenIsOpen DEF Open
    <3>4. PageCalls(doc, Open') = T
      BY <3>3 DEF Open
    <3>5. PageInv'
      BY <1>1, <2>1, <2>3, <3>2, <3>4 DEF PageInv
    <3>6. call.kind = "cancel" /\ call.step = "ok" => CancelShown
      BY <2>1 DEF CancelShown, call
    <3> QED
      BY <3>2, <3>5, <3>6
  <2>5. CASE ~call.mine
    <3>1. view' = view
      BY <2>1, <2>5
    <3>2. Open' = Open
      BY <3>1 DEF Open
    <3>3. PageInv'
      BY <1>1, <2>1, <2>3, <3>1, <3>2 DEF PageInv, Open
    <3>4. view.job # NoEntry => view.job.version \in Nat
      BY NoEntryUnseen DEF PageInv, OpenPage, Seen, Snap
    <3>5. view.job # NoEntry => view.job.version >= view.job.version
      BY <3>4
    <3> QED
      BY <3>1, <3>3, <3>5
  <2> QED
    BY <2>4, <2>5
<1> QED
  BY <1>2, <1>3

LEMMA OnPageUpdateStep ==
    ASSUME PageInv, NEW e \in pushes, OnPageUpdate(e)
    PROVE  /\ PageInv'
           /\ view.job = NoEntry \/ view'.job.version >= view.job.version
<1>1. /\ e \in Seen(doc) /\ e.version \in Nat /\ doc' = doc /\ pushes' \in SUBSET pushes
      /\ pushes \in SUBSET Seen(doc) /\ doc \in OneDocument /\ Later(doc, doc)
  BY SeenVersion, LaterSelf DEF OnPageUpdate, PageInv
<1>2. view.job # NoEntry => view.job.version >= view.job.version
  BY SeenVersion, NoEntryUnseen DEF PageInv, OpenPage
<1>3. CASE listening /\ Open
  <2>1. view \in OpenPage(doc)
    BY <1>3 DEF PageInv, Open
  <2>2. view' = IF Newer(e) THEN [view EXCEPT !.job = e] ELSE view
    BY <1>3 DEF OnPageUpdate
  <2>3. view' \in OpenPage(doc) /\ ((view'.job = e /\ Newer(e)) \/ view' = view)
    BY <1>1, <2>1, <2>2 DEF OpenPage
  <2>4. view.job = NoEntry \/ view'.job.version >= view.job.version
    BY <1>2, <2>3 DEF Newer
  <2>5. CASE Send("final")
    BY <1>1, <1>3, <2>3, <2>4, <2>5, PageSendStep
  <2>6. CASE calls' = calls
    <3>1. view' # Elsewhere /\ view # Elsewhere
      BY <2>1, <2>3, OpenIsOpen
    <3>2. PageCalls(doc, Open') = PageCalls(doc, Open)
      BY <3>1 DEF Open
    <3> QED
      BY <1>1, <2>3, <2>4, <2>6, <3>2 DEF PageInv
  <2> QED
    BY <1>3, <2>5, <2>6 DEF OnPageUpdate
<1>4. CASE ~(listening /\ Open)
  <2>1. view' = view /\ calls' = calls
    BY <1>4 DEF OnPageUpdate
  <2>2. PageInv'
    BY <1>1, <2>1, PageDocumentStep
  <2> QED
    BY <1>2, <2>1, <2>2
<1> QED
  BY <1>3, <1>4

\* A change elsewhere marks the job, or leaves an active one active or settles it.
LEMMA ChangeCases ==
    ASSUME JobChanges
    PROVE  \/ Mark
           \/ /\ doc.status = "active"
              /\ \E status \in {"active", "completed", "stopped"} :
                    (status = "active" => doc.version < MaxReports) /\ Update(status, "none")
  BY DEF JobChanges, NextKinds, Mark

LEMMA JobChangesStep ==
    ASSUME PageInv, JobChanges
    PROVE  PageInv'
<1>1. doc \in OneDocument /\ view' = view /\ calls' = calls /\ Emit(doc')
  BY DEF PageInv, JobChanges
<1>2. doc' \in OneDocument /\ Later(doc, doc') /\ doc' \in Seen(doc')
  <2>1. CASE Mark
    BY <1>1, <2>1, MarkLater
  <2>2. CASE doc.status = "active"
             /\ \E status \in {"active", "completed", "stopped"} : Update(status, "none")
    <3>1. PICK status \in {"active", "completed", "stopped"} : Update(status, "none")
      BY <2>2
    <3>2. status \in Statuses /\ "none" \in Cleanups
      BY DEF Statuses, Cleanups
    <3> QED
      BY <1>1, <2>2, <3>1, <3>2, UpdateLater
  <2> QED
    BY <2>1, <2>2, ChangeCases
<1> QED
  BY <1>1, <1>2, EmitStep, PageDocumentStep

LEMMA CleanupEndsStep ==
    ASSUME PageInv, CleanupEnds
    PROVE  PageInv'
<1>1. /\ doc \in OneDocument /\ doc.version \in Nat /\ doc.status = "deleting"
      /\ view' = view /\ calls' = calls /\ pushes' = pushes /\ pushes \in SUBSET Seen(doc)
  BY DEF PageInv, CleanupEnds, OneDocument
<1>2. doc' = [doc EXCEPT !.status = "deleted"] \/ doc' = [doc EXCEPT !.cleanup = "failed"]
  BY DEF CleanupEnds
<1>3. /\ doc' \in OneDocument /\ doc'.version = doc.version
      /\ doc'.status \in {"deleting", "deleted"}
  BY <1>1, <1>2 DEF OneDocument, Cleanups
<1>4. Later(doc, doc')
  BY <1>1, <1>3 DEF Later, Buried
<1>5. pushes' \in SUBSET Seen(doc')
  BY <1>1, <1>3, <1>4, SeenMore
<1> QED
  BY <1>1, <1>3, <1>4, <1>5, PageDocumentStep

LEMMA PageStarts == PageInit => PageInv
<1> SUFFICES ASSUME PageInit PROVE PageInv
  OBVIOUS
<1>1. doc \in OneDocument
  BY DEF PageInit, OneDocument, Statuses, Cleanups
<1>2. view = Opened /\ pushes = {}
  BY DEF PageInit
<1>3. Open <=> TRUE
  BY <1>2, OpenedIsOpen DEF Open
<1>4. PageCalls(doc, Open) = PageCalls(doc, TRUE)
  BY <1>2, OpenedIsOpen DEF Open
<1>5. NewRequest("open") \in PageCalls(doc, TRUE)
  BY DEF NewRequest, PageCalls, Answers
<1>6. calls \in Seq(PageCalls(doc, TRUE))
  <2>1. calls = <<NewRequest("open")>>
    BY DEF PageInit
  <2>2. ASSUME NEW T, NEW x \in T PROVE <<x>> \in Seq(T)
    OBVIOUS
  <2> QED
    BY <1>5, <2>1, <2>2
<1> QED
  BY <1>1, <1>2, <1>4, <1>6, OpenedIsOpen DEF PageInv

PageForward ==
    \/ view.job = NoEntry \/ view'.job = NoEntry
    \/ CancelShown \/ view'.job.version >= view.job.version

\* PageInv is inductive, and under it no step shows an older version.
LEMMA PageStep ==
    ASSUME PageInv, [PageNext]_vars
    PROVE  PageInv' /\ PageForward
<1>0. view.job # NoEntry => view.job.version >= view.job.version
  BY SeenVersion, NoEntryUnseen DEF PageInv, OpenPage
<1>1. view' = view => PageForward
  BY <1>0 DEF PageForward
<1>2. CASE JobChanges
  BY <1>1, <1>2, JobChangesStep DEF JobChanges
<1>3. CASE CleanupEnds
  BY <1>1, <1>3, CleanupEndsStep DEF CleanupEnds
<1>4. ASSUME NEW c \in DOMAIN calls, Handle(c) PROVE PageInv' /\ PageForward
  BY <1>1, <1>4, PageHandleStep DEF Handle
<1>5. ASSUME NEW c \in DOMAIN calls, PageCallFails(c) PROVE PageInv' /\ PageForward
  <2>1. /\ Answer(c, "failed", NoEntry) /\ doc' = doc /\ pushes' = pushes /\ view' = view
        /\ doc \in OneDocument /\ pushes \in SUBSET Seen(doc) /\ Later(doc, doc)
    BY <1>5, LaterSelf DEF PageCallFails, PageInv
  <2> QED
    BY <1>1, <2>1, AnswerStep
<1>6. ASSUME NEW c \in DOMAIN calls, PageReceive(c) PROVE PageInv' /\ PageForward
  BY <1>6, PageReceiveStep DEF PageForward
<1>7. ASSUME NEW kind \in {"open", "poll"}, Fetch(kind) PROVE PageInv' /\ PageForward
  <2>1. Open /\ Send(kind) /\ doc' = doc /\ pushes' = pushes /\ view' = view
    BY <1>7 DEF Fetch
  <2>2. view \in OpenPage(doc)
    BY <2>1 DEF PageInv, Open
  <2> QED
    BY <1>1, <2>1, <2>2, PageSendStep
<1>8. ASSUME NEW kind \in {"remove", "cancel", "retry"}, Button(kind)
      PROVE  PageInv' /\ PageForward
  <2>1. view.job # NoEntry /\ Send(kind) /\ doc' = doc /\ pushes' = pushes /\ view' = view
    BY <1>8 DEF Button
  <2>2. view \in OpenPage(doc) /\ Open
    BY <2>1, NoEntryUnseen DEF PageInv, Open
  <2> QED
    BY <1>1, <2>1, <2>2, PageSendStep
<1>9. CASE Navigate
  <2>1. PICK new \in {Elsewhere, Opened} : LeaveTo(new, 0) /\ doc' = doc
    BY <1>9 DEF Navigate
  <2>2. view' = new /\ new.job = NoEntry
    BY <2>1, NoEntryUnseen DEF LeaveTo, Opened
  <2> QED
    BY <2>1, <2>2, LeaveToStep DEF PageForward
<1>10. ASSUME NEW e \in pushes, OnPageUpdate(e) PROVE PageInv' /\ PageForward
  BY <1>10, OnPageUpdateStep DEF PageForward
<1>11. CASE PageReconnect
  <2>1. Open /\ Send("open") /\ doc' = doc /\ pushes' = {} /\ view' = view
    BY <1>11 DEF PageReconnect
  <2>2. view \in OpenPage(doc)
    BY <2>1 DEF PageInv, Open
  <2> QED
    BY <1>1, <2>1, <2>2, PageSendStep
<1>12. CASE TokenRefreshed \/ UNCHANGED vars
  <2>1. doc' = doc /\ view' = view /\ calls' = calls /\ pushes' \in SUBSET pushes
    BY <1>12 DEF TokenRefreshed, vars
  <2>2. doc \in OneDocument /\ Later(doc, doc) /\ pushes' \in SUBSET Seen(doc)
    BY <2>1, LaterSelf DEF PageInv
  <2> QED
    BY <1>1, <2>1, <2>2, PageDocumentStep
<1> QED
  BY <1>2, <1>3, <1>4, <1>5, <1>6, <1>7, <1>8, <1>9, <1>10, <1>11, <1>12 DEF PageNext

----------------------------------------------------------------------------
(* Theorems about the page *)

\* The inductive invariant, of every instance: what a snapshot on its way, an
\* answer or the page itself knows of the document.
THEOREM PageInvariant == PageSpec => []PageInv
<1>1. PageInv /\ [PageNext]_vars => PageInv'
  BY PageStep
<1> QED
  BY <1>1, PageStarts, PTL DEF PageSpec

\* While the page is open what it shows never goes back to an earlier version,
\* but for the answer of a cancellation, which is shown without looking.
THEOREM PageGoesForward == PageSpec => PageNeverBack
<1>1. PageInv /\ [PageNext]_vars =>
        [\/ view.job = NoEntry \/ view'.job = NoEntry
         \/ CancelShown \/ view'.job.version >= view.job.version]_vars
  BY PageStep DEF PageForward
<1> QED
  BY <1>1, PageInvariant, PTL DEF PageSpec, PageNeverBack

----------------------------------------------------------------------------
(* The bounds of the page *)

\* What is left of the bound on versions: a report before the job settles, one
\* version to settle it, and one to mark it.
VersionBound(d) ==
    d.version <= CASE d.status = "active" -> MaxReports
                   [] d.status \in {"completed", "stopped"} -> MaxReports + 1
                   [] OTHER -> MaxReports + 2

PageBounds ==
    /\ VersionBound(doc)
    /\ listening \in BOOLEAN
    /\ IsFiniteSet(pushes) /\ Cardinality(pushes) <= MaxPushes
    /\ Len(calls) <= MaxCalls
    /\ faults \in 0 .. MaxFaults

LEMMA VersionBounded ==
    ASSUME doc \in OneDocument, VersionBound(doc)
    PROVE  doc.version \in 0 .. MaxReports + 2
<1>1. doc.version \in Nat /\ MaxReports \in Nat
  BY PageAssumption DEF OneDocument
<1> QED
  BY <1>1 DEF VersionBound

LEMMA MarkBound ==
    ASSUME doc \in OneDocument, VersionBound(doc), Mark
    PROVE  VersionBound(doc')
<1>1. doc.version \in Nat /\ MaxReports \in Nat
  BY PageAssumption DEF OneDocument
<1>2. doc.version <= MaxReports + 1
  BY <1>1 DEF VersionBound, Mark
<1>3. doc'.status = "deleting" /\ doc'.version = doc.version + 1
  BY DEF Mark, Update
<1> QED
  BY <1>1, <1>2, <1>3 DEF VersionBound

LEMMA ReportBound ==
    ASSUME doc \in OneDocument, VersionBound(doc), doc.status = "active",
           NEW status \in {"active", "completed", "stopped"},
           status = "active" => doc.version < MaxReports, Update(status, "none")
    PROVE  VersionBound(doc')
<1>1. doc.version \in Nat /\ MaxReports \in Nat /\ doc.version <= MaxReports
  BY PageAssumption DEF OneDocument, VersionBound
<1>2. doc'.status = status /\ doc'.version = doc.version + 1
  BY DEF Update
<1> QED
  BY <1>1, <1>2 DEF VersionBound

\* What a page that is left still waits for is among what it waited for.
LEMMA LeaveShorter ==
    ASSUME PageInv, NEW c \in DOMAIN calls \cup {0}
    PROVE  Len(Leave(c)) <= Len(calls)
<1> DEFINE rest == Without(c)
           kept == {i \in DOMAIN rest : rest[i].kind \in {"remove", "retry"}}
           count == Cardinality(kept)
           left == [n \in 1 .. count |-> [rest[Nth(kept, n)] EXCEPT !.mine = FALSE]]
<1>1. calls \in Seq(PageCalls(doc, Open)) /\ Len(calls) \in Nat
  BY ItemsOf DEF PageInv
<1>2. rest \in Seq(PageCalls(doc, Open)) /\ Len(rest) <= Len(calls)
  <2>1. CASE c = 0
    BY <1>1, <2>1 DEF Without
  <2>2. CASE c # 0
    <3>1. rest = RemoveAt(calls, c) /\ c \in DOMAIN calls
      BY <2>2 DEF Without
    <3>2. rest \in Seq(PageCalls(doc, Open)) /\ Len(rest) = Len(calls) - 1
      BY <1>1, <3>1, RemovedPlaces
    <3> QED
      BY <1>1, <3>2
  <2> QED
    BY <2>1, <2>2
<1>3. Leave(c) = left
  BY DEF Leave
<1> HIDE DEF rest
<1>4. Len(rest) \in Nat /\ DOMAIN rest = 1 .. Len(rest)
  BY <1>2, ItemsOf
<1>5. kept \subseteq 1 .. Len(rest)
  BY <1>4
<1> HIDE DEF kept
<1>6. count \in Nat /\ count <= Len(rest)
  <2>1. IsFiniteSet(1 .. Len(rest)) /\ Cardinality(1 .. Len(rest)) = Len(rest)
    <3>1. 1 \in Int /\ Len(rest) \in Int
      BY <1>4
    <3>2. IsFiniteSet(1 .. Len(rest))
          /\ Cardinality(1 .. Len(rest)) = IF 1 > Len(rest) THEN 0 ELSE Len(rest) - 1 + 1
      BY <3>1, FS_Interval
    <3> QED
      BY <1>4, <3>2
  <2>2. IsFiniteSet(kept) /\ Cardinality(kept) <= Cardinality(1 .. Len(rest))
    BY <1>5, <2>1, FS_Subset
  <2> QED
    BY <2>1, <2>2, FS_CardinalityType
<1>7. DOMAIN left = 1 .. count
  OBVIOUS
<1> HIDE DEF left, count
<1>8. Leave(c) \in Seq(PageCalls(doc, FALSE)) /\ Len(left) \in Nat /\ DOMAIN left = 1 .. Len(left)
  BY <1>3, LeaveSound, ItemsOf
<1>9. Len(left) = count
  BY <1>6, <1>7, <1>8
<1> QED
  BY <1>1, <1>2, <1>3, <1>4, <1>6, <1>9

LEMMA LeaveToBounds ==
    ASSUME PageInv, PageBounds, NEW new \in {Elsewhere, Opened},
           NEW c \in DOMAIN calls \cup {0}, LeaveTo(new, c)
    PROVE  Len(calls') <= MaxCalls /\ listening' \in BOOLEAN /\ pushes' = pushes
<1>1. listening' \in BOOLEAN /\ pushes' = pushes
  BY DEF LeaveTo
<1>2. Leave(c) \in Seq(PageCalls(doc, FALSE)) /\ Len(Leave(c)) \in Nat
      /\ Len(Leave(c)) <= Len(calls)
  BY LeaveSound, LeaveShorter, LenProperties
<1>3. Len(calls) \in Nat /\ MaxCalls \in Nat /\ Len(calls) <= MaxCalls
  BY ItemsOf, ViewAssumption DEF PageInv, PageBounds
<1>4. \/ calls' = Leave(c)
      \/ Len(Leave(c)) < MaxCalls /\ calls' = Append(Leave(c), NewRequest("open"))
  BY DEF LeaveTo
<1>5. Len(Append(Leave(c), NewRequest("open"))) = Len(Leave(c)) + 1
  <2>1. NewRequest("open") \in PageCalls(doc, TRUE)
    BY DEF NewRequest, PageCalls, Answers
  <2>2. PageCalls(doc, FALSE) \subseteq PageCalls(doc, TRUE)
    BY LaterSelf, PageCallsMore DEF PageInv
  <2>3. Leave(c) \in Seq(PageCalls(doc, TRUE))
    BY <1>2, <2>2, SeqMonotonic
  <2> QED
    BY <2>1, <2>3, AppendProperties
<1> QED
  BY <1>1, <1>2, <1>3, <1>4, <1>5

LEMMA PageSendBounds ==
    ASSUME PageInv, Open, NEW kind \in {"open", "poll", "final", "remove", "cancel", "retry"},
           Send(kind)
    PROVE  Len(calls') <= MaxCalls
<1>1. NewRequest(kind) \in PageCalls(doc, TRUE)
  BY DEF NewRequest, PageCalls, Answers
<1>2. calls \in Seq(PageCalls(doc, TRUE))
  BY DEF PageInv
<1>3. calls' = Append(calls, NewRequest(kind)) /\ Len(calls) < MaxCalls
  BY DEF Send, MayCall
<1> QED
  BY <1>1, <1>2, <1>3, SendBounds

LEMMA AnswerBounds ==
    ASSUME PageInv, PageBounds, NEW c \in DOMAIN calls, NEW step, NEW e, Answer(c, step, e)
    PROVE  Len(calls') <= MaxCalls
<1>1. Len(calls') = Len(calls)
  BY DEF Answer, PageInv
<1> QED
  BY <1>1 DEF PageBounds

\* The handlers of the gateway change the document as its types allow.
LEMMA HandleBounds ==
    ASSUME PageInv, PageBounds, NEW c \in DOMAIN calls, Handle(c)
    PROVE  PageBounds'
<1>1. UNCHANGED <<listening, faults>> /\ doc \in OneDocument /\ VersionBound(doc)
  BY DEF Handle, PageInv, PageBounds
<1>2. ASSUME VersionBound(doc'), NEW step, NEW e, Answer(c, step, e),
             pushes' = pushes \/ \E x : Emit(x)
      PROVE  PageBounds'
  <2>1. IsFiniteSet(pushes') /\ Cardinality(pushes') <= MaxPushes
    BY <1>2, OnePush DEF PageBounds
  <2>2. Len(calls') <= MaxCalls
    BY <1>2, AnswerBounds
  <2> QED
    BY <1>1, <1>2, <2>1, <2>2 DEF PageBounds
<1>3. CASE GetJob(c)
  <2>1. doc' = doc /\ pushes' = pushes /\ \E step, e : Answer(c, step, e)
    BY <1>3 DEF GetJob
  <2> QED
    BY <1>1, <1>2, <2>1
<1>4. CASE DeleteJob(c)
  <2>1. CASE Mark /\ Answer(c, "ok", doc') /\ Emit(doc')
    BY <1>1, <1>2, <2>1, MarkBound
  <2>2. CASE /\ doc.status = "deleting" /\ doc' = [doc EXCEPT !.cleanup = "pending"]
             /\ Answer(c, "ok", doc') /\ Emit(doc')
    <3>1. doc'.status = doc.status /\ doc'.version = doc.version
      BY <1>1, <2>2 DEF OneDocument
    <3>2. VersionBound(doc')
      BY <1>1, <3>1 DEF VersionBound
    <3> QED
      BY <1>2, <2>2, <3>2
  <2>3. CASE doc' = doc /\ pushes' = pushes /\ Answer(c, "missing", NoEntry)
    BY <1>1, <1>2, <2>3
  <2> QED
    BY <1>4, <2>1, <2>2, <2>3 DEF DeleteJob
<1>5. CASE CancelJob(c)
  <2>1. CASE doc.status = "active" /\ Update("stopped", "none")
             /\ Answer(c, "ok", doc') /\ Emit(doc')
    <3>1. VersionBound(doc')
      BY <1>1, <2>1, ReportBound
    <3> QED
      BY <1>2, <2>1, <3>1
  <2>2. CASE doc' = doc /\ Answer(c, "ok", doc) /\ Emit(doc)
    BY <1>1, <1>2, <2>2
  <2>3. CASE doc' = doc /\ pushes' = pushes /\ Answer(c, "failed", NoEntry)
    BY <1>1, <1>2, <2>3
  <2> QED
    BY <1>5, <2>1, <2>2, <2>3 DEF CancelJob
<1>6. CASE RetryJob(c)
  <2>1. doc' = doc /\ pushes' = pushes /\ \E step : Answer(c, step, NoEntry)
    BY <1>6 DEF RetryJob
  <2> QED
    BY <1>1, <1>2, <2>1
<1> QED
  BY <1>3, <1>4, <1>5, <1>6 DEF Handle

LEMMA PageBoundsStep == PageInv /\ PageBounds /\ [PageNext]_vars => PageBounds'
<1> SUFFICES ASSUME PageInv, PageBounds, [PageNext]_vars PROVE PageBounds'
  OBVIOUS
<1>0. doc \in OneDocument /\ VersionBound(doc)
  BY DEF PageInv, PageBounds
<1>1. ASSUME doc' = doc, Len(calls') <= MaxCalls, pushes' \in SUBSET pushes,
             listening' \in BOOLEAN, faults' = faults
      PROVE  PageBounds'
  BY <1>0, <1>1, FewerPushes DEF PageBounds
<1>2. CASE JobChanges
  <2>1. VersionBound(doc')
    BY <1>0, <1>2, ChangeCases, MarkBound, ReportBound
  <2>2. IsFiniteSet(pushes') /\ Cardinality(pushes') <= MaxPushes
    BY <1>2, OnePush DEF JobChanges, PageBounds
  <2> QED
    BY <1>2, <2>1, <2>2 DEF JobChanges, PageBounds
<1>3. CASE CleanupEnds
  <2>1. /\ doc.status = "deleting" /\ UNCHANGED <<pushes, listening, calls>>
        /\ \/ doc' = [doc EXCEPT !.status = "deleted"] /\ UNCHANGED faults
           \/ doc' = [doc EXCEPT !.cleanup = "failed"] /\ Fault
    BY <1>3 DEF CleanupEnds
  <2>2. doc'.version = doc.version /\ doc'.status \in {"deleting", "deleted"}
    BY <1>0, <2>1 DEF OneDocument
  <2>3. VersionBound(doc')
    BY <1>0, <2>1, <2>2 DEF VersionBound
  <2>4. faults' \in 0 .. MaxFaults
    BY <2>1, OneFault DEF PageBounds
  <2> QED
    BY <2>1, <2>3, <2>4 DEF PageBounds
<1>4. ASSUME NEW c \in DOMAIN calls, Handle(c) PROVE PageBounds'
  BY <1>4, HandleBounds
<1>5. ASSUME NEW c \in DOMAIN calls, PageCallFails(c) PROVE PageBounds'
  <2>1. /\ Answer(c, "failed", NoEntry) /\ Fault
        /\ UNCHANGED <<doc, pushes, listening, view>>
    BY <1>5 DEF PageCallFails
  <2>2. Len(calls') <= MaxCalls /\ faults' \in 0 .. MaxFaults
    BY <2>1, AnswerBounds, OneFault DEF PageBounds
  <2> QED
    BY <1>0, <2>1, <2>2 DEF PageBounds
<1>6. ASSUME NEW c \in DOMAIN calls, PageReceive(c) PROVE PageBounds'
  <2>1. doc' = doc /\ faults' = faults
    BY <1>6 DEF PageReceive
  <2>2. CASE Goes(calls[c])
    BY <1>1, <1>6, <2>1, <2>2, LeaveToBounds DEF PageReceive
  <2>3. CASE ~Goes(calls[c])
    <3>1. calls' = RemoveAt(calls, c) /\ pushes' = pushes /\ listening' = listening
      BY <1>6, <2>3 DEF PageReceive
    <3>2. Len(calls) \in Nat /\ Len(calls') = Len(calls) - 1
      BY <3>1, ItemsOf, RemovedPlaces DEF PageInv
    <3>3. Len(calls') <= MaxCalls
      BY <3>2, ViewAssumption DEF PageBounds
    <3> QED
      BY <1>1, <2>1, <3>1, <3>3 DEF PageBounds
  <2> QED
    BY <2>2, <2>3
<1>7. ASSUME NEW kind \in {"open", "poll"}, Fetch(kind) PROVE PageBounds'
  <2>1. Open /\ Send(kind) /\ UNCHANGED <<doc, pushes, listening, faults>>
    BY <1>7 DEF Fetch
  <2>2. Len(calls') <= MaxCalls
    BY <2>1, PageSendBounds
  <2> QED
    BY <1>1, <2>1, <2>2 DEF PageBounds
<1>8. ASSUME NEW kind \in {"remove", "cancel", "retry"}, Button(kind) PROVE PageBounds'
  <2>1. view.job # NoEntry /\ Send(kind) /\ UNCHANGED <<doc, pushes, listening, faults>>
    BY <1>8 DEF Button
  <2>2. Open
    BY <2>1, NoEntryUnseen DEF Open
  <2>3. Len(calls') <= MaxCalls
    BY <2>1, <2>2, PageSendBounds
  <2> QED
    BY <1>1, <2>1, <2>3 DEF PageBounds
<1>9. CASE Navigate
  <2>1. PICK new \in {Elsewhere, Opened} : LeaveTo(new, 0) /\ doc' = doc /\ faults' = faults
    BY <1>9 DEF Navigate
  <2> QED
    BY <1>1, <2>1, LeaveToBounds
<1>10. ASSUME NEW e \in pushes, OnPageUpdate(e) PROVE PageBounds'
  <2>1. /\ pushes' \in SUBSET pushes /\ UNCHANGED <<doc, listening, faults>>
        /\ calls' = calls \/ (Open /\ Send("final"))
    BY <1>10 DEF OnPageUpdate
  <2>2. Len(calls') <= MaxCalls
    BY <2>1, PageSendBounds DEF PageBounds
  <2> QED
    BY <1>1, <2>1, <2>2 DEF PageBounds
<1>11. CASE PageReconnect
  <2>1. Open /\ Send("open") /\ pushes' = {} /\ UNCHANGED <<doc, listening, faults>>
    BY <1>11 DEF PageReconnect
  <2>2. Len(calls') <= MaxCalls
    BY <2>1, PageSendBounds
  <2> QED
    BY <1>1, <2>1, <2>2 DEF PageBounds
<1>12. CASE TokenRefreshed \/ UNCHANGED vars
  <2>1. doc' = doc /\ calls' = calls /\ faults' = faults /\ pushes' \in SUBSET pushes
        /\ listening' \in BOOLEAN
    BY <1>12 DEF TokenRefreshed, vars, PageBounds
  <2> QED
    BY <1>1, <2>1 DEF PageBounds
<1> QED
  BY <1>2, <1>3, <1>4, <1>5, <1>6, <1>7, <1>8, <1>9, <1>10, <1>11, <1>12 DEF PageNext

LEMMA PageBoundsInit == PageInit => PageBounds
<1> SUFFICES ASSUME PageInit PROVE PageBounds
  OBVIOUS
<1>1. VersionBound(doc)
  BY PageAssumption DEF PageInit, VersionBound
<1>2. pushes = {} /\ calls = <<NewRequest("open")>> /\ listening = TRUE /\ faults = 0
  BY DEF PageInit
<1>3. IsFiniteSet(pushes) /\ Cardinality(pushes) <= MaxPushes
  BY <1>2, FS_EmptySet, ViewAssumption
<1>4. Len(calls) = 1
  BY <1>2
<1> QED
  BY <1>1, <1>2, <1>3, <1>4, ViewAssumption DEF PageBounds

\* The document, events and requests of every instance have their types and stay
\* within their bounds, the versions too, as a job that settled is only marked.
THEOREM PageTypes == PageSpec => []PageTypeOK
<1>1. ASSUME PageInv, PageBounds PROVE PageTypeOK
  <2>1. doc \in OneDocument /\ doc.version \in 0 .. MaxReports + 2 /\ MaxReports \in Nat
    BY <1>1, VersionBounded, PageAssumption DEF PageInv, PageBounds
  <2>2. doc \in PageDocument
    BY <2>1 DEF OneDocument, PageDocument, Versions
  <2>3. Seen(doc) \subseteq Snapshot
    <3> SUFFICES ASSUME NEW e \in Seen(doc) PROVE e \in Snapshot
      OBVIOUS
    <3>1. e \in Snap /\ e.version \in Nat /\ e.version <= doc.version
      BY SeenVersion
    <3>2. e.version \in 0 .. MaxReports + 2
      BY <2>1, <3>1
    <3> QED
      BY <3>1, <3>2 DEF Snap, Snapshot, Versions
  <2>4. pushes \in SUBSET Snapshot
    BY <1>1, <2>3 DEF PageInv
  <2>5. view \in PageView \cup {Elsewhere}
    BY <1>1, <2>3 DEF PageInv, OpenPage, PageView
  <2>6. calls \in Seq(PageCall)
    <3>1. ASSUME NEW k \in PageCalls(doc, Open) PROVE k \in PageCall
      <4>1. k.entry \in Snapshot \cup {NoEntry}
        BY <2>3, <3>1 DEF PageCalls
      <4> QED
        BY <3>1, <4>1 DEF PageCalls, PageCall
    <3>2. calls \in Seq(PageCalls(doc, Open))
      BY <1>1 DEF PageInv
    <3> QED
      BY <3>1, <3>2, SeqMonotonic
  <2> QED
    BY <1>1, <2>2, <2>4, <2>5, <2>6 DEF PageBounds, PageTypeOK
<1> QED
  BY <1>1, PageBoundsInit, PageBoundsStep, PageInvariant, PTL DEF PageSpec
=============================================================================
