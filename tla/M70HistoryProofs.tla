--------------------------- MODULE M70HistoryProofs ---------------------------
(***************************************************************************)
(* Proofs about the files M70Log leaves on the disk: what is rotated is    *)
(* full, what is lost is the oldest and only when there is no room for     *)
(* more, and a file that is asked for is open.                             *)
(*                                                                         *)
(* The theorems are about a logger that is set between m70_log_init and    *)
(* m70_log_shutdown, by configurations that agree with each other, as the  *)
(* only ones of the repository do (main.c:310, log_error_example.c:37).    *)
(***************************************************************************)
EXTENDS M70LogProofs

\* The configurations agree on the size at which files are rotated, and the
\* one m70_log_init(NULL) leaves is no smaller.
SameSizes ==
    /\ \A c, d \in Configs : c.max_file_size = d.max_file_size
    /\ "defaults" \in Uses =>
          \A c \in Configs : c.max_file_size <= InitialLog.max_file_size

\* They agree on the number of rotated files, m70_log_init(NULL) included.
SameCounts ==
    /\ \A c, d \in Configs : c.max_file_count = d.max_file_count
    /\ "defaults" \in Uses =>
          \A c \in Configs : c.max_file_count = InitialLog.max_file_count

\* The conditions under which the files are as they should be.
Sized == "early" \notin Uses /\ "fprintf" \notin FailAt /\ SameSizes
Counted == "early" \notin Uses /\ "rename" \notin FailAt /\ SameCounts
Opens == {"mkdir", "fopen"} \intersect FailAt = {} /\ "defaults" \notin Uses
-----------------------------------------------------------------------------
(***************************************************************************)
(* The files of one path after n lines.  They hold lines up to n, a later  *)
(* one in a lower suffix; the suffixes in use are the first ones; what is  *)
(* missing is older than what is kept, and is missing only if `count'      *)
(* rotated files are kept.                                                 *)
(***************************************************************************)
Has(files, n) == \E i \in Suffixes : n \in files[i].lines

Whole(files, n) ==
    \A i \in Suffixes :
        /\ files[i].lines \subseteq 1..n
        /\ ~files[i].there => files[i].lines = {}

Sorted(files) ==
    \A i, j \in Suffixes : i < j =>
        \A a \in files[i].lines, b \in files[j].lines : b < a

Dense(files, count) ==
    \A i \in Suffixes : i >= 2 /\ files[i].there =>
        i <= count /\ \A j \in 1..(i - 1) : files[j].there

Newest(files, n) ==
    \A a \in 1..n : Has(files, a) => \A b \in a..n : Has(files, b)

LostFull(files, n, count) ==
    (\E a \in 1..n : ~Has(files, a)) => \A i \in 1..count : files[i].there

PathOK(files, n, count) ==
    /\ Whole(files, n) /\ Sorted(files) /\ Dense(files, count)
    /\ Newest(files, n) /\ LostFull(files, n, count)

FullOK(files, size) ==
    \A i \in Suffixes : i >= 1 /\ files[i].there => files[i].size >= size * KB

\* Every path's files; and the file in use exists.
DiskOK(s) ==
    /\ s.log.log_file # NoPath => s.disk[s.log.log_file][0].there
    /\ Sized => \A p \in Paths : FullOK(s.disk[p], s.log.max_file_size)
    /\ Counted => \A p \in Paths :
                    PathOK(s.disk[p], s.sent[p], s.log.max_file_count)

(***************************************************************************)
(* Either nothing was logged yet, or the settings are those of the         *)
(* configurations, or those of m70_log_init(NULL).                         *)
(***************************************************************************)
Fresh(s) ==
    /\ ~s.log.initialized /\ s.log.log_file = NoPath
    /\ s.log.max_file_size = InitialLog.max_file_size
    /\ s.log.max_file_count = InitialLog.max_file_count
    /\ \A p \in Paths : s.sent[p] = 0 /\ \A i \in Suffixes : s.disk[p][i] = Missing

Settled(s) ==
    /\ Sized => \A c \in Configs : c.max_file_size <= s.log.max_file_size
    /\ Counted => \A c \in Configs : c.max_file_count = s.log.max_file_count

\* What every call keeps.
Tidy(s) == Inv(s) /\ HandleOK(s) /\ DiskOK(s)

HistInv ==
    "early" \notin Uses =>
        SysInv /\ DiskOK(sys) /\ (Fresh(sys) \/ Settled(sys))
-----------------------------------------------------------------------------
(***************************************************************************)
(* The files of one path, for any files and counts.                        *)
(***************************************************************************)

\* Zero is a suffix, and so is the suffix before and up to any other.
LEMMA SuffixType ==
    /\ Suffixes \subseteq Nat /\ 0 \in Suffixes
    /\ \A i \in Suffixes : \A j \in Nat : j <= i => j \in Suffixes
    /\ \A count \in 0..MaxOld : 0..count \subseteq Suffixes
    /\ 1 \in Suffixes
  BY LogAssumption DEF Suffixes

\* Opening a path's file creates an empty one or none.
LEMMA OpenedPath ==
    ASSUME NEW files \in [Suffixes -> Files], NEW n \in Nat,
           NEW count \in 0..MaxOld, PathOK(files, n, count),
           NEW new, new = [files EXCEPT ![0] = IF @.there THEN @ ELSE Empty]
    PROVE  PathOK(new, n, count) /\ new[0].there
<1>1. \A i \in Suffixes : i # 0 => new[i] = files[i]
  BY SuffixType
<1>2. new[0] = IF files[0].there THEN files[0] ELSE Empty
  BY SuffixType
<1>3. files[0].there \in BOOLEAN /\ new[0].there /\ new[0].lines = files[0].lines
  BY <1>2, SuffixType DEF PathOK, Whole, Empty, Files
<1>4. \A i \in Suffixes : new[i].lines = files[i].lines
  BY <1>1, <1>3
<1>5. \A i \in Suffixes : i # 0 => new[i].there = files[i].there
  BY <1>1
<1>6. \A a : Has(new, a) <=> Has(files, a)
  BY <1>4 DEF Has
<1>7. Whole(new, n)
  BY <1>3, <1>4, <1>5 DEF PathOK, Whole
<1>8. Sorted(new)
  BY <1>4 DEF PathOK, Sorted
<1>9. Dense(new, count)
  BY <1>5, SuffixType DEF PathOK, Dense
<1>10. Newest(new, n)
  BY <1>6 DEF PathOK, Newest
<1>11. LostFull(new, n, count)
  BY <1>5, <1>6, SuffixType DEF PathOK, LostFull
<1> QED
  BY <1>3, <1>7, <1>8, <1>9, <1>10, <1>11 DEF PathOK

\* Where the files are after rotation: each one suffix higher, and the last
\* gone.  With max_file_count 0 there is one rotated file all the same.
Last(count) == IF count = 0 THEN 1 ELSE count

LEMMA RotatedShape ==
    ASSUME NEW files \in [Suffixes -> Files], NEW n \in Nat,
           NEW count \in 0..MaxOld, NEW removed \in BOOLEAN,
           PathOK(files, n, count), files[0].there,
           NEW new, new = Rotated(files, count, removed, {})
    PROVE  /\ new[0] = Missing
           /\ \A i \in 1..Last(count) :
                 /\ new[i].there = files[i - 1].there
                 /\ new[i].lines = files[i - 1].lines
           /\ \A i \in Suffixes : i > Last(count) => ~new[i].there /\ new[i].lines = {}
<1> DEFINE moved(i) == /\ i = 0 \/ i \in 1..(count - 1)
                       /\ files[i].there /\ i \notin {}
<1>1. \A i \in Suffixes :
         new[i] = IF i >= 1 /\ moved(i - 1) THEN files[i - 1]
                  ELSE IF moved(i) \/ (removed /\ i = count /\ i >= 1) THEN Missing
                  ELSE files[i]
  BY DEF Rotated
<1>2. /\ \A i \in Suffixes : files[i].there \in BOOLEAN
      /\ \A i \in Suffixes : ~files[i].there => files[i].lines = {}
      /\ \A i \in Suffixes : i >= 2 /\ files[i].there =>
            i <= count /\ files[i - 1].there
  BY SuffixType DEF PathOK, Whole, Dense, Files
<1>3. ~Missing.there /\ Missing.lines = {} /\ Missing.there \in BOOLEAN
  BY DEF Missing
<1>4. new[0] = Missing
  BY <1>1, SuffixType
<1>5. Last(count) \in Nat /\ Last(count) \in Suffixes /\ Last(count) >= 1
      /\ (count >= 1 => Last(count) = count)
  BY SuffixType DEF Last
<1>6. ASSUME NEW i \in 1..Last(count)
      PROVE  /\ new[i].there = files[i - 1].there
             /\ new[i].lines = files[i - 1].lines
  <2>1. i \in Suffixes /\ i >= 1 /\ i - 1 \in Suffixes /\ i \in Nat
    BY <1>5, SuffixType
  <2>2. CASE files[i - 1].there
    <3>1. moved(i - 1)
      BY <1>5, <2>1, <2>2 DEF Last
    <3> QED
      BY <1>1, <2>1, <3>1
  <2>3. CASE ~files[i - 1].there
    <3>1. i >= 2
      BY <2>1, <2>3
    <3>2. ~files[i].there
      BY <1>2, <2>1, <2>3, <3>1
    <3>3. new[i] \in {Missing, files[i]}
      BY <1>1, <2>1, <2>3
    <3>4. ~new[i].there /\ new[i].lines = {} /\ new[i].there \in BOOLEAN
      BY <1>2, <1>3, <2>1, <3>2, <3>3
    <3> QED
      BY <1>2, <2>1, <2>3, <3>4
  <2> QED
    BY <2>2, <2>3
<1>7. ASSUME NEW i \in Suffixes, i > Last(count)
      PROVE  ~new[i].there /\ new[i].lines = {}
  <2>1. i \in Nat /\ i >= 2 /\ i > count
    BY <1>5, <1>7, SuffixType DEF Last
  <2>2. ~files[i].there /\ files[i].lines = {}
    BY <1>2, <2>1
  <2>3. ~moved(i - 1) /\ ~moved(i)
    BY <1>5, <2>1
  <2> QED
    BY <1>1, <2>2, <2>3, <1>3
<1> QED
  BY <1>4, <1>6, <1>7

\* Rotation loses the last file's lines, and those only if as many files are
\* kept as there should be.
LEMMA RotatedPath ==
    ASSUME NEW files \in [Suffixes -> Files], NEW n \in Nat,
           NEW count \in 0..MaxOld, NEW removed \in BOOLEAN,
           PathOK(files, n, count), files[0].there
    PROVE  PathOK(Rotated(files, count, removed, {}), n, count)
<1> DEFINE new == Rotated(files, count, removed, {})
           last == Last(count)
<1>1. /\ new[0] = Missing
      /\ \A i \in 1..last :
            new[i].there = files[i - 1].there /\ new[i].lines = files[i - 1].lines
      /\ \A i \in Suffixes : i > last => ~new[i].there /\ new[i].lines = {}
  BY RotatedShape
<1>2. /\ last \in Nat /\ last >= 1 /\ count \in Nat /\ count <= last
      /\ last \in Suffixes /\ (count >= 1 => last = count)
  BY SuffixType DEF Last
<1>3. /\ Whole(files, n) /\ Sorted(files) /\ Dense(files, count)
      /\ Newest(files, n) /\ LostFull(files, n, count)
  BY DEF PathOK
<1> HIDE DEF new, last
<1>4. ~new[0].there /\ new[0].lines = {}
  BY <1>1 DEF Missing
<1>5. \A i \in Suffixes : /\ i \in Nat
                          /\ i = 0 \/ i \in 1..last \/ i > last
                          /\ i >= 1 => i - 1 \in Suffixes
  BY <1>2, SuffixType
<1>6. Whole(new, n)
  BY <1>1, <1>3, <1>4, <1>5 DEF Whole
<1>7. Sorted(new)
  <2> SUFFICES ASSUME NEW i \in Suffixes, NEW j \in Suffixes, i < j,
                      NEW a \in new[i].lines, NEW b \in new[j].lines
               PROVE  b < a
    BY DEF Sorted
  <2>1. i \in 1..last /\ j \in 1..last
    BY <1>1, <1>4, <1>5
  <2>2. i - 1 \in Suffixes /\ j - 1 \in Suffixes /\ i - 1 < j - 1
    BY <1>5, <2>1
  <2>3. a \in files[i - 1].lines /\ b \in files[j - 1].lines
    BY <1>1, <2>1
  <2> QED
    BY <1>3, <2>2, <2>3 DEF Sorted
<1>8. Dense(new, count)
  <2> SUFFICES ASSUME NEW i \in Suffixes, i >= 2, new[i].there
               PROVE  i <= count /\ \A j \in 1..(i - 1) : new[j].there
    BY DEF Dense
  <2>1. i \in 1..last /\ i \in Nat /\ i - 1 \in Suffixes
    BY <1>1, <1>4, <1>5
  <2>2. i <= count
    BY <1>2, <2>1 DEF Last, last
  <2>3. files[i - 1].there
    BY <1>1, <2>1
  <2>4. ASSUME NEW j \in 1..(i - 1)
        PROVE  new[j].there
    <3>1. j \in 1..last /\ new[j].there = files[j - 1].there
      BY <1>1, <1>2, <2>1
    <3>2. CASE j = 1
      BY <3>1, <3>2
    <3>3. CASE j >= 2
      <4>1. i - 1 >= 2 /\ j - 1 \in 1..((i - 1) - 1)
        BY <2>1, <3>3
      <4> QED
        BY <1>3, <2>1, <2>3, <3>1, <4>1 DEF Dense
    <3> QED
      BY <3>2, <3>3
  <2> QED
    BY <2>2, <2>4
\* What is kept was kept, in a file before the last.
<1>9. \A a : Has(new, a) <=> \E i \in 0..(last - 1) : a \in files[i].lines
  <2> SUFFICES ASSUME NEW a
               PROVE  Has(new, a) <=> \E i \in 0..(last - 1) : a \in files[i].lines
    OBVIOUS
  <2>1. ASSUME NEW j \in Suffixes, a \in new[j].lines
        PROVE  \E i \in 0..(last - 1) : a \in files[i].lines
    <3>1. j \in 1..last
      BY <1>1, <1>4, <1>5, <2>1
    <3>2. j - 1 \in 0..(last - 1) /\ a \in files[j - 1].lines
      BY <1>1, <1>2, <2>1, <3>1
    <3> QED
      BY <3>2
  <2>2. ASSUME NEW i \in 0..(last - 1), a \in files[i].lines
        PROVE  Has(new, a)
    <3>1. /\ i + 1 \in 1..last /\ i + 1 \in Suffixes /\ (i + 1) - 1 = i
      BY <1>2, SuffixType
    <3>2. a \in new[i + 1].lines
      BY <1>1, <2>2, <3>1
    <3> QED
      BY <3>1, <3>2 DEF Has
  <2> QED
    BY <2>1, <2>2 DEF Has
<1>10. \A i \in 0..(last - 1) : i \in Suffixes
  BY <1>2, SuffixType
<1>11. Newest(new, n)
  <2> SUFFICES ASSUME NEW a \in 1..n, Has(new, a), NEW b \in a..n
               PROVE  Has(new, b)
    BY DEF Newest
  <2>1. PICK i \in 0..(last - 1) : a \in files[i].lines
    BY <1>9
  <2>2. Has(files, a)
    BY <1>10, <2>1 DEF Has
  <2>3. PICK j \in Suffixes : b \in files[j].lines
    BY <1>3, <2>2 DEF Newest, Has
  <2>4. CASE j < last
    <3>1. j \in 0..(last - 1)
      BY <1>2, <1>5, <2>4
    <3> QED
      BY <1>9, <2>3, <3>1
  <2>5. CASE j >= last
    <3>1. i \in Suffixes /\ i < j
      BY <1>2, <1>5, <1>10, <2>5
    <3>2. b < a
      BY <1>3, <2>1, <2>3, <3>1 DEF Sorted
    <3> QED
      BY <3>2
  <2> QED
    BY <1>2, <1>5, <2>4, <2>5
<1>12. LostFull(new, n, count)
  <2> SUFFICES ASSUME NEW a \in 1..n, ~Has(new, a), NEW i \in 1..count
               PROVE  new[i].there
    BY DEF LostFull
  <2>1. i \in 1..last /\ i - 1 \in Suffixes /\ i - 1 \in Nat /\ last = count
        /\ count \in 1..count /\ count \in Suffixes
    BY <1>2, SuffixType
  <2>2. \A k \in 1..count : files[k].there
    <3>1. CASE ~Has(files, a)
      BY <1>3, <3>1 DEF LostFull
    <3>2. CASE Has(files, a)
      <4>1. PICK j \in Suffixes : a \in files[j].lines
        BY <3>2 DEF Has
      <4>2. j >= last
        BY <1>2, <1>5, <1>9, <4>1
      <4>3. files[j].there
        BY <1>3, <4>1 DEF Whole
      <4>4. j = count
        BY <1>3, <1>5, <2>1, <4>2, <4>3 DEF Dense
      <4>5. \A k \in 1..(count - 1) : files[k].there
        BY <1>3, <2>1, <4>3, <4>4 DEF Dense
      <4> QED
        BY <2>1, <4>3, <4>4, <4>5
    <3> QED
      BY <3>1, <3>2
  <2>3. files[i - 1].there
    BY <2>1, <2>2
  <2> QED
    BY <1>1, <2>1, <2>3
<1> QED
  BY <1>6, <1>7, <1>8, <1>11, <1>12 DEF PathOK, new

\* A line more at the end of the path's file.
LEMMA AppendedPath ==
    ASSUME NEW files \in [Suffixes -> Files], NEW n \in Nat,
           NEW count \in 0..MaxOld, PathOK(files, n, count), files[0].there,
           NEW new, \A i \in Suffixes : i # 0 => new[i] = files[i],
           new[0].there, new[0].lines = files[0].lines \union {n + 1}
    PROVE  PathOK(new, n + 1, count)
<1>1. /\ Whole(files, n) /\ Sorted(files) /\ Dense(files, count)
      /\ Newest(files, n) /\ LostFull(files, n, count)
  BY DEF PathOK
<1>2. \A i \in Suffixes : /\ new[i].there = files[i].there \/ i = 0
                          /\ files[i].lines \subseteq new[i].lines
                          /\ new[i].lines \subseteq files[i].lines \union {n + 1}
                          /\ i # 0 => new[i].lines = files[i].lines
  OBVIOUS
<1>3. Whole(new, n + 1)
  <2> SUFFICES ASSUME NEW i \in Suffixes
               PROVE  /\ new[i].lines \subseteq 1..(n + 1)
                      /\ ~new[i].there => new[i].lines = {}
    BY DEF Whole
  <2>1. new[i].lines \subseteq 1..(n + 1)
    BY <1>1, <1>2 DEF Whole
  <2>2. ~new[i].there => new[i].lines = {}
    BY <1>1 DEF Whole
  <2> QED
    BY <2>1, <2>2
<1>4. Sorted(new)
  <2> SUFFICES ASSUME NEW i \in Suffixes, NEW j \in Suffixes, i < j,
                      NEW a \in new[i].lines, NEW b \in new[j].lines
               PROVE  b < a
    BY DEF Sorted
  <2>1. j # 0 /\ b \in files[j].lines /\ b \in 1..n
    BY <1>1, <1>2, SuffixType DEF Whole
  <2>2. CASE a = n + 1
    BY <2>1, <2>2
  <2>3. CASE a \in files[i].lines
    BY <1>1, <2>1, <2>3 DEF Sorted
  <2> QED
    BY <1>2, <2>2, <2>3
<1>5. Dense(new, count)
  <2>1. \A i \in Suffixes : \A j \in 1..(i - 1) : j \in Suffixes /\ j # 0
    BY SuffixType
  <2>2. \A i \in Suffixes : i >= 2 => i # 0
    BY SuffixType
  <2> QED
    BY <1>1, <2>1, <2>2 DEF Dense
<1>6. /\ \A a : Has(files, a) => Has(new, a)
      /\ Has(new, n + 1)
      /\ \A a \in 1..n : Has(new, a) => Has(files, a)
  <2>1. \A a : Has(files, a) => Has(new, a)
    BY <1>2 DEF Has
  <2>2. Has(new, n + 1)
    BY SuffixType DEF Has
  <2>3. \A a \in 1..n : Has(new, a) => Has(files, a)
    BY <1>2 DEF Has
  <2> QED
    BY <2>1, <2>2, <2>3
<1>7. \A a \in 1..(n + 1) : a = n + 1 \/ a \in 1..n
  OBVIOUS
<1>8. Newest(new, n + 1)
  <2> SUFFICES ASSUME NEW a \in 1..(n + 1), Has(new, a), NEW b \in a..(n + 1)
               PROVE  Has(new, b)
    BY DEF Newest
  <2>1. CASE b = n + 1
    BY <1>6, <2>1
  <2>2. CASE b # n + 1
    <3>1. a \in 1..n /\ b \in a..n
      BY <2>2
    <3> QED
      BY <1>1, <1>6, <3>1 DEF Newest
  <2> QED
    BY <2>1, <2>2
<1>9. LostFull(new, n + 1, count)
  <2> SUFFICES ASSUME NEW a \in 1..(n + 1), ~Has(new, a), NEW i \in 1..count
               PROVE  new[i].there
    BY DEF LostFull
  <2>1. a \in 1..n /\ ~Has(files, a)
    BY <1>6, <1>7
  <2>2. files[i].there /\ i \in Suffixes /\ i # 0
    BY <1>1, <2>1, SuffixType DEF LostFull
  <2> QED
    BY <2>2
<1> QED
  BY <1>3, <1>4, <1>5, <1>8, <1>9 DEF PathOK

\* Rotation sends a full file away; the others stay full.
LEMMA RotatedFull ==
    ASSUME NEW files \in [Suffixes -> Files], NEW size \in Nat, NEW count,
           NEW removed, NEW kept, FullOK(files, size), files[0].size >= size * KB
    PROVE  FullOK(Rotated(files, count, removed, kept), size)
<1> DEFINE new == Rotated(files, count, removed, kept)
<1> SUFFICES ASSUME NEW i \in Suffixes, i >= 1, new[i].there
             PROVE  new[i].size >= size * KB
  BY DEF FullOK
<1>1. i - 1 \in Suffixes /\ (i - 1 = 0 \/ i - 1 >= 1)
  BY SuffixType
<1>2. \/ new[i] = files[i - 1] /\ files[i - 1].there
      \/ new[i] = Missing
      \/ new[i] = files[i]
  BY DEF Rotated
<1>3. ~Missing.there
  BY DEF Missing
<1> QED
  BY <1>1, <1>2, <1>3 DEF FullOK

\* What does not change rotated files keeps them full.
LEMMA SameFull ==
    ASSUME NEW files, NEW new, NEW size, FullOK(files, size),
           \A i \in Suffixes : i # 0 => new[i] = files[i]
    PROVE  FullOK(new, size)
  BY SuffixType DEF FullOK
-----------------------------------------------------------------------------
(***************************************************************************)
(* The steps every call is made of.                                        *)
(***************************************************************************)

\* The settings rotation goes by are the same.
SameLimits(s, r) ==
    /\ r.log.max_file_size = s.log.max_file_size
    /\ r.log.max_file_count = s.log.max_file_count

\* The parts of a state have their types.
LEMMA DiskType ==
    ASSUME NEW s \in States, NEW p \in Paths
    PROVE  /\ s.disk \in [Paths -> [Suffixes -> Files]]
           /\ s.disk[p] \in [Suffixes -> Files]
           /\ s.disk[p][0] \in Files
           /\ s.disk[p][0].size \in Nat
           /\ s.disk[p][0].there \in BOOLEAN
           /\ s.sent \in [Paths -> Nat] /\ s.sent[p] \in Nat
           /\ s.log \in LogRecords
           /\ s.log.max_file_size \in Nat
           /\ s.log.max_file_count \in 0..MaxOld
<1>1. s.disk \in [Paths -> [Suffixes -> Files]] /\ s.sent \in [Paths -> Nat]
      /\ s.log \in LogRecords
  BY DEF States
<1>2. s.disk[p] \in [Suffixes -> Files] /\ s.sent[p] \in Nat
  BY <1>1
<1>3. s.disk[p][0] \in Files
  BY <1>2, SuffixType
<1> QED
  BY <1>1, <1>2, <1>3 DEF Files, LogRecords

\* Closing or keeping the FILE, and changing other settings, keeps the files.
LEMMA DiskSame ==
    ASSUME NEW s, DiskOK(s), NEW r, r.disk = s.disk, r.sent = s.sent,
           r.log.log_file \in {NoPath, s.log.log_file}, SameLimits(s, r)
    PROVE  DiskOK(r)
  BY DEF DiskOK, SameLimits

LEMMA FopenDisk ==
    ASSUME NEW s \in States, s.log.log_file = NoPath,
           s.log.log_file_path \in Paths, DiskOK(s), NEW r \in Fopen(s)
    PROVE  DiskOK(r) /\ SameLimits(s, r)
<1>1. /\ r \in States
      /\ r.log = [s.log EXCEPT !.log_file = r.log.log_file]
      /\ r.log.log_file \in {NoPath, s.log.log_file_path}
  BY FopenInv
<1>2. SameLimits(s, r)
  BY <1>1 DEF SameLimits, States, LogRecords
<1>3. CASE r = [s EXCEPT !.log.log_file = NoPath]
  <2>1. r.disk = s.disk /\ r.sent = s.sent /\ r.log.log_file = NoPath
    BY <1>3 DEF States, LogRecords
  <2> QED
    BY <1>2, <2>1, DiskSame
<1>4. CASE r = [s EXCEPT !.log.log_file = s.log.log_file_path,
                         !.disk[s.log.log_file_path][0] =
                             IF @.there THEN @ ELSE Empty,
                         !.open = @ + 1]
  <2> DEFINE p == s.log.log_file_path
             new == [s.disk[p] EXCEPT ![0] = IF @.there THEN @ ELSE Empty]
  <2>1. r.disk = [s.disk EXCEPT ![p] = new] /\ r.sent = s.sent
    BY <1>4 DEF States
  <2>2. s.disk \in [Paths -> [Suffixes -> Files]] /\ p \in Paths
    BY DEF States
  <2> HIDE DEF new, p
  <2>3. r.disk[p] = new /\ \A q \in Paths : q # p => r.disk[q] = s.disk[q]
    BY <2>1, <2>2
  <2>4. /\ \A i \in Suffixes : i # 0 => new[i] = s.disk[p][i]
        /\ new[0].there
    <3> DEFINE files == s.disk[p]
    <3>1. files \in [Suffixes -> Files] /\ new = [files EXCEPT ![0] =
                                             IF @.there THEN @ ELSE Empty]
      BY <2>2 DEF new
    <3> HIDE DEF files
    <3>2. new[0] = IF files[0].there THEN files[0] ELSE Empty
      BY <3>1, SuffixType
    <3>3. \A i \in Suffixes : i # 0 => new[i] = files[i]
      BY <3>1
    <3> QED
      BY <3>2, <3>3 DEF Empty, files
  <2>5. r.log.log_file # NoPath => r.disk[r.log.log_file][0].there
    BY <1>1, <2>3, <2>4 DEF p
  <2>6. ASSUME Sized, NEW q \in Paths
        PROVE  FullOK(r.disk[q], r.log.max_file_size)
    <3>1. FullOK(s.disk[q], s.log.max_file_size)
      BY <2>6 DEF DiskOK
    <3> QED
      BY <1>2, <2>3, <2>4, <3>1, SameFull DEF SameLimits
  <2>7. ASSUME Counted, NEW q \in Paths
        PROVE  PathOK(r.disk[q], r.sent[q], r.log.max_file_count)
    <3>1. PathOK(s.disk[q], s.sent[q], s.log.max_file_count)
      BY <2>7 DEF DiskOK
    <3>2. CASE q # p
      BY <1>2, <2>1, <2>3, <3>1, <3>2 DEF SameLimits
    <3>3. CASE q = p
      <4>1. PathOK(new, s.sent[p], s.log.max_file_count)
        BY <2>2, <3>1, <3>3, DiskType, OpenedPath DEF new
      <4> QED
        BY <1>2, <2>1, <2>3, <3>3, <4>1 DEF SameLimits
    <3> QED
      BY <3>2, <3>3
  <2> QED
    BY <1>2, <2>5, <2>6, <2>7 DEF DiskOK
<1> QED
  BY <1>3, <1>4 DEF Fopen

\* g_log_config and the files once the FILE is closed and the files renamed.
ClosedLog(s) == [s.log EXCEPT !.log_file = NoPath, !.current_file_size = 0]

RenamedDisk(s, removed, kept) ==
    LET p == s.log.log_file_path IN
    [s.disk EXCEPT ![p] = Rotated(s.disk[p], s.log.max_file_count, removed, kept)]

LEMMA RenamedParts ==
    ASSUME NEW s, Inv(s), s.log.log_file # NoPath, NEW removed, NEW kept,
           NEW t, t = Renamed(s, removed, kept)
    PROVE  /\ s.log.log_file_path \in Paths /\ t \in States
           /\ t.log.log_file = NoPath
           /\ t.log.log_file_path = s.log.log_file_path
           /\ t.log = ClosedLog(s)
           /\ SameLimits(s, t) /\ t.sent = s.sent
           /\ t.disk = RenamedDisk(s, removed, kept)
<1> DEFINE p == s.log.log_file_path
           g == Rotated(s.disk[p], s.log.max_file_count, removed, kept)
           d == [s.disk EXCEPT ![p] = g]
           l == [s.log EXCEPT !.log_file = NoPath, !.current_file_size = 0]
<1>1. /\ s \in States /\ p \in Paths /\ s.log \in LogRecords /\ s.open \in Nat
      /\ s.open >= 1 /\ s.disk \in [Paths -> [Suffixes -> Files]]
      /\ s.sent \in [Paths -> Nat] /\ s.crashed \in BOOLEAN
  BY DEF Inv, FileOK, States
<1>2. /\ l \in LogRecords /\ l.log_file = NoPath /\ l.log_file_path = p
      /\ l.max_file_size = s.log.max_file_size
      /\ l.max_file_count = s.log.max_file_count
  BY <1>1 DEF LogRecords
<1>3. d \in [Paths -> [Suffixes -> Files]]
  <2>1. g \in [Suffixes -> Files]
    BY <1>1, RotatedType
  <2> HIDE DEF g
  <2> QED
    BY <1>1, <2>1
<1>4. t = [log |-> l, disk |-> d, open |-> s.open - 1, sent |-> s.sent,
           crashed |-> s.crashed]
  <2> DEFINE c == Fclose(s)
  <2>1. /\ c \in States /\ c.log = [s.log EXCEPT !.log_file = NoPath]
        /\ c.open = s.open - 1 /\ c.disk = s.disk /\ c.crashed = s.crashed
    BY FcloseInv DEF Inv
  <2>2. c.sent = s.sent
    BY <1>1 DEF Fclose, States
  <2>3. t = [c EXCEPT !.log.current_file_size = 0, !.disk[p] = g]
    <3>1. t = [c EXCEPT !.log.current_file_size = 0,
                        !.disk[p] = Rotated(@, s.log.max_file_count, removed, kept)]
      BY Zenon DEF Renamed
    <3> QED
      BY <2>1, <3>1
  <2> HIDE DEF c, g
  <2>4. t = [c EXCEPT !.log = [@ EXCEPT !.current_file_size = 0],
                      !.disk = [@ EXCEPT ![p] = g]]
    BY <2>3
  <2>5. t = [c EXCEPT !.log = l, !.disk = d]
    BY <1>1, <2>1, <2>4 DEF LogRecords
  <2> HIDE DEF l, d
  <2> QED
    BY <2>1, <2>2, <2>5 DEF States
<1>5. /\ t \in States /\ t.log = l /\ t.disk = d /\ t.sent = s.sent
  <2> HIDE DEF l, d
  <2> QED
    BY <1>1, <1>2, <1>3, <1>4, StateParts
<1>6. t.log = ClosedLog(s) /\ t.disk = RenamedDisk(s, removed, kept)
  BY <1>5 DEF ClosedLog, RenamedDisk
<1> HIDE DEF l
<1> QED
  BY <1>1, <1>2, <1>5, <1>6 DEF SameLimits

LEMMA TimesMono ==
    ASSUME NEW a \in Nat, NEW b \in Nat, NEW k \in Nat, a <= b
    PROVE  a * k <= b * k
  BY SMT

\* A file rotation sends away is as long as the limit.
LEMMA RotateDisk ==
    ASSUME NEW s, Inv(s), HandleOK(s), DiskOK(s),
           NEW r \in rotate_log_file_if_needed(s)
    PROVE  DiskOK(r) /\ SameLimits(s, r)
<1>1. CASE r = s
  BY <1>1 DEF SameLimits
<1>2. CASE r # s
  <2> DEFINE p == s.log.log_file_path
             files == s.disk[p]
  <2>1. /\ s.log.log_file # NoPath
        /\ ~(s.log.current_file_size < s.log.max_file_size)
    BY <1>2 DEF rotate_log_file_if_needed
  <2>2. PICK removed \in Tries("remove"), kept \in NotRenamed(s) :
           r \in Fopen(Renamed(s, removed, kept))
    BY <1>2 DEF rotate_log_file_if_needed
  <2> DEFINE t == Renamed(s, removed, kept)
             new == Rotated(files, s.log.max_file_count, removed, kept)
  <2>3. /\ p \in Paths /\ t \in States
        /\ t.log.log_file = NoPath /\ t.log.log_file_path = p
        /\ SameLimits(s, t) /\ t.sent = s.sent
        /\ t.disk = [s.disk EXCEPT ![p] = new]
    <3>1. t = Renamed(s, removed, kept)
      OBVIOUS
    <3> HIDE DEF t
    <3>2. t.disk = RenamedDisk(s, removed, kept)
      BY <2>1, <3>1, RenamedParts
    <3> QED
      BY <2>1, <3>1, <3>2, RenamedParts DEF RenamedDisk
  <2>4. p = s.log.log_file /\ s \in States /\ files[0].there
    BY <2>1 DEF HandleOK, Inv, DiskOK
  <2> HIDE DEF t, p, new
  <2>5. /\ t.disk[p] = new
        /\ \A q \in Paths : q # p => t.disk[q] = s.disk[q]
        /\ s.disk \in [Paths -> [Suffixes -> Files]]
        /\ files \in [Suffixes -> Files]
    BY <2>3, <2>4, DiskType
  <2>6. ASSUME Sized, NEW q \in Paths
        PROVE  FullOK(t.disk[q], t.log.max_file_size)
    <3>1. FullOK(s.disk[q], s.log.max_file_size)
      BY <2>6 DEF DiskOK
    <3>2. CASE q # p
      BY <2>3, <2>5, <3>1, <3>2 DEF SameLimits
    <3>3. CASE q = p
      <4>1. /\ s.log.max_file_size \in Nat /\ s.log.current_file_size \in Nat
            /\ s.log.max_file_size <= s.log.current_file_size
            /\ files[0].size \in Nat
        BY <2>1, <2>3, <2>4, DiskType DEF LogRecords
      <4>2. s.log.current_file_size * KB <= files[0].size
        BY <2>1, <2>4, <2>6 DEF Sized, Inv, CountOK, CounterOK
      <4>3. s.log.max_file_size * KB <= s.log.current_file_size * KB
        BY <4>1, TimesMono, LogAssumption
      <4>4. files[0].size >= s.log.max_file_size * KB
        BY <4>1, <4>2, <4>3, LogAssumption
      <4> HIDE DEF files
      <4>5. FullOK(new, s.log.max_file_size)
        BY <2>5, <3>1, <3>3, <4>1, <4>4, RotatedFull DEF new, files
      <4> QED
        BY <2>3, <2>5, <3>3, <4>5 DEF SameLimits
    <3> QED
      BY <3>2, <3>3
  <2>7. ASSUME Counted, NEW q \in Paths
        PROVE  PathOK(t.disk[q], t.sent[q], t.log.max_file_count)
    <3>1. PathOK(s.disk[q], s.sent[q], s.log.max_file_count)
      BY <2>7 DEF DiskOK
    <3>2. CASE q # p
      BY <2>3, <2>5, <3>1, <3>2 DEF SameLimits
    <3>3. CASE q = p
      <4>1. kept = {} /\ removed \in BOOLEAN
        BY <2>2, <2>7 DEF Counted, NotRenamed, Tries
      <4>2. s.log.max_file_count \in 0..MaxOld /\ s.sent[p] \in Nat
        BY <2>3, <2>4, DiskType
      <4> HIDE DEF files
      <4>3. PathOK(new, s.sent[p], s.log.max_file_count)
        BY <2>4, <2>5, <3>1, <3>3, <4>1, <4>2, RotatedPath DEF new, files
      <4> QED
        BY <2>3, <2>5, <3>3, <4>3 DEF SameLimits
    <3> QED
      BY <3>2, <3>3
  <2>8. DiskOK(t)
    BY <2>3, <2>6, <2>7 DEF DiskOK
  <2>9. r \in Fopen(t)
    BY <2>2 DEF t
  <2> QED
    BY <2>3, <2>8, <2>9, FopenDisk DEF SameLimits
<1> QED
  BY <1>1, <1>2

\* The FILE and the size counted for it are what a line may change of
\* g_log_config.
SameSettings(s, r) ==
    r.log = [s.log EXCEPT !.log_file = r.log.log_file,
                          !.current_file_size = r.log.current_file_size]

\* fopen does not fail.
LEMMA FopenOpens ==
    ASSUME Opens, NEW s \in States, s.log.log_file_path \in Paths, NEW r \in Fopen(s)
    PROVE  r.log.log_file = s.log.log_file_path
<1>1. Tries("fopen") = {TRUE}
  BY DEF Opens, Tries
<1>2. r = [s EXCEPT !.log.log_file = s.log.log_file_path,
                    !.disk[s.log.log_file_path][0] =
                        IF @.there THEN @ ELSE Empty,
                    !.open = @ + 1]
  BY <1>1 DEF Fopen
<1> QED
  BY <1>2 DEF States, LogRecords

LEMMA RotateKeeps ==
    ASSUME NEW s, Inv(s), NEW r \in rotate_log_file_if_needed(s)
    PROVE  /\ SameSettings(s, r)
           /\ Opens => (r.log.log_file = NoPath <=> s.log.log_file = NoPath)
<1>1. CASE r = s
  BY <1>1 DEF SameSettings, Inv, States, LogRecords
<1>2. CASE r # s
  <2>1. s.log.log_file # NoPath
    BY <1>2 DEF rotate_log_file_if_needed
  <2>2. PICK removed \in Tries("remove"), kept \in NotRenamed(s) :
           r \in Fopen(Renamed(s, removed, kept))
    BY <1>2 DEF rotate_log_file_if_needed
  <2> DEFINE t == Renamed(s, removed, kept)
  <2>4. r \in Fopen(t) /\ t = Renamed(s, removed, kept)
    BY <2>2
  <2> HIDE DEF t
  <2>3. /\ t \in States /\ t.log.log_file_path \in Paths
        /\ t.log = ClosedLog(s)
    BY <2>1, <2>4, RenamedParts
  <2>5. r.log = [t.log EXCEPT !.log_file = r.log.log_file]
    BY <2>3, <2>4, FopenInv
  <2>6. s.log \in LogRecords
    BY DEF Inv, States
  <2>7. SameSettings(s, r)
    BY <2>3, <2>5, <2>6 DEF SameSettings, LogRecords, ClosedLog
  <2>8. Opens => r.log.log_file # NoPath
    BY <2>3, <2>4, FopenOpens, LogAssumption
  <2> QED
    BY <2>1, <2>7, <2>8
<1> QED
  BY <1>1, <1>2

\* A line is added to the file in use, or fprintf fails.
LEMMA AppendParts ==
    ASSUME NEW s, Inv(s), s.log.log_file # NoPath,
           NEW ok \in Tries("fprintf"), NEW b \in LineSizes
    PROVE  LET r == Append(s, ok, b)
               p == s.log.log_file
           IN  /\ SameSettings(s, r) /\ r.log.log_file = p /\ p \in Paths
               /\ \/ r.disk = s.disk /\ r.sent = s.sent
                  \/ /\ r.sent = [s.sent EXCEPT ![p] = @ + 1]
                     /\ \A q \in Paths : q # p => r.disk[q] = s.disk[q]
                     /\ \A i \in Suffixes : i # 0 => r.disk[p][i] = s.disk[p][i]
                     /\ r.disk[p][0].there = s.disk[p][0].there
                     /\ r.disk[p][0].lines = s.disk[p][0].lines \union {s.sent[p] + 1}
<1> DEFINE r == Append(s, ok, b)
           p == s.log.log_file
           k == (s.log.current_file_size
                   + IF ok THEN b \div KB ELSE Width - 1) % Width
           l == [s.log EXCEPT !.current_file_size = k]
           n == s.sent[p] + 1
           f == [s.disk[p][0] EXCEPT !.lines = @ \union {n}, !.size = @ + b]
           d == [s.disk EXCEPT ![p] = [@ EXCEPT ![0] = f]]
           e == [s.sent EXCEPT ![p] = n]
<1>1. /\ s \in States /\ p \in Paths /\ s.log \in LogRecords
      /\ s.disk \in [Paths -> [Suffixes -> Files]] /\ s.disk[p][0] \in Files
      /\ s.disk[p] \in [Suffixes -> Files]
      /\ s.sent \in [Paths -> Nat]
  <2>1. s \in States /\ p \in Paths
    BY DEF Inv, States, LogRecords
  <2> QED
    BY <2>1, DiskType
<1>2. l.log_file = p /\ l = [s.log EXCEPT !.log_file = l.log_file,
                                          !.current_file_size = l.current_file_size]
  <2> HIDE DEF k
  <2> QED
    BY <1>1 DEF LogRecords
<1> HIDE DEF p, l
<1>3. CASE ok = TRUE
  <2>1. r = [s EXCEPT !.log = l, !.disk[p][0] = f, !.sent[p] = n]
    BY <1>3, Zenon DEF Append, p, l
  <2> HIDE DEF f, n, r
  <2>2. /\ r.log = l
        /\ r.disk = [s.disk EXCEPT ![p] = [@ EXCEPT ![0] = f]]
        /\ r.sent = [s.sent EXCEPT ![p] = n]
    BY <1>1, <2>1 DEF States
  <2>3. /\ r.disk[p] = [s.disk[p] EXCEPT ![0] = f]
        /\ \A q \in Paths : q # p => r.disk[q] = s.disk[q]
    BY <1>1, <2>2
  <2>4. /\ r.disk[p][0] = f
        /\ \A i \in Suffixes : i # 0 => r.disk[p][i] = s.disk[p][i]
    BY <1>1, <2>3, SuffixType
  <2>5. /\ f.there = s.disk[p][0].there
        /\ f.lines = s.disk[p][0].lines \union {n}
    BY <1>1 DEF f, Files
  <2>6. SameSettings(s, r) /\ r.log.log_file = p
    BY <1>2, <2>2 DEF SameSettings
  <2> QED
    BY <1>1, <2>2, <2>3, <2>4, <2>5, <2>6 DEF n, r, p
<1>4. CASE ok = FALSE
  <2>1. r = [s EXCEPT !.log = l]
    BY <1>4, Zenon DEF Append, l
  <2> HIDE DEF r
  <2>2. r.log = l /\ r.disk = s.disk /\ r.sent = s.sent
    BY <1>1, <2>1 DEF States
  <2>3. SameSettings(s, r) /\ r.log.log_file = p
    BY <1>2, <2>2 DEF SameSettings
  <2> QED
    BY <1>1, <2>2, <2>3 DEF r, p
<1> QED
  BY <1>3, <1>4 DEF Tries

LEMMA AppendDisk ==
    ASSUME NEW s, Inv(s), s.log.log_file # NoPath, DiskOK(s),
           NEW ok \in Tries("fprintf"), NEW b \in LineSizes
    PROVE  LET r == Append(s, ok, b)
           IN  DiskOK(r) /\ SameSettings(s, r) /\ r.log.log_file = s.log.log_file
<1> DEFINE r == Append(s, ok, b)
           p == s.log.log_file
<1>1. /\ SameSettings(s, r) /\ r.log.log_file = p /\ p \in Paths
      /\ \/ r.disk = s.disk /\ r.sent = s.sent
         \/ /\ r.sent = [s.sent EXCEPT ![p] = @ + 1]
            /\ \A q \in Paths : q # p => r.disk[q] = s.disk[q]
            /\ \A i \in Suffixes : i # 0 => r.disk[p][i] = s.disk[p][i]
            /\ r.disk[p][0].there = s.disk[p][0].there
            /\ r.disk[p][0].lines = s.disk[p][0].lines \union {s.sent[p] + 1}
  BY AppendParts
<1> HIDE DEF r, p
<1>2. s \in States /\ s.disk[p][0].there /\ s.log \in LogRecords
  BY DEF Inv, DiskOK, States, p
<1>3. SameLimits(s, r)
  BY <1>1, <1>2 DEF SameSettings, SameLimits, LogRecords
<1>4. CASE r.disk = s.disk /\ r.sent = s.sent
  BY <1>1, <1>3, <1>4, DiskSame DEF r, p
<1>5. CASE /\ r.sent = [s.sent EXCEPT ![p] = @ + 1]
           /\ \A q \in Paths : q # p => r.disk[q] = s.disk[q]
           /\ \A i \in Suffixes : i # 0 => r.disk[p][i] = s.disk[p][i]
           /\ r.disk[p][0].there = s.disk[p][0].there
           /\ r.disk[p][0].lines = s.disk[p][0].lines \union {s.sent[p] + 1}
  <2>1. /\ r.sent[p] = s.sent[p] + 1
        /\ \A q \in Paths : q # p => r.sent[q] = s.sent[q]
    BY <1>1, <1>2, <1>5, DiskType
  <2>2. ASSUME Sized, NEW q \in Paths
        PROVE  FullOK(r.disk[q], r.log.max_file_size)
    <3>1. FullOK(s.disk[q], s.log.max_file_size)
      BY <2>2 DEF DiskOK
    <3>2. \A i \in Suffixes : i # 0 => r.disk[q][i] = s.disk[q][i]
      BY <1>5
    <3> QED
      BY <1>3, <3>1, <3>2, SameFull DEF SameLimits
  <2>3. ASSUME Counted, NEW q \in Paths
        PROVE  PathOK(r.disk[q], r.sent[q], r.log.max_file_count)
    <3>1. PathOK(s.disk[q], s.sent[q], s.log.max_file_count)
      BY <2>3 DEF DiskOK
    <3>2. CASE q # p
      BY <1>3, <1>5, <2>1, <3>1, <3>2 DEF SameLimits
    <3>3. CASE q = p
      <4> DEFINE files == s.disk[p]
                 new == r.disk[p]
      <4>1. /\ files \in [Suffixes -> Files] /\ s.sent[p] \in Nat
            /\ s.log.max_file_count \in 0..MaxOld
        BY <1>1, <1>2, DiskType
      <4>2. /\ PathOK(files, s.sent[p], s.log.max_file_count) /\ files[0].there
            /\ \A i \in Suffixes : i # 0 => new[i] = files[i]
            /\ new[0].there
            /\ new[0].lines = files[0].lines \union {s.sent[p] + 1}
        BY <1>2, <1>5, <3>1, <3>3
      <4> HIDE DEF files, new
      <4>3. PathOK(new, s.sent[p] + 1, s.log.max_file_count)
        BY <4>1, <4>2, AppendedPath
      <4> QED
        BY <1>3, <2>1, <3>3, <4>3 DEF SameLimits, new
    <3> QED
      BY <3>2, <3>3
  <2>4. r.log.log_file # NoPath => r.disk[r.log.log_file][0].there
    BY <1>1, <1>2, <1>5
  <2>5. DiskOK(r)
    BY <2>2, <2>3, <2>4 DEF DiskOK
  <2> QED
    BY <1>1, <2>5 DEF r, p
<1> QED
  BY <1>1, <1>4, <1>5 DEF r, p

\* What SameSettings says of each setting.
LEMMA SettingsFields ==
    ASSUME NEW s, Inv(s), NEW r, SameSettings(s, r)
    PROVE  /\ r.log.initialized = s.log.initialized
           /\ r.log.target = s.log.target
           /\ r.log.log_file_path = s.log.log_file_path
           /\ SameLimits(s, r)
<1>1. s.log \in LogRecords
  BY DEF Inv, States
<1> QED
  BY <1>1 DEF SameSettings, SameLimits, LogRecords

\* A line, the rotation it may cause included.
LEMMA WriteKeeps ==
    ASSUME NEW s, Inv(s), NEW level, NEW r \in log_write(s, level)
    PROVE  /\ SameSettings(s, r)
           /\ Opens => (r.log.log_file = NoPath <=> s.log.log_file = NoPath)
           /\ Tidy(s) => Tidy(r)
<1>1. CASE r = s
  <2>1. s.log \in LogRecords
    BY DEF Inv, States
  <2> QED
    BY <1>1, <2>1 DEF SameSettings, LogRecords
<1>2. CASE /\ s.log.initialized
           /\ \E q \in rotate_log_file_if_needed(s) :
                r \in IF q.log.log_file = NoPath THEN {q}
                     ELSE { Append(q, ok, b) : ok \in Tries("fprintf"),
                                               b \in LineSizes }
  <2>1. PICK q \in rotate_log_file_if_needed(s) :
             r \in IF q.log.log_file = NoPath THEN {q}
                  ELSE { Append(q, ok, b) : ok \in Tries("fprintf"),
                                            b \in LineSizes }
    BY <1>2
  <2>2. /\ Inv(q) /\ SameSettings(s, q)
        /\ Opens => (q.log.log_file = NoPath <=> s.log.log_file = NoPath)
    BY <2>1, RotateInv, RotateKeeps
  <2>3. Tidy(s) => DiskOK(q)
    BY <2>1, RotateDisk DEF Tidy
  <2>4. /\ SameSettings(q, r) /\ r.log.log_file = q.log.log_file
        /\ DiskOK(q) => DiskOK(r)
    <3>1. CASE q.log.log_file = NoPath
      <4>1. q.log \in LogRecords /\ r = q
        BY <2>1, <2>2, <3>1 DEF Inv, States
      <4> QED
        BY <4>1 DEF SameSettings, LogRecords
    <3>2. CASE q.log.log_file # NoPath
      <4>1. PICK ok \in Tries("fprintf"), b \in LineSizes : r = Append(q, ok, b)
        BY <2>1, <3>2
      <4>2. SameSettings(q, r) /\ r.log.log_file = q.log.log_file
        BY <2>2, <3>2, <4>1, AppendParts
      <4>3. DiskOK(q) => DiskOK(r)
        BY <2>2, <3>2, <4>1, AppendDisk
      <4> QED
        BY <4>2, <4>3
    <3> QED
      BY <3>1, <3>2
  <2>5. SameSettings(s, r)
    <3>1. s.log \in LogRecords
      BY DEF Inv, States
    <3> QED
      BY <2>2, <2>4, <3>1 DEF SameSettings, LogRecords
  <2>6. Tidy(s) => Tidy(r)
    <3>1. Inv(r) /\ (Good(s) => Good(r))
      BY WriteInv
    <3> QED
      BY <1>2, <2>3, <2>4, <3>1 DEF Tidy, Good
  <2> QED
    BY <2>2, <2>4, <2>5, <2>6
<1> QED
  BY <1>1, <1>2 DEF log_write

\* Other settings change nothing on the disk.
LEMMA LogUpdateTidy ==
    ASSUME NEW s, Inv(s), NEW l \in LogRecords, NEW r, r = [s EXCEPT !.log = l]
    PROVE  /\ r.log = l /\ r.disk = s.disk /\ r.sent = s.sent
           /\ r.open = s.open /\ r.crashed = s.crashed
  BY DEF Inv, States

\* The FILE closed.
LEMMA FcloseTidy ==
    ASSUME NEW s, Tidy(s), s.log.log_file # NoPath, NEW r, r = Fclose(s)
    PROVE  /\ Tidy(r) /\ SameLimits(s, r)
           /\ r.log = [s.log EXCEPT !.log_file = NoPath]
           /\ r.log.log_file = NoPath
<1>1. /\ Inv(r) /\ r.log = [s.log EXCEPT !.log_file = NoPath]
      /\ r.open = s.open - 1 /\ r.disk = s.disk
  BY FcloseInv DEF Tidy
<1>2. s.log \in LogRecords /\ s \in States
  BY DEF Tidy, Inv, States
<1>3. r.sent = s.sent
  BY <1>2 DEF Fclose, States
<1>4. r.log.log_file = NoPath /\ SameLimits(s, r)
  BY <1>1, <1>2 DEF LogRecords, SameLimits
<1>5. DiskOK(r)
  BY <1>1, <1>3, <1>4, DiskSame DEF Tidy
<1> QED
  BY <1>1, <1>4, <1>5 DEF Tidy, HandleOK

\* The size of the open file read.
LEMMA MeasuredParts ==
    ASSUME NEW s \in States, s.log.log_file # NoPath, NEW r, r = Measured(s)
    PROVE  /\ SameSettings(s, r) /\ SameLimits(s, r)
           /\ r.log.log_file = s.log.log_file
           /\ r.disk = s.disk /\ r.sent = s.sent
<1> DEFINE k == s.disk[s.log.log_file][0].size \div KB
           l == [s.log EXCEPT !.current_file_size = k]
<1>1. r = [s EXCEPT !.log = l] /\ s.log \in LogRecords
  BY DEF Measured, States
<1> HIDE DEF k
<1>2. l = [s.log EXCEPT !.log_file = l.log_file,
                        !.current_file_size = l.current_file_size]
      /\ l.log_file = s.log.log_file
      /\ l.max_file_size = s.log.max_file_size
      /\ l.max_file_count = s.log.max_file_count
  BY <1>1 DEF LogRecords
<1> HIDE DEF l
<1>3. r.log = l /\ r.disk = s.disk /\ r.sent = s.sent
  BY <1>1 DEF States
<1> QED
  BY <1>2, <1>3 DEF SameSettings, SameLimits

\* A path's file opened and measured, by m70_log_init and m70_log_set_file.
LEMMA OpenLogTidy ==
    ASSUME NEW s, Inv(s), s.log.log_file_path \in Paths, NEW r \in OpenLog(s)
    PROVE  /\ SameSettings(s, r.s)
           /\ Opens => r.ok
           /\ r.ok => r.s.log.log_file # NoPath
           /\ Tidy(s) /\ s.log.log_file = NoPath => Tidy(r.s)
<1>1. s \in States /\ s.log \in LogRecords
  BY DEF Inv, States
<1>2. CASE r = [ok |-> FALSE, s |-> s] /\ "mkdir" \in FailAt
  BY <1>1, <1>2 DEF SameSettings, LogRecords, Opens
<1>3. CASE \E q \in Fopen(s) :
             r = [ok |-> q.log.log_file # NoPath,
                  s  |-> IF q.log.log_file = NoPath THEN q ELSE Measured(q)]
  <2>1. PICK q \in Fopen(s) :
             r = [ok |-> q.log.log_file # NoPath,
                  s  |-> IF q.log.log_file = NoPath THEN q ELSE Measured(q)]
    BY <1>3
  <2>2. /\ q \in States
        /\ q.log = [s.log EXCEPT !.log_file = q.log.log_file]
    BY <1>1, <2>1, FopenInv
  <2>3. SameSettings(s, q)
    BY <1>1, <2>2 DEF SameSettings, LogRecords
  <2>4. Opens => q.log.log_file # NoPath
    BY <1>1, <2>1, FopenOpens, LogAssumption
  <2>5. /\ Inv(r.s)
        /\ HandleOK(s) /\ s.log.log_file = NoPath => HandleOK(r.s)
    BY OpenLogInv
  <2>6. Tidy(s) /\ s.log.log_file = NoPath => DiskOK(q)
    BY <1>1, <2>1, FopenDisk DEF Tidy
  <2>7. CASE q.log.log_file = NoPath
    <3>1. r.s = q /\ r.ok = FALSE
      BY <2>1, <2>7
    <3> QED
      BY <2>3, <2>4, <2>5, <2>6, <2>7, <3>1 DEF Tidy
  <2>8. CASE q.log.log_file # NoPath
    <3>1. r.s = Measured(q) /\ r.ok = TRUE
      BY <2>1, <2>8
    <3>2. /\ SameSettings(q, r.s) /\ SameLimits(q, r.s)
          /\ r.s.log.log_file = q.log.log_file
          /\ r.s.disk = q.disk /\ r.s.sent = q.sent
      BY <2>2, <2>8, <3>1, MeasuredParts
    <3>3. SameSettings(s, r.s)
      BY <1>1, <2>3, <3>2 DEF SameSettings, LogRecords
    <3>4. DiskOK(q) => DiskOK(r.s)
      BY <3>2, DiskSame
    <3> QED
      BY <2>5, <2>6, <2>8, <3>1, <3>2, <3>3, <3>4 DEF Tidy
  <2> QED
    BY <2>7, <2>8
<1> QED
  BY <1>2, <1>3 DEF OpenLog, Tries
-----------------------------------------------------------------------------
(***************************************************************************)
(* The calls.                                                              *)
(***************************************************************************)

\* While file output is asked for and the path is known, the file is open.
Opened(s) ==
    s.log.initialized /\ "file" \in s.log.target
      /\ s.log.log_file_path # NoPath => s.log.log_file # NoPath

LEMMA WriteOpened ==
    ASSUME Opens, NEW s, Inv(s), Opened(s), NEW level, NEW r \in log_write(s, level)
    PROVE  Opened(r)
<1>1. /\ SameSettings(s, r)
      /\ r.log.log_file = NoPath <=> s.log.log_file = NoPath
  BY WriteKeeps
<1> QED
  BY <1>1, SettingsFields DEF Opened

\* The last steps of m70_log_init.
LEMMA InitializedTidy ==
    ASSUME NEW s, Inv(s), NEW r \in Initialized(s)
    PROVE  /\ SameLimits(s, r)
           /\ Tidy(s) => Tidy(r)
           /\ /\ Opens
              /\ "file" \in s.log.target /\ s.log.log_file_path # NoPath =>
                    s.log.log_file # NoPath
              => Opened(r)
<1> DEFINE l == [s.log EXCEPT !.initialized = TRUE]
           q == [s EXCEPT !.log.initialized = TRUE]
<1>1. /\ l \in LogRecords /\ l.log_file = s.log.log_file
      /\ l.target = s.log.target /\ l.log_file_path = s.log.log_file_path
      /\ l.max_file_size = s.log.max_file_size
      /\ l.max_file_count = s.log.max_file_count
  BY DEF Inv, States, LogRecords
<1>2. q = [s EXCEPT !.log = l]
  BY DEF Inv, States
<1>3. Inv(q)
  BY SetInitialized
<1>4. r \in log_write(q, INFO)
  BY DEF Initialized
<1> HIDE DEF l, q
<1>5. q.log = l /\ q.disk = s.disk /\ q.sent = s.sent /\ q.open = s.open
  BY <1>1, <1>2, LogUpdateTidy
<1>6. SameLimits(s, q)
  BY <1>1, <1>5 DEF SameLimits
<1>7. Tidy(s) => Tidy(q)
  BY <1>1, <1>3, <1>5, <1>6, DiskSame DEF Tidy, HandleOK
<1>8. SameSettings(q, r) /\ (Tidy(q) => Tidy(r))
  BY <1>3, <1>4, WriteKeeps
<1>9. SameLimits(s, r)
  BY <1>3, <1>6, <1>8, SettingsFields DEF SameLimits
<1>10. /\ Opens
       /\ "file" \in s.log.target /\ s.log.log_file_path # NoPath =>
             s.log.log_file # NoPath
       => Opened(r)
  BY <1>1, <1>3, <1>4, <1>5, WriteOpened DEF Opened
<1> QED
  BY <1>7, <1>8, <1>9, <1>10

\* m70_log_shutdown.
LEMMA ShutdownTidy ==
    ASSUME NEW s, Inv(s), NEW r \in Shutdown(s)
    PROVE  /\ SameLimits(s, r)
           /\ Tidy(s) => Tidy(r)
           /\ Opens /\ Opened(s) => Opened(r) /\ (r.crashed => s.crashed)
<1>0. s \in States /\ s.log \in LogRecords
  BY DEF Inv, States
<1>1. CASE ~s.log.initialized
  <2>1. r = s
    BY <1>1 DEF Shutdown
  <2> QED
    BY <2>1 DEF SameLimits
<1>2. CASE s.log.initialized /\ s.log.log_file = NoPath
  <2> DEFINE l == [s.log EXCEPT !.initialized = FALSE]
  <2>1. r = [s EXCEPT !.log = l]
    BY <1>0, <1>2 DEF Shutdown, States
  <2>2. /\ l \in LogRecords /\ l.log_file = s.log.log_file
        /\ l.log_file_path = s.log.log_file_path /\ l.initialized = FALSE
        /\ l.max_file_size = s.log.max_file_size
        /\ l.max_file_count = s.log.max_file_count
    BY <1>0 DEF LogRecords
  <2> HIDE DEF l
  <2>3. r.log = l /\ r.disk = s.disk /\ r.sent = s.sent /\ r.open = s.open
        /\ r.crashed = s.crashed
    BY <2>1, <2>2, LogUpdateTidy
  <2>4. Inv(r)
    BY ShutdownInv
  <2>5. SameLimits(s, r)
    BY <2>2, <2>3 DEF SameLimits
  <2>6. DiskOK(s) => DiskOK(r)
    BY <2>2, <2>3, <2>5, DiskSame
  <2> QED
    BY <2>2, <2>3, <2>4, <2>5, <2>6 DEF Tidy, HandleOK, Opened
<1>3. CASE s.log.initialized /\ s.log.log_file # NoPath
  <2>1. PICK q \in log_write(s, INFO) :
           r = IF q.log.log_file = NoPath
                 THEN [q EXCEPT !.crashed = TRUE]
                 ELSE [Fclose(q) EXCEPT !.log.initialized = FALSE]
    BY <1>3 DEF Shutdown
  <2>2. /\ Inv(q) /\ SameSettings(s, q) /\ (Tidy(s) => Tidy(q))
        /\ Opens => q.log.log_file # NoPath
        /\ q.crashed = s.crashed
    BY <1>3, <2>1, WriteInv, WriteKeeps
  <2>3. SameLimits(s, q) /\ q \in States /\ q.log \in LogRecords
    BY <2>2, SettingsFields DEF Inv, States
  <2>4. Inv(r)
    BY ShutdownInv
  <2>5. CASE q.log.log_file = NoPath
    <3>1. r = [q EXCEPT !.crashed = TRUE]
      BY <2>1, <2>5
    <3>2. /\ r.log = q.log /\ r.disk = q.disk /\ r.sent = q.sent
          /\ r.open = q.open
      BY <2>3, <3>1 DEF States
    <3>3. DiskOK(q) => DiskOK(r)
      BY <3>2, DiskSame DEF SameLimits
    <3> QED
      BY <2>2, <2>3, <2>4, <2>5, <3>2, <3>3 DEF Tidy, HandleOK, SameLimits
  <2>6. CASE q.log.log_file # NoPath
    <3> DEFINE c == Fclose(q)
               l == [c.log EXCEPT !.initialized = FALSE]
    <3>1. r = [c EXCEPT !.log.initialized = FALSE]
      BY <2>1, <2>6
    <3>2. /\ Inv(c) /\ c.log = [q.log EXCEPT !.log_file = NoPath]
          /\ c.open = q.open - 1 /\ c.disk = q.disk
          /\ c.crashed = q.crashed
      BY <2>2, <2>6, FcloseInv
    <3>3. c.sent = q.sent
      BY <2>3 DEF Fclose, States
    <3>9. Tidy(q) => Tidy(c)
      BY <2>6, FcloseTidy
    <3> HIDE DEF c
    <3>4. c.log \in LogRecords /\ c.log.log_file = NoPath /\ SameLimits(q, c)
      BY <2>3, <3>2 DEF LogRecords, SameLimits
    <3>5. /\ l \in LogRecords /\ l.log_file = NoPath
          /\ l.log_file_path = c.log.log_file_path /\ l.initialized = FALSE
          /\ l.max_file_size = c.log.max_file_size
          /\ l.max_file_count = c.log.max_file_count
      BY <3>4 DEF LogRecords
    <3>6. r = [c EXCEPT !.log = l]
      BY <3>1, <3>2 DEF Inv, States
    <3> HIDE DEF l
    <3>7. r.log = l /\ r.disk = c.disk /\ r.sent = c.sent /\ r.open = c.open
          /\ r.crashed = c.crashed
      BY <3>2, <3>5, <3>6, LogUpdateTidy
    <3>8. SameLimits(s, r) /\ SameLimits(c, r)
      BY <2>3, <3>4, <3>5, <3>7 DEF SameLimits
    <3>10. DiskOK(c) => DiskOK(r)
      BY <3>5, <3>7, <3>8, DiskSame
    <3> QED
      BY <2>2, <2>4, <3>2, <3>4, <3>5, <3>7, <3>8, <3>9, <3>10
         DEF Tidy, HandleOK, Opened
  <2> QED
    BY <2>5, <2>6
<1> QED
  BY <1>1, <1>2, <1>3

\* The files of a path nothing was written to are as they should be.
LEMMA FreshPath ==
    ASSUME NEW files, \A i \in Suffixes : files[i] = Missing, NEW count, NEW size
    PROVE  PathOK(files, 0, count) /\ FullOK(files, size)
<1>1. \A i \in Suffixes : ~files[i].there /\ files[i].lines = {}
  BY DEF Missing
<1>2. Whole(files, 0) /\ Sorted(files) /\ Dense(files, count)
  BY <1>1 DEF Whole, Sorted, Dense
<1>3. Newest(files, 0) /\ LostFull(files, 0, count)
  BY DEF Newest, LostFull
<1> QED
  BY <1>1, <1>2, <1>3 DEF PathOK, FullOK

\* A smaller limit leaves full files full.
LEMMA SmallerFull ==
    ASSUME NEW files \in [Suffixes -> Files], NEW size \in Nat, NEW less \in Nat,
           less <= size, FullOK(files, size)
    PROVE  FullOK(files, less)
<1>1. less * KB <= size * KB /\ less * KB \in Nat /\ size * KB \in Nat
  BY TimesMono, LogAssumption
<1>2. \A i \in Suffixes : files[i].size \in Nat
  BY DEF Files
<1> QED
  BY <1>1, <1>2 DEF FullOK

\* Setting the limits of a configuration on a logger that is not initialised.
LEMMA LimitsTidy ==
    ASSUME NEW s, Inv(s), DiskOK(s), Fresh(s) \/ Settled(s), NEW c \in Configs,
           NEW t, t.disk = s.disk, t.sent = s.sent, t.log.log_file = NoPath,
           t.log.max_file_size = c.max_file_size,
           t.log.max_file_count = c.max_file_count
    PROVE  DiskOK(t) /\ Settled(t)
<1>1. /\ s \in States /\ c \in ConfigRecords
      /\ c.max_file_size \in Nat /\ \A d \in Configs : d.max_file_size \in Nat
  BY LogAssumption DEF Inv, ConfigRecords
<1>2. Settled(t)
  BY <1>1 DEF Settled, Sized, Counted, SameSizes, SameCounts
<1>3. ASSUME Sized, NEW p \in Paths
      PROVE  FullOK(t.disk[p], t.log.max_file_size)
  <2>1. CASE Fresh(s)
    BY <2>1, FreshPath DEF Fresh
  <2>2. CASE Settled(s)
    <3>1. FullOK(s.disk[p], s.log.max_file_size)
      BY <1>3 DEF DiskOK
    <3>2. c.max_file_size <= s.log.max_file_size
      BY <1>3, <2>2 DEF Settled
    <3>3. s.disk[p] \in [Suffixes -> Files] /\ s.log.max_file_size \in Nat
      BY <1>1, DiskType
    <3> QED
      BY <1>1, <3>1, <3>2, <3>3, SmallerFull
  <2> QED
    BY <2>1, <2>2
<1>4. ASSUME Counted, NEW p \in Paths
      PROVE  PathOK(t.disk[p], t.sent[p], t.log.max_file_count)
  <2>1. CASE Fresh(s)
    BY <2>1, FreshPath DEF Fresh
  <2>2. CASE Settled(s)
    <3>1. PathOK(s.disk[p], s.sent[p], s.log.max_file_count)
      BY <1>4 DEF DiskOK
    <3> QED
      BY <1>4, <2>2, <3>1 DEF Settled
  <2> QED
    BY <2>1, <2>2
<1> QED
  BY <1>2, <1>3, <1>4 DEF DiskOK

\* m70_log_init with a configuration, on a logger that was shut down.
LEMMA InitWithTidy ==
    ASSUME NEW s, Tidy(s), Good(s), ~s.log.initialized, Fresh(s) \/ Settled(s),
           NEW c \in Configs, NEW r \in InitWith(s, c)
    PROVE  Tidy(r) /\ Settled(r)
<1> DEFINE l == [s.log EXCEPT !.level = c.level, !.target = c.target,
                              !.max_file_size = c.max_file_size,
                              !.max_file_count = c.max_file_count]
           t == [s EXCEPT !.log.level = c.level, !.log.target = c.target,
                          !.log.max_file_size = c.max_file_size,
                          !.log.max_file_count = c.max_file_count]
           m == [l EXCEPT !.log_file_path = c.log_file_path]
           u == [t EXCEPT !.log.log_file_path = c.log_file_path]
<1>1. /\ s \in States /\ s.log \in LogRecords /\ c \in ConfigRecords
      /\ s.log.log_file = NoPath /\ Inv(s) /\ s.open = 0
  BY LogAssumption DEF Tidy, Inv, States, Good, HandleOK
<1>2. /\ l \in LogRecords /\ l.log_file = NoPath
      /\ l.current_file_size = s.log.current_file_size
      /\ l.max_file_size = c.max_file_size
      /\ l.max_file_count = c.max_file_count
  BY <1>1 DEF ConfigRecords, LogRecords
<1>3. /\ m \in LogRecords /\ m.log_file = NoPath
      /\ m.current_file_size = s.log.current_file_size
      /\ m.log_file_path = c.log_file_path
      /\ m.max_file_size = c.max_file_size
      /\ m.max_file_count = c.max_file_count
  <2> HIDE DEF l
  <2> QED
    BY <1>1, <1>2 DEF ConfigRecords, LogRecords
<1>4. t = [s EXCEPT !.log = l] /\ u = [s EXCEPT !.log = m]
  BY <1>1 DEF States, LogRecords
<1>5. \/ r \in Initialized(t)
      \/ r = t
      \/ c.log_file_path \in Paths /\ \E q \in OpenLog(u) :
             r \in IF q.ok THEN Initialized(q.s) ELSE {q.s}
  <2>1. c.log_file_path = NoPath \/ c.log_file_path \in Paths
    BY <1>1 DEF ConfigRecords
  <2> QED
    BY <2>1 DEF InitWith
<1> HIDE DEF l, m, t, u
<1>6. Tidy(t) /\ Settled(t)
  <2>1. /\ Inv(t) /\ t.log = l /\ t.open = s.open
        /\ t.disk = s.disk /\ t.sent = s.sent
    BY <1>1, <1>2, <1>4, LogUpdate, LogUpdateTidy
  <2>2. DiskOK(t) /\ Settled(t)
    BY <1>1, <1>2, <2>1, LimitsTidy DEF Tidy
  <2> QED
    BY <1>1, <1>2, <2>1, <2>2 DEF Tidy, HandleOK
<1>7. CASE r = t
  BY <1>6, <1>7
<1>8. CASE r \in Initialized(t)
  BY <1>6, <1>8, InitializedTidy DEF Tidy, Settled, SameLimits
<1>9. CASE c.log_file_path \in Paths /\ \E q \in OpenLog(u) :
             r \in IF q.ok THEN Initialized(q.s) ELSE {q.s}
  <2>1. /\ Inv(u) /\ u.log = m /\ u.open = s.open
        /\ u.disk = s.disk /\ u.sent = s.sent
    BY <1>1, <1>3, <1>4, LogUpdate, LogUpdateTidy
  <2>2. PICK q \in OpenLog(u) : r \in IF q.ok THEN Initialized(q.s) ELSE {q.s}
    BY <1>9
  <2>3. DiskOK(u) /\ Settled(u)
    BY <1>1, <1>3, <2>1, LimitsTidy DEF Tidy
  <2>4. Tidy(u) /\ u.log.log_file = NoPath /\ u.log.log_file_path \in Paths
    BY <1>1, <1>3, <1>9, <2>1, <2>3 DEF Tidy, HandleOK
  <2>5. Tidy(q.s) /\ SameSettings(u, q.s)
    BY <2>1, <2>2, <2>4, OpenLogTidy
  <2>6. Settled(q.s)
    BY <2>1, <2>3, <2>5, SettingsFields DEF Settled, SameLimits
  <2>7. CASE q.ok
    BY <2>2, <2>5, <2>6, <2>7, InitializedTidy DEF Tidy, Settled, SameLimits
  <2>8. CASE ~q.ok
    BY <2>2, <2>5, <2>6, <2>8
  <2> QED
    BY <2>7, <2>8
<1> QED
  BY <1>5, <1>7, <1>8, <1>9

\* An initialised logger whose configuration names a file has it open.
LEMMA InitWithOpened ==
    ASSUME Opens, NEW s, Inv(s), ~s.log.initialized, NEW c \in Configs,
           NEW r \in InitWith(s, c)
    PROVE  Opened(r)
<1> DEFINE l == [s.log EXCEPT !.level = c.level, !.target = c.target,
                              !.max_file_size = c.max_file_size,
                              !.max_file_count = c.max_file_count]
           t == [s EXCEPT !.log.level = c.level, !.log.target = c.target,
                          !.log.max_file_size = c.max_file_size,
                          !.log.max_file_count = c.max_file_count]
           m == [l EXCEPT !.log_file_path = c.log_file_path]
           u == [t EXCEPT !.log.log_file_path = c.log_file_path]
<1>1. /\ s \in States /\ s.log \in LogRecords /\ c \in ConfigRecords
      /\ s.log.log_file # NoPath => s.log.log_file_path \in Paths
  BY LogAssumption DEF Inv, States, FileOK
<1>2. /\ l \in LogRecords /\ l.log_file = s.log.log_file
      /\ l.current_file_size = s.log.current_file_size
      /\ l.log_file_path = s.log.log_file_path
      /\ l.target = c.target /\ l.initialized = FALSE
  BY <1>1 DEF ConfigRecords, LogRecords
<1>3. /\ m \in LogRecords /\ m.log_file = s.log.log_file
      /\ m.current_file_size = s.log.current_file_size
      /\ m.log_file_path = c.log_file_path
      /\ m.target = c.target
  <2> HIDE DEF l
  <2> QED
    BY <1>1, <1>2 DEF ConfigRecords, LogRecords
<1>4. t = [s EXCEPT !.log = l] /\ u = [s EXCEPT !.log = m]
  BY <1>1 DEF States, LogRecords
<1>5. \/ r \in Initialized(t) /\ "file" \notin c.target
      \/ r = t
      \/ c.log_file_path \in Paths /\ \E q \in OpenLog(u) :
             r \in IF q.ok THEN Initialized(q.s) ELSE {q.s}
  <2>1. c.log_file_path = NoPath \/ c.log_file_path \in Paths
    BY <1>1 DEF ConfigRecords
  <2> QED
    BY <2>1 DEF InitWith
<1> HIDE DEF l, m, t, u
<1>6. Inv(t) /\ t.log = l
  BY <1>1, <1>2, <1>4, LogUpdate
<1>7. CASE r = t
  BY <1>2, <1>6, <1>7 DEF Opened
<1>8. CASE r \in Initialized(t) /\ "file" \notin c.target
  BY <1>2, <1>6, <1>8, InitializedTidy
<1>9. CASE c.log_file_path \in Paths /\ \E q \in OpenLog(u) :
             r \in IF q.ok THEN Initialized(q.s) ELSE {q.s}
  <2>1. Inv(u) /\ u.log.log_file_path \in Paths
    BY <1>1, <1>3, <1>4, <1>9, LogUpdate
  <2>2. PICK q \in OpenLog(u) : r \in IF q.ok THEN Initialized(q.s) ELSE {q.s}
    BY <1>9
  <2>3. q.ok /\ Inv(q.s) /\ q.s.log.log_file # NoPath
    BY <2>1, <2>2, OpenLogTidy, OpenLogInv
  <2> QED
    BY <2>2, <2>3, InitializedTidy
<1> QED
  BY <1>5, <1>7, <1>8, <1>9

\* What the calls of an initialised logger keep.
KeepsAll(s, r) ==
    /\ SameLimits(s, r)
    /\ Tidy(s) => Tidy(r)
    /\ Opens /\ Opened(s) => Opened(r)

\* m70_log_debug and the like.
LEMMA WriteTidy ==
    ASSUME NEW s, Inv(s), NEW level, NEW r \in log_write(s, level)
    PROVE  KeepsAll(s, r)
  BY WriteKeeps, WriteOpened, SettingsFields DEF KeepsAll

\* m70_log_set_level.
LEMMA SetLevelTidy ==
    ASSUME NEW s, Inv(s), NEW v \in Levels, NEW r \in SetLevel(s, v)
    PROVE  KeepsAll(s, r)
<1> DEFINE l == [s.log EXCEPT !.level = v]
           t == [s EXCEPT !.log.level = v]
<1>1. /\ s \in States /\ s.log \in LogRecords
      /\ s.log.log_file # NoPath => s.log.log_file_path \in Paths
  BY DEF Inv, States, FileOK
<1>2. /\ l \in LogRecords /\ l.log_file = s.log.log_file
      /\ l.current_file_size = s.log.current_file_size
      /\ l.log_file_path = s.log.log_file_path
      /\ l.initialized = s.log.initialized /\ l.target = s.log.target
      /\ l.max_file_size = s.log.max_file_size
      /\ l.max_file_count = s.log.max_file_count
  BY <1>1 DEF LogRecords
<1>3. t = [s EXCEPT !.log = l]
  BY <1>1 DEF States
<1>4. r \in log_write(t, INFO)
  BY DEF SetLevel
<1> HIDE DEF l, t
<1>5. /\ Inv(t) /\ t.log = l /\ t.open = s.open
      /\ t.disk = s.disk /\ t.sent = s.sent
  BY <1>1, <1>2, <1>3, LogUpdate, LogUpdateTidy
<1>6. SameLimits(s, t) /\ (Opened(s) => Opened(t))
  BY <1>2, <1>5 DEF SameLimits, Opened
<1>7. Tidy(s) => Tidy(t)
  BY <1>2, <1>5, <1>6, DiskSame DEF Tidy, HandleOK
<1>8. KeepsAll(t, r)
  BY <1>4, <1>5, WriteTidy
<1> QED
  BY <1>6, <1>7, <1>8 DEF KeepsAll, SameLimits

\* m70_log_set_target.
LEMMA SetTargetTidy ==
    ASSUME NEW s, Inv(s), NEW target \in Targets, NEW r \in SetTarget(s, target)
    PROVE  KeepsAll(s, r)
<1> DEFINE l == [s.log EXCEPT !.target = target]
           t == [s EXCEPT !.log.target = target]
<1>1. /\ s \in States /\ s.log \in LogRecords
      /\ s.log.log_file # NoPath => s.log.log_file_path \in Paths
  BY DEF Inv, States, FileOK
<1>2. /\ l \in LogRecords /\ l.log_file = s.log.log_file
      /\ l.current_file_size = s.log.current_file_size
      /\ l.log_file_path = s.log.log_file_path
      /\ l.initialized = s.log.initialized /\ l.target = target
      /\ l.max_file_size = s.log.max_file_size
      /\ l.max_file_count = s.log.max_file_count
  BY <1>1 DEF LogRecords
<1>3. t = [s EXCEPT !.log = l]
  BY <1>1 DEF States
<1>4. PICK o :
        /\ r \in log_write(o, INFO)
        /\ \/ /\ o = t
              /\ ~("file" \in target /\ t.log.log_file = NoPath
                     /\ t.log.log_file_path # NoPath)
           \/ o = Fclose(t) /\ t.log.log_file # NoPath /\ "file" \notin target
           \/ /\ t.log.log_file = NoPath /\ t.log.log_file_path # NoPath
              /\ \E q \in Fopen(t) :
                   o = IF q.log.log_file = NoPath THEN q ELSE Measured(q)
  BY DEF SetTarget
<1> HIDE DEF l, t
<1>5. /\ Inv(t) /\ t.log = l /\ t.open = s.open
      /\ t.disk = s.disk /\ t.sent = s.sent
  BY <1>1, <1>2, <1>3, LogUpdate, LogUpdateTidy
<1>6. SameLimits(s, t)
  BY <1>2, <1>5 DEF SameLimits
<1>7. Tidy(s) => Tidy(t)
  BY <1>2, <1>5, <1>6, DiskSame DEF Tidy, HandleOK
<1>8. Inv(o) /\ SameLimits(t, o) /\ (Tidy(t) => Tidy(o)) /\ (Opens => Opened(o))
  <2>1. CASE /\ o = t
             /\ ~("file" \in target /\ t.log.log_file = NoPath
                    /\ t.log.log_file_path # NoPath)
    BY <1>2, <1>5, <2>1 DEF SameLimits, Opened
  <2>2. CASE o = Fclose(t) /\ t.log.log_file # NoPath /\ "file" \notin target
    <3>1. /\ Inv(o) /\ o.log = [t.log EXCEPT !.log_file = NoPath]
      BY <1>5, <2>2, FcloseInv
    <3>2. o.log.target = target /\ SameLimits(t, o)
      BY <1>2, <1>5, <3>1 DEF LogRecords, SameLimits
    <3> QED
      BY <2>2, <3>1, <3>2, FcloseTidy DEF Opened
  <2>3. CASE /\ t.log.log_file = NoPath /\ t.log.log_file_path # NoPath
             /\ \E q \in Fopen(t) :
                  o = IF q.log.log_file = NoPath THEN q ELSE Measured(q)
    <3>1. t.log.log_file_path \in Paths
      BY <1>2, <1>5, <2>3 DEF LogRecords
    <3>2. PICK z \in OpenLog(t) : z.s = o
      <4>1. PICK q \in Fopen(t) :
               o = IF q.log.log_file = NoPath THEN q ELSE Measured(q)
        BY <2>3
      <4> DEFINE z == [ok |-> q.log.log_file # NoPath, s |-> o]
      <4>2. z \in OpenLog(t) /\ z.s = o
        BY <4>1 DEF OpenLog
      <4> QED
        BY <4>2
    <3>3. Inv(z.s)
      BY <1>5, <3>1, OpenLogInv
    <3>4. /\ SameSettings(t, z.s) /\ (Opens => z.ok)
          /\ (z.ok => z.s.log.log_file # NoPath)
          /\ (Tidy(t) => Tidy(z.s))
      BY <1>5, <2>3, <3>1, OpenLogTidy
    <3>5. SameLimits(t, o)
      BY <1>5, <3>2, <3>4, SettingsFields
    <3> QED
      BY <3>2, <3>3, <3>4, <3>5 DEF Opened
  <2> QED
    BY <1>4, <2>1, <2>2, <2>3
<1>9. KeepsAll(o, r)
  BY <1>4, <1>8, WriteTidy
<1> QED
  BY <1>6, <1>7, <1>8, <1>9 DEF KeepsAll, SameLimits

\* m70_log_set_file.
LEMMA SetFileTidy ==
    ASSUME NEW s, Inv(s), NEW p \in Paths, NEW r \in SetFile(s, p)
    PROVE  KeepsAll(s, r)
<1> DEFINE c == IF s.log.log_file = NoPath THEN s ELSE Fclose(s)
           l == [c.log EXCEPT !.log_file_path = p]
           t == [c EXCEPT !.log.log_file_path = p]
<1>1. /\ Inv(c) /\ c.log.log_file = NoPath /\ SameLimits(s, c)
      /\ Tidy(s) => Tidy(c)
  <2>1. CASE s.log.log_file = NoPath
    BY <2>1 DEF SameLimits
  <2>2. CASE s.log.log_file # NoPath
    <3>1. Inv(c) /\ c.log = [s.log EXCEPT !.log_file = NoPath]
      BY <2>2, FcloseInv
    <3>2. s.log \in LogRecords
      BY DEF Inv, States
    <3>3. c.log.log_file = NoPath /\ SameLimits(s, c)
      BY <3>1, <3>2 DEF LogRecords, SameLimits
    <3>4. Tidy(s) => Tidy(c)
      BY <2>2, FcloseTidy
    <3> QED
      BY <3>1, <3>3, <3>4
  <2> QED
    BY <2>1, <2>2
<1> HIDE DEF c
<1>2. /\ l \in LogRecords /\ l.log_file = NoPath
      /\ l.current_file_size = c.log.current_file_size
      /\ l.log_file_path = p
      /\ l.max_file_size = c.log.max_file_size
      /\ l.max_file_count = c.log.max_file_count
  BY <1>1 DEF Inv, States, LogRecords
<1>3. t = [c EXCEPT !.log = l]
  BY <1>1 DEF Inv, States
<1>4. PICK q : /\ r \in IF q.ok THEN log_write(q.s, INFO) ELSE {q.s}
               /\ \/ q \in OpenLog(t)
                  \/ q.s = t /\ "file" \notin t.log.target
  <2>1. t = [IF s.log.log_file = NoPath THEN s ELSE Fclose(s)
               EXCEPT !.log.log_file_path = p]
    BY DEF c
  <2> HIDE DEF t
  <2> DEFINE opened == IF "file" \in t.log.target THEN OpenLog(t)
                       ELSE { [ok |-> made, s |-> t] : made \in Tries("mkdir") }
  <2>2. PICK q \in opened : r \in IF q.ok THEN log_write(q.s, INFO) ELSE {q.s}
    BY <2>1 DEF SetFile
  <2>3. q \in OpenLog(t) \/ (q.s = t /\ "file" \notin t.log.target)
    BY <2>2
  <2> QED
    BY <2>2, <2>3
<1> HIDE DEF l, t
<1>5. /\ Inv(t) /\ t.log = l /\ t.open = c.open
      /\ t.disk = c.disk /\ t.sent = c.sent
  BY <1>1, <1>2, <1>3, LogUpdate, LogUpdateTidy
<1>6. SameLimits(s, t) /\ SameLimits(c, t)
  BY <1>1, <1>2, <1>5 DEF SameLimits
<1>7. Tidy(s) => Tidy(t)
  BY <1>1, <1>2, <1>5, <1>6, DiskSame DEF Tidy, HandleOK
<1>8. /\ Inv(q.s) /\ SameLimits(t, q.s) /\ (Tidy(t) => Tidy(q.s))
      /\ Opens => Opened(q.s)
  <2>1. CASE q.s = t /\ "file" \notin t.log.target
    BY <1>5, <2>1 DEF SameLimits, Opened
  <2>2. CASE q \in OpenLog(t)
    <3>1. t.log.log_file_path \in Paths /\ t.log.log_file = NoPath
      BY <1>2, <1>5
    <3>2. Inv(q.s)
      BY <1>5, <2>2, <3>1, OpenLogInv
    <3>3. /\ SameSettings(t, q.s) /\ (Opens => q.ok)
          /\ (q.ok => q.s.log.log_file # NoPath)
          /\ (Tidy(t) => Tidy(q.s))
      BY <1>5, <2>2, <3>1, OpenLogTidy
    <3>4. SameLimits(t, q.s)
      BY <1>5, <3>3, SettingsFields
    <3> QED
      BY <3>2, <3>3, <3>4 DEF Opened
  <2> QED
    BY <1>4, <2>1, <2>2
<1>9. CASE q.ok
  <2>1. KeepsAll(q.s, r)
    BY <1>4, <1>8, <1>9, WriteTidy
  <2> QED
    BY <1>6, <1>7, <1>8, <2>1 DEF KeepsAll, SameLimits
<1>10. CASE ~q.ok
  BY <1>4, <1>6, <1>7, <1>8, <1>10 DEF KeepsAll, SameLimits
<1> QED
  BY <1>9, <1>10
-----------------------------------------------------------------------------
(***************************************************************************)
(* The invariant of the specification, and what follows from it.           *)
(***************************************************************************)

\* It holds before the first call.
LEMMA HistInit == Init => HistInv
<1> SUFFICES ASSUME Init PROVE HistInv
  OBVIOUS
<1>1. /\ sys.log = InitialLog
      /\ \A p \in Paths : sys.sent[p] = 0 /\ \A i \in Suffixes : sys.disk[p][i] = Missing
  BY DEF Init
<1>2. Fresh(sys)
  BY <1>1 DEF Fresh, InitialLog
<1>3. DiskOK(sys)
  BY <1>1, FreshPath DEF DiskOK, InitialLog
<1> QED
  BY <1>2, <1>3, InitInv DEF HistInv

\* Every call keeps it.
LEMMA HistStep == HistInv /\ [Next]_sys => HistInv'
<1> SUFFICES ASSUME HistInv, [Next]_sys, "early" \notin Uses
             PROVE  SysInv' /\ DiskOK(sys)' /\ (Fresh(sys)' \/ Settled(sys)')
  BY DEF HistInv
<1>1. /\ SysInv /\ Inv(sys) /\ Good(sys) /\ Tidy(sys)
      /\ Fresh(sys) \/ Settled(sys)
  BY DEF HistInv, SysInv, Tidy, Good
<1>2. SysInv' /\ Inv(sys') /\ Good(sys')
  <2>1. SysInv'
    BY <1>1, StepInv
  <2> QED
    BY <2>1 DEF SysInv, Inv, FileOK, CountOK, CounterOK, Good, HandleOK
<1>3. SUFFICES Tidy(sys') /\ (Fresh(sys') \/ Settled(sys'))
  <2>1. DiskOK(sys') => DiskOK(sys)'
    BY DEF DiskOK
  <2>2. (Fresh(sys') => Fresh(sys)') /\ (Settled(sys') => Settled(sys)')
    BY DEF Fresh, Settled
  <2> QED
    BY <1>2, <1>3, <2>1, <2>2 DEF Tidy
<1>4. ASSUME KeepsAll(sys, sys'), sys.log.initialized
      PROVE  Tidy(sys') /\ (Fresh(sys') \/ Settled(sys'))
  BY <1>1, <1>4 DEF KeepsAll, Fresh, Settled, SameLimits
<1>5. ASSUME sys' = sys
      PROVE  Tidy(sys') /\ (Fresh(sys') \/ Settled(sys'))
  BY <1>1, <1>5
<1>6. ASSUME NEW s \in Shutdown(sys)
      PROVE  /\ Tidy(s) /\ Good(s) /\ (Fresh(s) \/ Settled(s))
             /\ ~s.log.initialized \/ s.crashed
  <2>1. /\ SameLimits(sys, s) /\ Tidy(s) /\ Good(s)
        /\ ~s.log.initialized \/ s.crashed
    BY <1>1, ShutdownTidy, ShutdownInv
  <2>2. Fresh(sys) => s = sys
    BY DEF Fresh, Shutdown
  <2> QED
    BY <1>1, <2>1, <2>2 DEF Settled, SameLimits
<1>7. CASE m70_log_init
  <2>1. PICK s \in Shutdown(sys) :
           IF s.crashed THEN sys' = s
                        ELSE \E c \in Configs : sys' \in InitWith(s, c)
    BY <1>7 DEF m70_log_init
  <2>2. /\ Tidy(s) /\ Good(s) /\ (Fresh(s) \/ Settled(s))
        /\ ~s.log.initialized \/ s.crashed
    BY <1>6, <2>1
  <2> QED
    BY <2>1, <2>2, InitWithTidy
<1>8. CASE InitDefault
  <2>1. PICK s \in Shutdown(sys) :
           sys' = IF s.crashed THEN s ELSE [s EXCEPT !.log.initialized = TRUE]
    BY <1>8 DEF InitDefault
  <2>2. /\ Tidy(s) /\ Good(s) /\ (Fresh(s) \/ Settled(s))
    BY <1>6, <2>1
  <2>3. CASE s.crashed
    BY <2>1, <2>2, <2>3
  <2>4. CASE ~s.crashed
    <3> DEFINE l == [s.log EXCEPT !.initialized = TRUE]
    <3>1. s.log \in LogRecords /\ s \in States /\ Inv(s)
      BY <2>2 DEF Tidy, Inv, States
    <3>2. sys' = [s EXCEPT !.log = l]
      BY <2>1, <2>4, <3>1 DEF States
    <3>3. /\ l \in LogRecords /\ l.log_file = s.log.log_file
          /\ l.max_file_size = s.log.max_file_size
          /\ l.max_file_count = s.log.max_file_count
      BY <3>1 DEF LogRecords
    <3> HIDE DEF l
    <3>4. sys'.log = l /\ sys'.disk = s.disk /\ sys'.sent = s.sent
      BY <3>1, <3>2, <3>3, LogUpdateTidy
    <3>5. SameLimits(s, sys')
      BY <3>3, <3>4 DEF SameLimits
    <3>6. DiskOK(sys')
      BY <2>2, <3>3, <3>4, <3>5, DiskSame DEF Tidy
    <3>7. Settled(sys')
      <4>1. CASE Settled(s)
        BY <3>5, <4>1 DEF Settled, SameLimits
      <4>2. CASE Fresh(s)
        BY <1>8, <3>5, <4>2 DEF Fresh, InitDefault, Settled, SameLimits,
           Sized, Counted, SameSizes, SameCounts
      <4> QED
        BY <2>2, <4>1, <4>2
    <3> QED
      BY <1>2, <3>6, <3>7 DEF Tidy, Good
  <2> QED
    BY <2>3, <2>4
<1>9. CASE m70_log_shutdown
  BY <1>6, <1>9 DEF m70_log_shutdown
<1>10. CASE m70_log
  <2>1. PICK v \in Levels : sys' \in log_write(sys, v)
    BY <1>10 DEF m70_log
  <2>2. CASE sys.log.initialized
    BY <1>1, <1>4, <2>1, <2>2, WriteTidy
  <2>3. CASE ~sys.log.initialized
    BY <1>5, <2>1, <2>3 DEF log_write
  <2> QED
    BY <2>2, <2>3
<1>11. CASE m70_log_set_level
  BY <1>1, <1>4, <1>11, SetLevelTidy DEF m70_log_set_level, MaySet
<1>12. CASE m70_log_set_target
  BY <1>1, <1>4, <1>12, SetTargetTidy DEF m70_log_set_target, MaySet
<1>13. CASE m70_log_set_file
  BY <1>1, <1>4, <1>5, <1>13, SetFileTidy DEF m70_log_set_file, MaySet
<1>14. CASE UNCHANGED sys
  BY <1>5, <1>14
<1> QED
  BY <1>7, <1>8, <1>9, <1>10, <1>11, <1>12, <1>13, <1>14 DEF Next

LEMMA HistInvariance == Spec => []HistInv
  BY HistInit, HistStep, PTL DEF Spec

\* What rotation sends away is as long as the limit: current_file_size never
\* counts a kilobyte that is not in the file, and no restart raises the
\* limit above what the rotated files were measured by.
THEOREM FullWhenRotatedCorrect ==
    ASSUME Sized
    PROVE  Spec => []FullWhenRotated
<1>1. HistInv => FullWhenRotated
  <2> SUFFICES ASSUME HistInv, NEW p \in Paths, NEW i \in 1..MaxOld,
                      sys.disk[p][i].there
               PROVE  sys.disk[p][i].size >= sys.log.max_file_size * KB
    BY DEF FullWhenRotated
  <2>1. FullOK(sys.disk[p], sys.log.max_file_size)
    BY DEF HistInv, DiskOK, Sized
  <2>2. i \in Suffixes /\ i >= 1
    BY LogAssumption DEF Suffixes
  <2> QED
    BY <2>1, <2>2 DEF FullOK
<1> QED
  BY <1>1, HistInvariance, PTL

\* Through any number of lines, rotations, retargetings and restarts, what is
\* lost of a path's lines is older than all that is kept.
THEOREM OldestLostFirstCorrect ==
    ASSUME Counted
    PROVE  Spec => []OldestLostFirst
<1>1. HistInv => OldestLostFirst
  <2> SUFFICES ASSUME HistInv, NEW p \in Paths, NEW n \in KeptLines(p),
                      NEW b \in n..sys.sent[p]
               PROVE  b \in KeptLines(p)
    BY DEF OldestLostFirst
  <2> DEFINE files == sys.disk[p]
             m == sys.sent[p]
  <2>1. Whole(files, m) /\ Newest(files, m)
    BY DEF HistInv, DiskOK, Counted, PathOK
  <2>2. PICK i \in Suffixes : n \in files[i].lines
    BY DEF KeptLines
  <2>3. n \in 1..m /\ Has(files, n)
    BY <2>1, <2>2 DEF Whole, Has
  <2>4. Has(files, b)
    BY <2>1, <2>3 DEF Newest
  <2> QED
    BY <2>4 DEF Has, KeptLines
<1> QED
  BY <1>1, HistInvariance, PTL

\* A line is lost only while the path has its max_file_count rotated files:
\* "Keep 5 historical log files" (main.c:311).
THEOREM HistoryKeptCorrect ==
    ASSUME Counted
    PROVE  Spec => []HistoryKept
<1>1. HistInv => HistoryKept
  <2> SUFFICES ASSUME HistInv, NEW p \in Paths,
                      NEW a \in 1..sys.sent[p], a \notin KeptLines(p),
                      NEW i \in 1..sys.log.max_file_count
               PROVE  sys.disk[p][i].there
    BY DEF HistoryKept
  <2>1. LostFull(sys.disk[p], sys.sent[p], sys.log.max_file_count)
    BY DEF HistInv, DiskOK, Counted, PathOK
  <2>2. ~Has(sys.disk[p], a)
    BY DEF Has, KeptLines
  <2> QED
    BY <2>1, <2>2 DEF LostFull
<1> QED
  BY <1>1, HistInvariance, PTL

\* Unless fopen or mkdir fails, or m70_log_init(NULL) is called on settings
\* a shutdown left behind, no line for the file is dropped: whatever the
\* order of the calls, before m70_log_init and after shutdown included.
THEOREM FileTargetOpenCorrect ==
    ASSUME Opens
    PROVE  Spec => []FileTargetOpen
<1> DEFINE OpenInv == SysInv /\ FileTargetOpen
<1>1. FileTargetOpen <=> Opened(sys)
  BY DEF FileTargetOpen, Opened
<1>2. Init => OpenInv
  BY InitInv DEF Init, InitialLog, FileTargetOpen
<1>3. OpenInv /\ [Next]_sys => OpenInv'
  <2> SUFFICES ASSUME SysInv, FileTargetOpen, [Next]_sys
               PROVE  Opened(sys')
    BY StepInv DEF FileTargetOpen, Opened
  <2>1. Inv(sys) /\ Opened(sys)
    BY <1>1 DEF SysInv
  <2>2. CASE m70_log_init
    <3>1. PICK s \in Shutdown(sys) :
             IF s.crashed THEN sys' = s
                          ELSE \E c \in Configs : sys' \in InitWith(s, c)
      BY <2>2 DEF m70_log_init
    <3>2. Inv(s) /\ Opened(s) /\ (~s.log.initialized \/ s.crashed)
      BY <2>1, <3>1, ShutdownInv, ShutdownTidy
    <3>3. CASE s.crashed
      BY <3>1, <3>2, <3>3
    <3>4. CASE ~s.crashed
      BY <3>1, <3>2, <3>4, InitWithOpened
    <3> QED
      BY <3>3, <3>4
  <2>3. CASE InitDefault
    BY <2>3 DEF InitDefault, Opens
  <2>4. CASE m70_log_shutdown
    BY <2>1, <2>4, ShutdownTidy DEF m70_log_shutdown
  <2>5. CASE m70_log
    BY <2>1, <2>5, WriteTidy DEF m70_log, KeepsAll
  <2>6. CASE m70_log_set_level
    BY <2>1, <2>6, SetLevelTidy DEF m70_log_set_level, KeepsAll
  <2>7. CASE m70_log_set_target
    BY <2>1, <2>7, SetTargetTidy DEF m70_log_set_target, KeepsAll
  <2>8. CASE m70_log_set_file
    BY <2>1, <2>8, SetFileTidy DEF m70_log_set_file, KeepsAll
  <2>9. CASE UNCHANGED sys
    BY <2>1, <2>9
  <2> QED
    BY <2>2, <2>3, <2>4, <2>5, <2>6, <2>7, <2>8, <2>9 DEF Next
<1> QED
  BY <1>2, <1>3, PTL DEF Spec
=============================================================================
