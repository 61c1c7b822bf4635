---------------------------- MODULE M70LogProofs ----------------------------
(***************************************************************************)
(* Proofs about M70Log for all paths, configurations, sizes and bounds,    *)
(* and whichever calls to the C library fail.                              *)
(***************************************************************************)
EXTENDS M70Log, TLAPS

(***************************************************************************)
(* Arithmetic of the size counter.                                         *)
(***************************************************************************)

\* Counting whole kilobytes counts no more than there is.
LEMMA DivBound ==
    ASSUME NEW a \in Nat, NEW k \in Nat \ {0}
    PROVE  a \div k \in Nat /\ (a \div k) * k <= a
  OBVIOUS

\* Wrapping around makes a counter no larger.
LEMMA ModBound ==
    ASSUME NEW a \in Nat, NEW w \in Nat \ {0}
    PROVE  a % w \in Nat /\ a % w <= a
  OBVIOUS

\* Bounds of two counts add up.
LEMMA SumBound ==
    ASSUME NEW c \in Nat, NEW d \in Nat, NEW e \in Nat, NEW k \in Nat,
           NEW x \in Nat, NEW y \in Nat,
           e <= c + d, c * k <= x, d * k <= y
    PROVE  e * k <= x + y
<1>1. e * k <= (c + d) * k
  OBVIOUS
<1>2. (c + d) * k = c * k + d * k
  OBVIOUS
<1>3. c * k \in Nat /\ d * k \in Nat /\ e * k \in Nat /\ (c + d) * k \in Nat
  OBVIOUS
<1> QED
  BY <1>1, <1>2, <1>3

(***************************************************************************)
(* The invariant every call keeps.  The FILE in use is open and has a      *)
(* path; without a failing fprintf the counter is not above the size.      *)
(***************************************************************************)
FileOK(s) ==
    s.log.log_file # NoPath => s.open >= 1 /\ s.log.log_file_path \in Paths
CountOK(s) == "fprintf" \notin FailAt => CounterOK(s)
Inv(s) == s \in States /\ FileOK(s) /\ CountOK(s)

\* What holds besides when set_* are called between m70_log_init and
\* m70_log_shutdown only: no FILE is open outside.
Good(s) == HandleOK(s) /\ (s.log.initialized \/ s.log.log_file = NoPath)

\* Opening the log file yields the FILE of the path, or none.
LEMMA FopenInv ==
    ASSUME NEW s \in States, s.log.log_file_path \in Paths, NEW r \in Fopen(s)
    PROVE  /\ r \in States
           /\ r.log = [s.log EXCEPT !.log_file = r.log.log_file]
           /\ r.log.log_file \in {NoPath, s.log.log_file_path}
           /\ r.log.log_file # NoPath => r.open = s.open + 1
           /\ r.log.log_file = NoPath => r.open = s.open
           /\ r.crashed = s.crashed
<1>1. CASE r = [s EXCEPT !.log.log_file = NoPath]
  BY <1>1, LogAssumption DEF States, LogRecords
<1>2. CASE r = [s EXCEPT !.log.log_file = s.log.log_file_path,
                         !.disk[s.log.log_file_path][0] =
                             IF @.there THEN @ ELSE Empty,
                         !.open = @ + 1]
  <2> DEFINE p == s.log.log_file_path
             f == IF s.disk[p][0].there THEN s.disk[p][0] ELSE Empty
             d == [s.disk EXCEPT ![p] = [@ EXCEPT ![0] = f]]
  <2>1. f \in Files /\ s.disk \in [Paths -> [Suffixes -> Files]]
    BY LogAssumption DEF States, Files, Empty, Suffixes
  <2>2. d \in [Paths -> [Suffixes -> Files]]
    <3> HIDE DEF f
    <3> QED
      BY <2>1
  <2>3. r = [s EXCEPT !.log = [@ EXCEPT !.log_file = p], !.disk = d,
                      !.open = @ + 1]
    BY <1>2
  <2>4. p # NoPath
    BY LogAssumption
  <2> HIDE DEF d, p
  <2>5. /\ r.log = [s.log EXCEPT !.log_file = p]
        /\ r.disk = d /\ r.open = s.open + 1
        /\ r.sent = s.sent /\ r.crashed = s.crashed
        /\ r = [log |-> r.log, disk |-> r.disk, open |-> r.open,
                sent |-> r.sent, crashed |-> r.crashed]
    BY <2>3 DEF States
  <2>6. r.log \in LogRecords /\ r.log.log_file = p
    <3>1. s.log \in LogRecords /\ p \in Paths
      BY DEF States, p
    <3> QED
      BY <2>5, <3>1 DEF LogRecords
  <2>7. r \in States
    BY <2>2, <2>5, <2>6 DEF States
  <2> QED
    BY <2>4, <2>5, <2>6, <2>7 DEF p
<1> QED
  BY <1>1, <1>2 DEF Fopen

\* A state is what its five parts are.
LEMMA StateParts ==
    ASSUME NEW r, NEW l \in LogRecords,
           NEW d \in [Paths -> [Suffixes -> Files]],
           NEW o \in Nat, NEW t \in [Paths -> Nat], NEW c \in BOOLEAN,
           r = [log |-> l, disk |-> d, open |-> o, sent |-> t, crashed |-> c]
    PROVE  /\ r \in States
           /\ r.log = l /\ r.disk = d /\ r.open = o /\ r.sent = t
           /\ r.crashed = c
  BY DEF States

\* Closing the FILE in use leaves none.
LEMMA FcloseInv ==
    ASSUME NEW s, Inv(s), s.log.log_file # NoPath
    PROVE  /\ Inv(Fclose(s))
           /\ Fclose(s).log = [s.log EXCEPT !.log_file = NoPath]
           /\ Fclose(s).open = s.open - 1
           /\ Fclose(s).disk = s.disk
           /\ Fclose(s).crashed = s.crashed
<1> DEFINE r == Fclose(s)
           l == [s.log EXCEPT !.log_file = NoPath]
<1>1. s.log \in LogRecords /\ s.open \in Nat /\ s.open >= 1
  BY DEF Inv, FileOK, States
<1>2. l \in LogRecords /\ l.log_file = NoPath
  BY <1>1 DEF LogRecords
<1>3. r = [log |-> l, disk |-> s.disk, open |-> s.open - 1, sent |-> s.sent,
           crashed |-> s.crashed]
  <2>1. s \in States
    BY DEF Inv
  <2>2. r = [s EXCEPT !.log = l, !.open = @ - 1]
    BY <2>1 DEF Fclose, States
  <2> HIDE DEF l, r
  <2> QED
    BY <2>1, <2>2 DEF States
<1>4. /\ r \in States
      /\ r.log = l /\ r.disk = s.disk /\ r.open = s.open - 1
      /\ r.crashed = s.crashed
  <2> HIDE DEF l, r
  <2> QED
    BY <1>1, <1>2, <1>3, StateParts DEF Inv, States
<1> QED
  BY <1>2, <1>4 DEF Inv, FileOK, CountOK, CounterOK

\* Reading the size of the open file sets the counter to it.
LEMMA MeasuredInv ==
    ASSUME NEW s \in States, FileOK(s), s.log.log_file # NoPath
    PROVE  /\ Inv(Measured(s))
           /\ Measured(s).log.log_file = s.log.log_file
           /\ Measured(s).log.log_file_path = s.log.log_file_path
           /\ Measured(s).log.initialized = s.log.initialized
           /\ Measured(s).open = s.open
           /\ Measured(s).crashed = s.crashed
<1> DEFINE r == Measured(s)
           f == s.log.log_file
           z == s.disk[f][0].size
           k == z \div KB
           l == [s.log EXCEPT !.current_file_size = k]
<1>1. f \in Paths /\ s.log \in LogRecords
      /\ s.disk \in [Paths -> [Suffixes -> Files]]
  BY DEF States, LogRecords
<1>2. z \in Nat
  BY <1>1, LogAssumption DEF Files, Suffixes
<1>3. k \in Nat /\ k * KB <= z
  BY <1>2, DivBound, LogAssumption
<1>4. /\ l \in LogRecords /\ l.log_file = f /\ l.current_file_size = k
      /\ l.log_file_path = s.log.log_file_path
      /\ l.initialized = s.log.initialized
  <2> HIDE DEF k
  <2> QED
    BY <1>1, <1>3 DEF LogRecords
<1>5. r = [log |-> l, disk |-> s.disk, open |-> s.open, sent |-> s.sent,
           crashed |-> s.crashed]
  BY DEF States, Measured
<1>6. /\ r \in States /\ r.log = l /\ r.disk = s.disk /\ r.open = s.open
      /\ r.crashed = s.crashed
  <2> HIDE DEF l, r
  <2> QED
    BY <1>4, <1>5, StateParts DEF States
<1> QED
  <2> HIDE DEF l, r, k
  <2>1. FileOK(r) /\ CountOK(r)
    BY <1>3, <1>4, <1>6 DEF FileOK, CountOK, CounterOK
  <2> QED
    BY <1>4, <1>6, <2>1 DEF Inv, r

\* Rotation renames and removes files, and makes no other.
LEMMA RotatedType ==
    ASSUME NEW files \in [Suffixes -> Files], NEW count, NEW removed, NEW kept
    PROVE  Rotated(files, count, removed, kept) \in [Suffixes -> Files]
<1>1. Missing \in Files
  BY DEF Missing, Files
<1>2. \A i \in Suffixes : i >= 1 => i - 1 \in Suffixes
  BY LogAssumption DEF Suffixes
<1> QED
  BY <1>1, <1>2 DEF Rotated

\* Rotation goes on with the path's file opened anew and counted as empty,
\* or with none.
LEMMA RotateInv ==
    ASSUME NEW s, Inv(s), NEW r \in rotate_log_file_if_needed(s)
    PROVE  /\ Inv(r)
           /\ r.log.initialized = s.log.initialized
           /\ r.crashed = s.crashed
           /\ Good(s) => Good(r)
<1>1. CASE r = s
  BY <1>1
<1>2. CASE s.log.log_file # NoPath /\ r # s
  <2> DEFINE p == s.log.log_file_path
             c == Fclose(s)
  <2>1. /\ s \in States /\ p \in Paths /\ c \in States
        /\ c.log = [s.log EXCEPT !.log_file = NoPath]
        /\ c.open = s.open - 1 /\ c.crashed = s.crashed
    BY <1>2, FcloseInv DEF Inv, FileOK
  <2>2. PICK removed \in Tries("remove"), kept \in NotRenamed(s) :
           r \in Fopen(Renamed(s, removed, kept))
    BY <1>2 DEF rotate_log_file_if_needed
  <2> DEFINE l == [c.log EXCEPT !.current_file_size = 0]
             g == Rotated(c.disk[p], s.log.max_file_count, removed, kept)
             d == [c.disk EXCEPT ![p] = g]
             t == [c EXCEPT !.log = l, !.disk = d]
  <2> HIDE DEF c
  <2>3. g \in [Suffixes -> Files]
    BY <2>1, RotatedType DEF States
  <2>4. d \in [Paths -> [Suffixes -> Files]]
    <3> HIDE DEF g, p
    <3> QED
      BY <2>1, <2>3 DEF States
  <2>5. /\ l \in LogRecords /\ l.log_file = NoPath /\ l.log_file_path = p
        /\ l.current_file_size = 0 /\ l.initialized = s.log.initialized
    BY <2>1 DEF States, LogRecords
  <2>6. r \in Fopen(t)
    <3>1. Renamed(s, removed, kept) = t
      BY <2>1 DEF States, Renamed, c
    <3> QED
      BY <2>2, <3>1
  <2>7. /\ t \in States /\ t.log = l /\ t.open = s.open - 1
        /\ t.crashed = s.crashed
    <3> HIDE DEF l, d
    <3>1. /\ c \in States /\ l \in LogRecords
          /\ t = [c EXCEPT !.log = l, !.disk = d]
      BY <2>1, <2>5
    <3> HIDE DEF t
    <3>2. /\ t \in States
          /\ t.log = l /\ t.open = c.open /\ t.crashed = c.crashed
      BY <2>4, <3>1 DEF States
    <3> QED
      BY <2>1, <3>2
  <2> HIDE DEF t, l
  <2>8. /\ r \in States
        /\ r.log = [t.log EXCEPT !.log_file = r.log.log_file]
        /\ r.log.log_file \in {NoPath, p}
        /\ r.log.log_file # NoPath => r.open = t.open + 1
        /\ r.log.log_file = NoPath => r.open = t.open
        /\ r.crashed = s.crashed
    BY <2>1, <2>5, <2>6, <2>7, FopenInv
  <2>9. /\ r.log.initialized = s.log.initialized
        /\ r.log.log_file_path = p /\ r.log.current_file_size = 0
    BY <2>5, <2>7, <2>8 DEF LogRecords
  <2>10. s.open \in Nat /\ s.open >= 1
    BY <1>2, <2>1 DEF Inv, FileOK, States
  <2>11. FileOK(r)
    BY <2>1, <2>7, <2>8, <2>9, <2>10 DEF FileOK
  <2>12. CounterOK(r)
    <3>1. r.log.log_file # NoPath => r.disk[r.log.log_file][0].size \in Nat
      <4>1. r.log.log_file # NoPath =>
              r.disk[r.log.log_file] \in [Suffixes -> Files]
        BY <2>1, <2>8 DEF States
      <4> QED
        BY <4>1, LogAssumption DEF Files, Suffixes
    <3> QED
      BY <2>9, <3>1, LogAssumption DEF CounterOK
  <2>13. Good(s) => Good(r)
    BY <1>2, <2>7, <2>8, <2>9, <2>10 DEF Good, HandleOK
  <2> QED
    BY <2>8, <2>9, <2>11, <2>12, <2>13 DEF Inv, CountOK
<1> QED
  BY <1>1, <1>2 DEF rotate_log_file_if_needed

\* Writing a line, or failing to, keeps the FILE and counts what was written.
LEMMA AppendInv ==
    ASSUME NEW s, Inv(s), s.log.log_file # NoPath,
           NEW ok \in Tries("fprintf"), NEW b \in LineSizes
    PROVE  /\ Inv(Append(s, ok, b))
           /\ Append(s, ok, b).log.initialized = s.log.initialized
           /\ Append(s, ok, b).crashed = s.crashed
           /\ Good(s) => Good(Append(s, ok, b))
<1> DEFINE r == Append(s, ok, b)
           p == s.log.log_file
<1>1. /\ s \in States /\ p \in Paths /\ s.log \in LogRecords
      /\ s.log.current_file_size \in Nat /\ b \in Nat
      /\ s.disk \in [Paths -> [Suffixes -> Files]] /\ s.disk[p][0] \in Files
      /\ s.sent \in [Paths -> Nat] /\ s.sent[p] \in Nat
      /\ ok \in {TRUE, FALSE}
  <2>1. s \in States /\ p \in Paths
    BY DEF Inv, States, LogRecords
  <2>2. s.disk \in [Paths -> [Suffixes -> Files]] /\ s.sent \in [Paths -> Nat]
        /\ s.log \in LogRecords
    BY <2>1 DEF States
  <2>3. s.log.current_file_size \in Nat
    BY <2>2 DEF LogRecords
  <2>4. s.disk[p] \in [Suffixes -> Files] /\ s.sent[p] \in Nat
    BY <2>1, <2>2
  <2>5. s.disk[p][0] \in Files
    BY <2>4, LogAssumption DEF Suffixes
  <2> QED
    BY <2>1, <2>2, <2>3, <2>4, <2>5, LogAssumption DEF Tries
<1> HIDE DEF p
<1>2. CASE ok = TRUE
  <2> DEFINE n == s.sent[p] + 1
             k == (s.log.current_file_size
                     + IF ok THEN b \div KB ELSE Width - 1) % Width
             f == [s.disk[p][0] EXCEPT !.lines = @ \union {n}, !.size = @ + b]
             d == [s.disk EXCEPT ![p] = [@ EXCEPT ![0] = f]]
             l == [s.log EXCEPT !.current_file_size = k]
             e == [s.sent EXCEPT ![p] = n]
  <2>1. k \in Nat /\ k <= s.log.current_file_size + b \div KB
    <3> DEFINE x == s.log.current_file_size + b \div KB
    <3>1. b \div KB \in Nat
      BY <1>1, DivBound, LogAssumption
    <3>2. x \in Nat
      BY <1>1, <3>1
    <3>3. k = x % Width
      BY <1>2
    <3> HIDE DEF x, k
    <3>4. x % Width \in Nat /\ x % Width <= x
      BY <3>2, ModBound, LogAssumption
    <3> QED
      BY <3>3, <3>4 DEF x
  <2>2. f \in Files /\ f.size = s.disk[p][0].size + b
        /\ s.disk[p][0].size \in Nat
    <3> DEFINE z == s.disk[p][0]
    <3>1. z \in Files /\ n \in Nat /\ b \in Nat
      BY <1>1
    <3> HIDE DEF z, n
    <3> DEFINE y == z.lines \union {n}
               w == z.size + b
    <3>2. z.size \in Nat /\ y \in SUBSET Nat /\ w \in Nat
      BY <3>1 DEF Files
    <3>3. f = [z EXCEPT !.lines = y, !.size = w]
      BY DEF z
    <3> HIDE DEF y, w, f
    <3>4. f \in Files /\ f.size = w
      BY <3>1, <3>2, <3>3 DEF Files
    <3> QED
      BY <3>2, <3>4 DEF z, w
  <2>3. d \in [Paths -> [Suffixes -> Files]] /\ d[p][0] = f
    <3> HIDE DEF f
    <3> QED
      BY <1>1, <2>2, LogAssumption DEF Suffixes
  <2>4. e \in [Paths -> Nat]
    BY <1>1
  <2>5. /\ l \in LogRecords /\ l.log_file = p /\ l.current_file_size = k
        /\ l.log_file_path = s.log.log_file_path
        /\ l.initialized = s.log.initialized
    <3> HIDE DEF k
    <3> QED
      BY <1>1, <2>1 DEF LogRecords, p
  <2>6. r = [s EXCEPT !.log = l, !.disk = d, !.sent = e]
    <3>1. r = [s EXCEPT !.log = l, !.disk[p][0] = f, !.sent[p] = n]
      BY <1>2, Zenon DEF Append, p
    <3> HIDE DEF r, l, n, f, k
    <3> QED
      BY <1>1, <3>1 DEF States
  <2> HIDE DEF r, l, d, e
  <2>7. /\ r \in States /\ r.log = l /\ r.disk = d /\ r.open = s.open
        /\ r.crashed = s.crashed
    BY <1>1, <2>3, <2>4, <2>5, <2>6 DEF States
  <2>8. CountOK(r)
    <3> HIDE DEF k, f
    <3>1. SUFFICES ASSUME "fprintf" \notin FailAt
                   PROVE  k * KB <= s.disk[p][0].size + b
      BY <1>1, <2>2, <2>3, <2>5, <2>7 DEF CountOK, CounterOK
    <3>2. s.log.current_file_size * KB <= s.disk[p][0].size
      BY <3>1 DEF Inv, CountOK, CounterOK, p
    <3>3. b \div KB \in Nat /\ (b \div KB) * KB <= b
      BY <1>1, DivBound, LogAssumption
    <3> QED
      BY <1>1, <2>1, <2>2, <3>2, <3>3, SumBound, LogAssumption
  <2>9. FileOK(r) /\ (Good(s) => Good(r))
    BY <2>5, <2>7 DEF Inv, FileOK, Good, HandleOK, p
  <2> QED
    BY <2>5, <2>7, <2>8, <2>9 DEF Inv, r
<1>3. CASE ok = FALSE
  <2> DEFINE k == (s.log.current_file_size
                     + IF ok THEN b \div KB ELSE Width - 1) % Width
             l == [s.log EXCEPT !.current_file_size = k]
  <2>1. k \in Nat
    <3> DEFINE x == s.log.current_file_size + (Width - 1)
    <3>1. x \in Nat
      BY <1>1, LogAssumption
    <3>2. k = x % Width
      BY <1>3
    <3> HIDE DEF x, k
    <3>3. x % Width \in Nat
      BY <3>1, ModBound, LogAssumption
    <3> QED
      BY <3>2, <3>3
  <2>2. /\ l \in LogRecords /\ l.log_file = p
        /\ l.log_file_path = s.log.log_file_path
        /\ l.initialized = s.log.initialized
    <3> HIDE DEF k
    <3> QED
      BY <1>1, <2>1 DEF LogRecords, p
  <2>3. r = [s EXCEPT !.log = l]
    BY <1>3, Zenon DEF Append
  <2> HIDE DEF r, l
  <2>4. /\ r \in States /\ r.log = l /\ r.disk = s.disk /\ r.open = s.open
        /\ r.crashed = s.crashed
    BY <1>1, <2>2, <2>3 DEF States
  <2>5. "fprintf" \in FailAt
    BY <1>3 DEF Tries
  <2> QED
    BY <2>2, <2>4, <2>5 DEF Inv, CountOK, FileOK, Good, HandleOK, p, r
<1> QED
  BY <1>1, <1>2, <1>3

\* A call that writes a line keeps the invariant, rotation included.
LEMMA WriteInv ==
    ASSUME NEW s, Inv(s), NEW level, NEW r \in log_write(s, level)
    PROVE  /\ Inv(r)
           /\ r.log.initialized = s.log.initialized
           /\ r.crashed = s.crashed
           /\ Good(s) => Good(r)
<1>1. CASE r = s
  BY <1>1
<1>2. CASE \E q \in rotate_log_file_if_needed(s) :
             r \in IF q.log.log_file = NoPath THEN {q}
                  ELSE { Append(q, ok, b) : ok \in Tries("fprintf"),
                                            b \in LineSizes }
  <2>1. PICK q \in rotate_log_file_if_needed(s) :
             r \in IF q.log.log_file = NoPath THEN {q}
                  ELSE { Append(q, ok, b) : ok \in Tries("fprintf"),
                                            b \in LineSizes }
    BY <1>2
  <2>2. /\ Inv(q) /\ q.log.initialized = s.log.initialized
        /\ q.crashed = s.crashed /\ (Good(s) => Good(q))
    BY <2>1, RotateInv
  <2>3. CASE q.log.log_file = NoPath
    BY <2>1, <2>2, <2>3
  <2>4. CASE q.log.log_file # NoPath
    <3>1. PICK ok \in Tries("fprintf"), b \in LineSizes : r = Append(q, ok, b)
      BY <2>1, <2>4
    <3> QED
      BY <2>2, <2>4, <3>1, AppendInv
  <2> QED
    BY <2>3, <2>4
<1> QED
  BY <1>1, <1>2 DEF log_write

\* Other settings may change when the FILE in use keeps a path.
LEMMA LogUpdate ==
    ASSUME NEW s, Inv(s), NEW l \in LogRecords,
           l.log_file = s.log.log_file,
           l.current_file_size = s.log.current_file_size,
           l.log_file # NoPath => l.log_file_path \in Paths
    PROVE  /\ Inv([s EXCEPT !.log = l])
           /\ [s EXCEPT !.log = l].log = l
           /\ [s EXCEPT !.log = l].open = s.open
           /\ [s EXCEPT !.log = l].crashed = s.crashed
<1> DEFINE r == [s EXCEPT !.log = l]
<1>1. /\ r \in States /\ r.log = l /\ r.disk = s.disk /\ r.open = s.open
      /\ r.crashed = s.crashed
  BY DEF Inv, States
<1> HIDE DEF r
<1>2. Inv(r)
  BY <1>1 DEF Inv, FileOK, CountOK, CounterOK
<1> QED
  BY <1>1, <1>2 DEF r

\* Setting or clearing `initialized'.
LEMMA SetInitialized ==
    ASSUME NEW s, Inv(s), NEW b \in BOOLEAN
    PROVE  LET r == [s EXCEPT !.log.initialized = b]
           IN  /\ Inv(r) /\ r.log.initialized = b
               /\ r.log.log_file = s.log.log_file
               /\ r.log.log_file_path = s.log.log_file_path
               /\ r.open = s.open /\ r.crashed = s.crashed
<1> DEFINE l == [s.log EXCEPT !.initialized = b]
           r == [s EXCEPT !.log.initialized = b]
<1>1. /\ l \in LogRecords /\ l.initialized = b
      /\ l.log_file = s.log.log_file
      /\ l.current_file_size = s.log.current_file_size
      /\ l.log_file_path = s.log.log_file_path
  BY DEF Inv, States, LogRecords
<1>2. r = [s EXCEPT !.log = l]
  BY DEF Inv, States
<1>3. s.log.log_file # NoPath => s.log.log_file_path \in Paths
  BY DEF Inv, FileOK
<1> HIDE DEF l, r
<1>4. /\ Inv(r) /\ r.log = l /\ r.open = s.open /\ r.crashed = s.crashed
  BY <1>1, <1>2, <1>3, LogUpdate
<1> QED
  BY <1>1, <1>4 DEF r

\* Shutting down leaves no FILE and an uninitialised logger, or crashes.
LEMMA ShutdownInv ==
    ASSUME NEW s, Inv(s), NEW r \in Shutdown(s)
    PROVE  /\ Inv(r)
           /\ Good(s) => Good(r)
           /\ ~r.log.initialized \/ r.crashed
<1>1. CASE ~s.log.initialized
  BY <1>1 DEF Shutdown
<1>2. CASE s.log.initialized /\ s.log.log_file = NoPath
  <2>1. r = [s EXCEPT !.log.initialized = FALSE]
    BY <1>2 DEF Shutdown
  <2>2. /\ Inv(r) /\ ~r.log.initialized /\ r.log.log_file = s.log.log_file
        /\ r.log.log_file_path = s.log.log_file_path /\ r.open = s.open
    BY <2>1, SetInitialized
  <2> QED
    BY <1>2, <2>2 DEF Good, HandleOK
<1>3. CASE s.log.initialized /\ s.log.log_file # NoPath
  <2>1. PICK q \in log_write(s, INFO) :
           r = IF q.log.log_file = NoPath
                 THEN [q EXCEPT !.crashed = TRUE]
                 ELSE [Fclose(q) EXCEPT !.log.initialized = FALSE]
    BY <1>3 DEF Shutdown
  <2>2. Inv(q) /\ (Good(s) => Good(q)) /\ q.log.initialized = s.log.initialized
    BY <2>1, WriteInv
  <2>3. CASE q.log.log_file = NoPath
    <3>1. r = [q EXCEPT !.crashed = TRUE]
      BY <2>1, <2>3
    <3>2. /\ r \in States /\ r.log = q.log /\ r.open = q.open
          /\ r.disk = q.disk /\ r.crashed
      BY <2>2, <3>1 DEF Inv, States
    <3> QED
      BY <2>2, <2>3, <3>2
         DEF Inv, FileOK, CountOK, CounterOK, Good, HandleOK
  <2>4. CASE q.log.log_file # NoPath
    <3> DEFINE c == Fclose(q)
    <3>1. r = [c EXCEPT !.log.initialized = FALSE]
      BY <2>1, <2>4
    <3>2. /\ Inv(c) /\ c.log = [q.log EXCEPT !.log_file = NoPath]
          /\ c.open = q.open - 1
      BY <2>2, <2>4, FcloseInv
    <3> HIDE DEF c
    <3>3. /\ Inv(r) /\ ~r.log.initialized /\ r.log.log_file = c.log.log_file
          /\ r.open = c.open
      BY <3>1, <3>2, SetInitialized
    <3>4. c.log.log_file = NoPath
      BY <2>2, <3>2 DEF Inv, States, LogRecords
    <3> QED
      BY <2>2, <2>4, <3>2, <3>3, <3>4 DEF Good, HandleOK
  <2> QED
    BY <2>3, <2>4
<1> QED
  BY <1>1, <1>2, <1>3

\* Opening the file of a new path and measuring it.
LEMMA OpenLogInv ==
    ASSUME NEW s, Inv(s), s.log.log_file_path \in Paths, NEW r \in OpenLog(s)
    PROVE  /\ Inv(r.s)
           /\ r.s.log.initialized = s.log.initialized
           /\ HandleOK(s) /\ s.log.log_file = NoPath => HandleOK(r.s)
           /\ s.log.log_file = NoPath /\ ~r.ok => r.s.log.log_file = NoPath
<1>1. CASE r = [ok |-> FALSE, s |-> s]
  BY <1>1
<1>2. CASE \E q \in Fopen(s) :
             r = [ok |-> q.log.log_file # NoPath,
                  s  |-> IF q.log.log_file = NoPath THEN q ELSE Measured(q)]
  <2>1. PICK q \in Fopen(s) :
             r = [ok |-> q.log.log_file # NoPath,
                  s  |-> IF q.log.log_file = NoPath THEN q ELSE Measured(q)]
    BY <1>2
  <2>2. /\ q \in States
        /\ q.log = [s.log EXCEPT !.log_file = q.log.log_file]
        /\ q.log.log_file \in {NoPath, s.log.log_file_path}
        /\ q.log.log_file # NoPath => q.open = s.open + 1
        /\ q.log.log_file = NoPath => q.open = s.open
    BY <2>1, FopenInv DEF Inv
  <2>3. /\ q.log.initialized = s.log.initialized
        /\ q.log.log_file_path = s.log.log_file_path
        /\ s.open \in Nat
    BY <2>2 DEF Inv, States, LogRecords
  <2>4. HandleOK(s) /\ s.log.log_file = NoPath => HandleOK(q)
    BY <2>2, <2>3 DEF HandleOK
  <2>5. CASE q.log.log_file = NoPath
    <3>1. r.s = q /\ Inv(q)
      BY <2>1, <2>2, <2>5 DEF Inv, FileOK, CountOK, CounterOK
    <3> QED
      BY <2>3, <2>4, <2>5, <3>1
  <2>6. CASE q.log.log_file # NoPath
    <3>1. FileOK(q)
      BY <2>2, <2>3 DEF FileOK
    <3>2. r.s = Measured(q) /\ r.ok
      BY <2>1, <2>6
    <3>3. /\ Inv(r.s) /\ r.s.log.log_file = q.log.log_file
          /\ r.s.log.log_file_path = q.log.log_file_path
          /\ r.s.log.initialized = q.log.initialized /\ r.s.open = q.open
      BY <2>2, <2>6, <3>1, <3>2, MeasuredInv
    <3> QED
      BY <2>3, <2>4, <3>2, <3>3 DEF HandleOK
  <2> QED
    BY <2>5, <2>6
<1> QED
  BY <1>1, <1>2 DEF OpenLog, Tries

\* The last steps of m70_log_init, from a state with at most the one FILE.
LEMMA InitializedInv ==
    ASSUME NEW s, Inv(s), NEW r \in Initialized(s)
    PROVE  Inv(r) /\ (HandleOK(s) => Good(r))
<1> DEFINE q == [s EXCEPT !.log.initialized = TRUE]
<1>1. Inv(q) /\ (HandleOK(s) => Good(q))
  <2>1. /\ Inv(q) /\ q.log.initialized
        /\ q.log.log_file = s.log.log_file
        /\ q.log.log_file_path = s.log.log_file_path /\ q.open = s.open
    BY SetInitialized
  <2> HIDE DEF q
  <2> QED
    BY <2>1 DEF Good, HandleOK
<1> HIDE DEF q
<1>2. r \in log_write(q, INFO)
  BY DEF Initialized, q
<1> QED
  BY <1>1, <1>2, WriteInv

\* m70_log_init with a configuration keeps the invariant.
LEMMA InitWithInv ==
    ASSUME NEW s, Inv(s), NEW c \in Configs, NEW r \in InitWith(s, c)
    PROVE  /\ Inv(r)
           /\ Good(s) /\ ~s.log.initialized => Good(r)
<1> DEFINE l == [s.log EXCEPT !.level = c.level, !.target = c.target,
                              !.max_file_size = c.max_file_size,
                              !.max_file_count = c.max_file_count]
           t == [s EXCEPT !.log.level = c.level, !.log.target = c.target,
                          !.log.max_file_size = c.max_file_size,
                          !.log.max_file_count = c.max_file_count]
           m == [l EXCEPT !.log_file_path = c.log_file_path]
           u == [t EXCEPT !.log.log_file_path = c.log_file_path]
<1>1. /\ s \in States /\ s.log \in LogRecords /\ c \in ConfigRecords
      /\ s.log.log_file # NoPath => s.log.log_file_path \in Paths
  BY LogAssumption DEF Inv, States, FileOK
<1>2. /\ l \in LogRecords /\ l.log_file = s.log.log_file
      /\ l.current_file_size = s.log.current_file_size
      /\ l.log_file_path = s.log.log_file_path
      /\ l.initialized = s.log.initialized
  BY <1>1 DEF ConfigRecords, LogRecords
<1>3. /\ m \in LogRecords /\ m.log_file = s.log.log_file
      /\ m.current_file_size = s.log.current_file_size
      /\ m.log_file_path = c.log_file_path
      /\ m.initialized = s.log.initialized
  <2> HIDE DEF l
  <2> QED
    BY <1>1, <1>2 DEF ConfigRecords, LogRecords
<1>4. t = [s EXCEPT !.log = l] /\ u = [s EXCEPT !.log = m]
  BY <1>1 DEF States, LogRecords
<1>5. \/ r \in Initialized(t)
      \/ r = t
      \/ c.log_file_path \in Paths /\ \E q \in OpenLog(u) :
             r \in IF q.ok THEN Initialized(q.s) ELSE {q.s}
  <2>1. c.log_file_path = NoPath \/ c.log_file_path \in Paths
    BY <1>1 DEF ConfigRecords
  <2> QED
    BY <2>1 DEF InitWith
<1> HIDE DEF l, m, t, u
<1>6. Inv(t) /\ t.log = l /\ t.open = s.open
  BY <1>1, <1>2, <1>4, LogUpdate
<1>7. CASE r = t
  BY <1>2, <1>6, <1>7 DEF Good, HandleOK
<1>8. CASE r \in Initialized(t)
  <2>1. Good(s) => HandleOK(t)
    BY <1>2, <1>6 DEF Good, HandleOK
  <2> QED
    BY <1>6, <1>8, <2>1, InitializedInv
<1>9. CASE c.log_file_path \in Paths /\ \E q \in OpenLog(u) :
             r \in IF q.ok THEN Initialized(q.s) ELSE {q.s}
  <2>1. Inv(u) /\ u.log = m /\ u.open = s.open
    BY <1>1, <1>3, <1>4, <1>9, LogUpdate
  <2>2. PICK q \in OpenLog(u) : r \in IF q.ok THEN Initialized(q.s) ELSE {q.s}
    BY <1>9
  <2>3. u.log.log_file_path \in Paths
    BY <1>3, <1>9, <2>1
  <2>4. /\ Inv(q.s) /\ q.s.log.initialized = u.log.initialized
        /\ HandleOK(u) /\ u.log.log_file = NoPath => HandleOK(q.s)
        /\ u.log.log_file = NoPath /\ ~q.ok => q.s.log.log_file = NoPath
    BY <2>1, <2>2, <2>3, OpenLogInv
  <2>5. Good(s) /\ ~s.log.initialized => HandleOK(u) /\ u.log.log_file = NoPath
    BY <1>3, <2>1 DEF Good, HandleOK
  <2>6. CASE q.ok
    BY <2>2, <2>4, <2>5, <2>6, InitializedInv
  <2>7. CASE ~q.ok
    BY <2>2, <2>4, <2>5, <2>7 DEF Good
  <2> QED
    BY <2>6, <2>7
<1> QED
  BY <1>5, <1>7, <1>8, <1>9

\* m70_log_set_level keeps the invariant.
LEMMA SetLevelInv ==
    ASSUME NEW s, Inv(s), NEW v \in Levels, NEW r \in SetLevel(s, v)
    PROVE  Inv(r) /\ (Good(s) => Good(r))
<1> DEFINE l == [s.log EXCEPT !.level = v]
           t == [s EXCEPT !.log.level = v]
<1>1. /\ s \in States /\ s.log \in LogRecords
      /\ s.log.log_file # NoPath => s.log.log_file_path \in Paths
  BY DEF Inv, States, FileOK
<1>2. /\ l \in LogRecords /\ l.log_file = s.log.log_file
      /\ l.current_file_size = s.log.current_file_size
      /\ l.log_file_path = s.log.log_file_path
      /\ l.initialized = s.log.initialized
  BY <1>1 DEF LogRecords
<1>3. t = [s EXCEPT !.log = l]
  BY <1>1 DEF States
<1>4. r \in log_write(t, INFO)
  BY DEF SetLevel
<1> HIDE DEF l, t
<1>5. Inv(t) /\ t.log = l /\ t.open = s.open
  BY <1>1, <1>2, <1>3, LogUpdate
<1>6. Good(s) => Good(t)
  BY <1>2, <1>5 DEF Good, HandleOK
<1> QED
  BY <1>4, <1>5, <1>6, WriteInv

\* m70_log_set_target keeps the invariant; called on an initialised logger
\* it leaves at most the one FILE.
LEMMA SetTargetInv ==
    ASSUME NEW s, Inv(s), NEW target \in Targets, NEW r \in SetTarget(s, target)
    PROVE  Inv(r) /\ (Good(s) /\ s.log.initialized => Good(r))
<1> DEFINE l == [s.log EXCEPT !.target = target]
           t == [s EXCEPT !.log.target = target]
<1>1. /\ s \in States /\ s.log \in LogRecords
      /\ s.log.log_file # NoPath => s.log.log_file_path \in Paths
  BY DEF Inv, States, FileOK
<1>2. /\ l \in LogRecords /\ l.log_file = s.log.log_file
      /\ l.current_file_size = s.log.current_file_size
      /\ l.log_file_path = s.log.log_file_path
      /\ l.initialized = s.log.initialized
  BY <1>1 DEF LogRecords
<1>3. t = [s EXCEPT !.log = l]
  BY <1>1 DEF States
<1>4. PICK o : /\ r \in log_write(o, INFO)
               /\ \/ o = t
                  \/ o = Fclose(t) /\ t.log.log_file # NoPath
                  \/ /\ t.log.log_file = NoPath /\ t.log.log_file_path # NoPath
                     /\ \E q \in Fopen(t) :
                          o = IF q.log.log_file = NoPath THEN q ELSE Measured(q)
  BY DEF SetTarget
<1> HIDE DEF l, t
<1>5. /\ Inv(t) /\ t.log = l /\ t.open = s.open
      /\ Good(s) => Good(t)
  <2>1. Inv(t) /\ t.log = l /\ t.open = s.open
    BY <1>1, <1>2, <1>3, LogUpdate
  <2> QED
    BY <1>2, <2>1 DEF Good, HandleOK
<1>6. Inv(o) /\ (Good(s) /\ s.log.initialized => Good(o))
  <2>1. CASE o = t
    BY <1>5, <2>1
  <2>2. CASE o = Fclose(t) /\ t.log.log_file # NoPath
    <3>1. /\ Inv(o) /\ o.log = [t.log EXCEPT !.log_file = NoPath]
          /\ o.open = t.open - 1
      BY <1>5, <2>2, FcloseInv
    <3>2. o.log.log_file = NoPath
      BY <1>2, <1>5, <3>1 DEF LogRecords
    <3> QED
      BY <1>5, <2>2, <3>1, <3>2 DEF Good, HandleOK
  <2>3. CASE /\ t.log.log_file = NoPath /\ t.log.log_file_path # NoPath
             /\ \E q \in Fopen(t) :
                  o = IF q.log.log_file = NoPath THEN q ELSE Measured(q)
    <3>1. t \in States /\ t.log.log_file_path \in Paths
      BY <1>2, <1>5, <2>3 DEF Inv, LogRecords
    <3>2. o \in { q.s : q \in OpenLog(t) }
      <4>1. PICK q \in Fopen(t) :
               o = IF q.log.log_file = NoPath THEN q ELSE Measured(q)
        BY <2>3
      <4> DEFINE z == [ok |-> q.log.log_file # NoPath, s |-> o]
      <4>2. z \in OpenLog(t) /\ z.s = o
        BY <4>1 DEF OpenLog
      <4> QED
        BY <4>2
    <3>3. /\ Inv(o) /\ o.log.initialized = t.log.initialized
          /\ HandleOK(t) => HandleOK(o)
      BY <1>5, <2>3, <3>1, <3>2, OpenLogInv
    <3> QED
      BY <1>2, <1>5, <3>3 DEF Good
  <2> QED
    BY <1>4, <2>1, <2>2, <2>3
<1> QED
  BY <1>4, <1>6, WriteInv

\* m70_log_set_file keeps the invariant, likewise.
LEMMA SetFileInv ==
    ASSUME NEW s, Inv(s), NEW p \in Paths, NEW r \in SetFile(s, p)
    PROVE  Inv(r) /\ (Good(s) /\ s.log.initialized => Good(r))
<1> DEFINE c == IF s.log.log_file = NoPath THEN s ELSE Fclose(s)
           l == [c.log EXCEPT !.log_file_path = p]
           t == [c EXCEPT !.log.log_file_path = p]
<1>1. /\ Inv(c) /\ c.log.log_file = NoPath
      /\ c.log.initialized = s.log.initialized
      /\ HandleOK(s) => c.open = 0
  <2>1. CASE s.log.log_file = NoPath
    BY <2>1 DEF HandleOK
  <2>2. CASE s.log.log_file # NoPath
    <3>1. /\ Inv(c) /\ c.log = [s.log EXCEPT !.log_file = NoPath]
          /\ c.open = s.open - 1
      BY <2>2, FcloseInv
    <3>2. s.log \in LogRecords
      BY DEF Inv, States
    <3>3. c.log.log_file = NoPath /\ c.log.initialized = s.log.initialized
      BY <3>1, <3>2 DEF LogRecords
    <3> QED
      BY <2>2, <3>1, <3>3 DEF HandleOK
  <2> QED
    BY <2>1, <2>2
<1> HIDE DEF c
<1>2. /\ l \in LogRecords /\ l.log_file = c.log.log_file
      /\ l.current_file_size = c.log.current_file_size
      /\ l.log_file_path = p
      /\ l.initialized = c.log.initialized
  BY <1>1 DEF Inv, States, LogRecords
<1>3. t = [c EXCEPT !.log = l]
  BY <1>1 DEF Inv, States
<1>4. PICK q : /\ r \in IF q.ok THEN log_write(q.s, INFO) ELSE {q.s}
               /\ q \in OpenLog(t) \/ q.s = t
  <2>1. t = [IF s.log.log_file = NoPath THEN s ELSE Fclose(s)
               EXCEPT !.log.log_file_path = p]
    BY DEF c
  <2> HIDE DEF t
  <2> DEFINE opened == IF "file" \in t.log.target THEN OpenLog(t)
                       ELSE { [ok |-> made, s |-> t] : made \in Tries("mkdir") }
  <2>2. PICK q \in opened : r \in IF q.ok THEN log_write(q.s, INFO) ELSE {q.s}
    BY <2>1 DEF SetFile
  <2>3. q \in OpenLog(t) \/ q.s = t
    BY <2>2
  <2> QED
    BY <2>2, <2>3
<1> HIDE DEF l, t
<1>5. Inv(t) /\ t.log = l /\ t.open = c.open
  BY <1>1, <1>2, <1>3, LogUpdate
<1>6. HandleOK(s) => HandleOK(t) /\ t.log.log_file = NoPath
  BY <1>1, <1>2, <1>5 DEF HandleOK
<1>7. /\ Inv(q.s) /\ q.s.log.initialized = s.log.initialized
      /\ HandleOK(s) => HandleOK(q.s)
  <2>1. CASE q.s = t
    BY <1>1, <1>2, <1>5, <1>6, <2>1
  <2>2. CASE q \in OpenLog(t)
    <3>1. t.log.log_file_path \in Paths
      BY <1>2, <1>5
    <3> QED
      BY <1>1, <1>2, <1>5, <1>6, <2>2, <3>1, OpenLogInv
  <2> QED
    BY <1>4, <2>1, <2>2
<1>8. Good(s) /\ s.log.initialized => Good(q.s)
  BY <1>7 DEF Good
<1> QED
  BY <1>4, <1>7, <1>8, WriteInv

(***************************************************************************)
(* The invariant of the specification, and what follows from it.           *)
(***************************************************************************)
SysInv == Inv(sys) /\ ("early" \notin Uses => Good(sys))

\* It holds before the first call.
LEMMA InitInv == Init => SysInv
<1> SUFFICES ASSUME Init PROVE SysInv
  OBVIOUS
<1> DEFINE d == [p \in Paths |-> [i \in Suffixes |-> Missing]]
<1>1. InitialLog \in LogRecords /\ InitialLog.log_file = NoPath
  <2>1. {"console"} \in Targets
    BY DEF Targets
  <2>2. 5 \in 0..MaxOld
    BY LogAssumption
  <2> QED
    BY <2>1, <2>2 DEF InitialLog, LogRecords
<1>2. d \in [Paths -> [Suffixes -> Files]]
  BY DEF Missing, Files
<1>3. sys \in States /\ sys.log = InitialLog /\ sys.open = 0
  BY <1>1, <1>2 DEF Init, States
<1> QED
  BY <1>1, <1>3
     DEF SysInv, Inv, FileOK, CountOK, CounterOK, Good, HandleOK

\* Every call keeps it.
LEMMA StepInv == SysInv /\ [Next]_sys => SysInv'
<1> SUFFICES ASSUME SysInv, [Next]_sys PROVE SysInv'
  OBVIOUS
<1>1. Inv(sys) /\ ("early" \notin Uses => Good(sys))
  BY DEF SysInv
<1>2. SUFFICES Inv(sys') /\ ("early" \notin Uses => Good(sys'))
  BY DEF SysInv, Inv, FileOK, CountOK, CounterOK, Good, HandleOK
<1>3. CASE m70_log_init
  <2>1. PICK s \in Shutdown(sys) :
           IF s.crashed THEN sys' = s
                        ELSE \E c \in Configs : sys' \in InitWith(s, c)
    BY <1>3 DEF m70_log_init
  <2>2. /\ Inv(s) /\ (Good(sys) => Good(s))
        /\ ~s.log.initialized \/ s.crashed
    BY <1>1, <2>1, ShutdownInv
  <2> QED
    BY <1>1, <2>1, <2>2, InitWithInv
<1>4. CASE InitDefault
  <2>1. PICK s \in Shutdown(sys) :
           sys' = IF s.crashed THEN s ELSE [s EXCEPT !.log.initialized = TRUE]
    BY <1>4 DEF InitDefault
  <2>2. Inv(s) /\ (Good(sys) => Good(s))
    BY <1>1, <2>1, ShutdownInv
  <2>3. CASE s.crashed
    BY <1>1, <2>1, <2>2, <2>3
  <2>4. CASE ~s.crashed
    <3>1. sys' = [s EXCEPT !.log.initialized = TRUE]
      BY <2>1, <2>4
    <3>2. /\ Inv(sys') /\ sys'.log.initialized
          /\ sys'.log.log_file = s.log.log_file
          /\ sys'.log.log_file_path = s.log.log_file_path
          /\ sys'.open = s.open
      BY <2>2, <3>1, SetInitialized
    <3> QED
      BY <1>1, <2>2, <3>2 DEF Good, HandleOK
  <2> QED
    BY <2>3, <2>4
<1>5. CASE m70_log_shutdown
  BY <1>1, <1>5, ShutdownInv DEF m70_log_shutdown
<1>6. CASE m70_log
  BY <1>1, <1>6, WriteInv DEF m70_log
<1>7. CASE m70_log_set_level
  BY <1>1, <1>7, SetLevelInv DEF m70_log_set_level
<1>8. CASE m70_log_set_target
  BY <1>1, <1>8, SetTargetInv DEF m70_log_set_target, MaySet
<1>9. CASE m70_log_set_file
  BY <1>1, <1>9, SetFileInv DEF m70_log_set_file, MaySet
<1>10. CASE UNCHANGED sys
  BY <1>1, <1>10
<1> QED
  BY <1>3, <1>4, <1>5, <1>6, <1>7, <1>8, <1>9, <1>10 DEF Next

\* The invariant holds in every state, for all values of the constants.
LEMMA Invariance == Spec => []SysInv
  BY InitInv, StepInv, PTL DEF Spec

\* The state of g_log_config, its FILE and its files stays what it is
\* declared to be, whatever fails and in whichever order the calls come.
THEOREM LogTypeCorrect == Spec => []TypeOK
<1>1. SysInv => TypeOK
  BY DEF SysInv, Inv, TypeOK
<1> QED
  BY <1>1, Invariance, PTL

\* Unless set_* are called on a logger that is not initialised, m70_log.c
\* holds exactly the FILE it opened, for the path in use: rotations,
\* retargeting, failing fopen, mkdir and rename included, nothing leaks.
THEOREM OneHandleCorrect ==
    ASSUME "early" \notin Uses
    PROVE  Spec => []OneHandle
<1>1. SysInv => OneHandle
  BY DEF SysInv, Good, OneHandle
<1> QED
  BY <1>1, Invariance, PTL

\* While fprintf does not fail, current_file_size never counts more than the
\* open file holds, whichever files were open before: the guard of
\* rotate_log_file_if_needed never passes early.
THEOREM CounterCorrect ==
    ASSUME "fprintf" \notin FailAt
    PROVE  Spec => []CounterNotAbove
<1>1. SysInv => CounterNotAbove
  BY DEF SysInv, Inv, CountOK, CounterNotAbove
<1> QED
  BY <1>1, Invariance, PTL
=============================================================================
