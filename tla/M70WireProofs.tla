---------------------------- MODULE M70WireProofs ----------------------------
(***************************************************************************)
(* Proofs about M70Wire for names and data of any length the buffers take, *)
(* and values of any type; and about the conversions of M70Util for bytes  *)
(* and numbers of any width.                                               *)
(***************************************************************************)
EXTENDS M70Wire, M70Util, WellFoundedInduction, TLAPS

OpNames == DOMAIN Operations
Pack(o) == Operations[o].pack

\* Each op array is as long as the aligned name the device expects, and the
\* arrays of the requests with a name are 256 bytes.
LEMMA PackShape ==
    ASSUME NEW o \in OpNames
    PROVE  /\ Pack(o).field \in Nat /\ Pack(o).words \in Nat
           /\ Pack(o).array \in Nat
           /\ Pack(o).field = Align(Operations[o].length)
           /\ o \in WithName => Pack(o).array = 256
           /\ o \in WithArray \/ o = "melSetData" \/ Pack(o).array = 0
<1> USE DEF OpNames, Pack, Operation, Layout, Align, WithName, WithArray
<1>1. CASE o \in {"melGetData", "melSetData"}
  BY <1>1 DEF Operations, get_data_pack, set_data_pack
<1>2. CASE o \in {"melGetCurrentAlarmMsg", "melGetCurrentPrgBlock", "CancelModal2"}
  BY <1>2 DEF Operations, alarm_info_pack, prog_block_pack, cancel_modal2_pack
<1>3. CASE o \in {"melFsOpenFile", "melFsReadFile", "melFsCloseFile"}
  BY <1>3 DEF Operations, FS_open_file_pack, FS_read_file_pack, FS_close_file_pack
<1>4. CASE o \in {"melFsCreateFile", "melRemoveFile", "melFsWriteFile"}
  BY <1>4 DEF Operations, FS_create_file_pack, FS_remove_pack, FS_write_file_pack
<1>5. CASE o \in {"melFSStatFile", "melFsOpenDirectory", "melFsCloseDirectory",
                  "melFsReadDirectory"}
  BY <1>5 DEF Operations, FS_stat_file_pack, FS_open_directory_pack,
              FS_close_directory_pack, FS_read_directory_pack
<1>6. o \in {"melGetData", "melSetData"}
        \union {"melGetCurrentAlarmMsg", "melGetCurrentPrgBlock", "CancelModal2"}
        \union {"melFsOpenFile", "melFsReadFile", "melFsCloseFile"}
        \union {"melFsCreateFile", "melRemoveFile", "melFsWriteFile"}
        \union {"melFSStatFile", "melFsOpenDirectory", "melFsCloseDirectory",
                "melFsReadDirectory"}
  BY DEF Operations
<1> QED
  BY <1>1, <1>2, <1>3, <1>4, <1>5, <1>6

\* A payload is a number of bytes; that of a request with a name is the name.
LEMMA PayloadType ==
    ASSUME NEW o, NEW t, NEW m \in Nat
    PROVE  /\ Payload(o, t, m) \in Nat
           /\ o \in WithName => Payload(o, t, m) = m
<1>1. get_data_type_length(t) \in Nat
  BY DEF get_data_type_length
<1>2. byte_numbers(t, m) \in Nat
  BY <1>1 DEF byte_numbers
<1>3. o \in WithName => o # "melSetData" /\ o \in WithArray
  BY DEF WithName, WithArray
<1> QED
  BY <1>2, <1>3 DEF Payload

\* What an operation announces, and what it sends beyond that.
LEMMA Announced ==
    ASSUME NEW o \in OpNames, NEW p \in Nat
    PROVE  /\ data_length(o, p) = request_pack_header + Align(Operations[o].length)
                                    + 4 * Pack(o).words + p
           /\ BytesSent(o, p) - giop_header - data_length(o, p) =
                IF o \in {"melSetData", "melFsWriteFile"} THEN 0
                ELSE Pack(o).array - p
<1>1. data_length(o, p) = request_pack_header + Pack(o).field
                            + 4 * Pack(o).words + p
  BY PackShape DEF data_length, sizeof, Pack, giop_header, request_pack_header
<1>2. sizeof(Pack(o)) - giop_header - data_length(o, p) = Pack(o).array - p
  BY <1>1, PackShape DEF sizeof, giop_header, request_pack_header
<1>3. data_length(o, p) \in Int
  BY <1>1, PackShape DEF request_pack_header
<1> QED
  BY <1>1, <1>2, <1>3, PackShape DEF BytesSent, Pack, giop_header

(***************************************************************************)
(* What is left of the announced bytes at each place the device reads.     *)
(***************************************************************************)
Owed ==
    CASE place = "request" -> request_pack_header + Align(Operations[op].length)
                                + 4 * Pack(op).words + Payload(op, type, n)
      [] place = "words"   -> 4 * Pack(op).words + Payload(op, type, n)
      [] place = "bytes"   -> Payload(op, type, n)
      [] place = "header"  -> 0

WireInv ==
    /\ place \in {"header", "request", "words", "bytes"}
    /\ op \in OpNames /\ n \in Nat
    /\ left = Owed
    /\ StrayOnlyAfterNames

LEMMA WireInitInv == WireInit => WireInv
<1> SUFFICES ASSUME WireInit PROVE WireInv
  OBVIOUS
<1>1. op = "melGetData" /\ op \in OpNames
  BY DEF WireInit, OpNames, Operations
<1> QED
  BY <1>1 DEF WireInit, WireInv, Owed, StrayOnlyAfterNames, WithName

\* The parts of a request are numbers of bytes.
LEMMA PartTypes ==
    ASSUME op \in OpNames, n \in Nat
    PROVE  /\ Payload(op, type, n) \in Nat /\ 4 * Pack(op).words \in Nat
           /\ Align(Operations[op].length) \in Nat
<1>1. Pack(op).field \in Nat /\ Pack(op).words \in Nat
      /\ Pack(op).field = Align(Operations[op].length)
  BY PackShape
<1> QED
  BY <1>1, PayloadType

LEMMA WireStep == WireInv /\ [WireNext]_wireVars => WireInv'
<1> SUFFICES ASSUME WireInv, [WireNext]_wireVars
             PROVE  WireInv'
  OBVIOUS
<1>1. op \in OpNames /\ n \in Nat /\ left = Owed
  BY DEF WireInv
<1>2. /\ Payload(op, type, n) \in Nat /\ 4 * Pack(op).words \in Nat
      /\ Align(Operations[op].length) \in Nat
  BY <1>1, PartTypes
<1>3. CASE UNCHANGED wireVars
  BY <1>3 DEF wireVars, WireInv, Owed, StrayOnlyAfterNames
<1>4. ASSUME NEW o \in OpNames, NEW m \in NameLengths, NEW t, Request(o, t, m)
      PROVE  WireInv'
  <2> DEFINE payload == Payload(o, t, m)
  <2>1. /\ op' = o /\ type' = t /\ n' = m /\ place' = "request"
        /\ left' = data_length(o, payload)
        /\ stray' = BytesSent(o, payload) - giop_header - data_length(o, payload)
    BY <1>4 DEF Request
  <2>2. m \in Nat /\ payload \in Nat /\ (o \in WithName => payload = m)
    BY WireAssumption, PayloadType
  <2>3. left' = Owed'
    BY <2>1, <2>2, Announced DEF Owed
  <2>4. stray' = IF o \in WithName THEN 256 - m ELSE 0
    <3>1. CASE o \in WithName
      <4>1. o \notin {"melSetData", "melFsWriteFile"} /\ Pack(o).array = 256
        BY <3>1, PackShape DEF WithName
      <4> QED
        BY <2>1, <2>2, <3>1, <4>1, Announced
    <3>2. CASE o \in {"melSetData", "melFsWriteFile"}
      BY <2>1, <2>2, <3>2, Announced DEF WithName
    <3>3. CASE o \notin WithName \union {"melSetData", "melFsWriteFile"}
      <4>1. Pack(o).array = 0 /\ payload = 0
        BY <3>3, PackShape DEF WithArray, Payload
      <4> QED
        BY <2>1, <2>2, <3>3, <4>1, Announced
    <3> QED
      BY <3>1, <3>2, <3>3
  <2> QED
    BY <2>1, <2>2, <2>3, <2>4 DEF WireInv, StrayOnlyAfterNames
<1>5. CASE ReadRequest
  <2>1. left' = 4 * Pack(op).words + Payload(op, type, n)
    BY <1>1, <1>2, <1>5 DEF ReadRequest, Owed, request_pack_header
  <2> QED
    BY <1>5, <2>1 DEF ReadRequest, WireInv, Owed, StrayOnlyAfterNames
<1>6. CASE ReadWords
  <2>1. left' = Payload(op, type, n)
    BY <1>1, <1>2, <1>6 DEF ReadWords, Owed, Pack
  <2> QED
    BY <1>6, <2>1 DEF ReadWords, WireInv, Owed, StrayOnlyAfterNames
<1>7. CASE ReadBytes
  <2>1. left' = 0
    BY <1>1, <1>2, <1>7 DEF ReadBytes, Owed
  <2> QED
    BY <1>7, <2>1 DEF ReadBytes, WireInv, Owed, StrayOnlyAfterNames
<1> QED
  BY <1>3, <1>4, <1>5, <1>6, <1>7 DEF WireNext, OpNames

LEMMA WireInvariant == WireSpec => []WireInv
  BY WireInitInv, WireStep, PTL DEF WireSpec

\* A device that aligns the operation and counts the announced bytes ends
\* with the last of them, whatever names, data and types are sent.
THEOREM MessageExactCorrect == WireSpec => []MessageExact
<1>1. WireInv => MessageExact
  <2> SUFFICES ASSUME WireInv PROVE MessageExact
    OBVIOUS
  <2>1. /\ Payload(op, type, n) \in Nat /\ 4 * Pack(op).words \in Nat
        /\ Align(Operations[op].length) \in Nat
    BY PartTypes DEF WireInv
  <2> QED
    BY <2>1 DEF WireInv, Owed, MessageExact, request_pack_header
<1> QED
  BY <1>1, WireInvariant, PTL

\* Only requests with a file name are followed by bytes of no message.
THEOREM StrayOnlyAfterNamesCorrect == WireSpec => []StrayOnlyAfterNames
<1>1. WireInv => StrayOnlyAfterNames
  BY DEF WireInv
<1> QED
  BY <1>1, WireInvariant, PTL

(***************************************************************************)
(* Induction and powers, for the conversions of M70Util.                   *)
(***************************************************************************)

\* Every set of numbers has a least one.
LEMMA LeastNat ==
    ASSUME NEW T \in SUBSET Nat, T # {}
    PROVE  \E m \in T : \A y \in T : m <= y
<1>1. IsWellFoundedOn(OpToRel(<, Nat), Nat)
  BY NatLessThanWellFounded, Zenon
<1>2. PICK x \in T : \A y \in T : <<y, x>> \notin OpToRel(<, Nat)
  BY <1>1, WFMin, Zenon
<1>3. \A y \in T : ~(y < x)
  BY <1>2 DEF OpToRel
<1> QED
  BY <1>3

\* So a set with 0 and every successor has all of them: an induction that
\* needs no operator as parameter.
LEMMA Induct ==
    ASSUME NEW S \in SUBSET Nat, 0 \in S, \A k \in S : k + 1 \in S
    PROVE  S = Nat
<1> SUFFICES ASSUME Nat \ S # {}
             PROVE  FALSE
  OBVIOUS
<1>1. PICK m \in Nat \ S : \A y \in Nat \ S : m <= y
  BY LeastNat, Zenon
<1>2. m # 0 /\ m - 1 \in Nat /\ m - 1 \in S
  BY <1>1
<1> QED
  BY <1>1, <1>2

\* The same on the numbers up to a bound.
LEMMA InductTo ==
    ASSUME NEW N \in Nat, NEW S, 0 \in S,
           \A k \in 0..N : k \in S /\ k # N => k + 1 \in S
    PROVE  0..N \subseteq S
<1> DEFINE R == {k \in Nat : k <= N => k \in S}
<1>1. 0 \in R
  OBVIOUS
<1>2. \A k \in R : k + 1 \in R
  OBVIOUS
<1>3. R = Nat
  <2> HIDE DEF R
  <2>1. R \in SUBSET Nat
    BY DEF R
  <2> QED
    BY <1>1, <1>2, <2>1, Induct
<1> QED
  BY <1>3

\* A function on Nat that is its first value and a step exists: the one that
\* Power takes.
LEMMA PowerFunction ==
    ASSUME NEW base
    PROVE  \E p : p = [j \in Nat |-> IF j = 0 THEN 1 ELSE base * p[j - 1]]
<1> DEFINE Upto(g, m) == \A j \in 0..m : g[j] = IF j = 0 THEN 1 ELSE base * g[j - 1]
           S == {m \in Nat : \E g : Upto(g, m)}
<1>1. S = Nat
  <2>1. 0 \in S
    <3>1. Upto([j \in {0} |-> 1], 0)
      OBVIOUS
    <3> QED
      BY <3>1
  <2>2. ASSUME NEW m \in S
        PROVE  m + 1 \in S
    <3>1. PICK g : Upto(g, m)
      BY <2>2
    <3> DEFINE h == [j \in 0..m + 1 |-> IF j = m + 1 THEN base * g[m] ELSE g[j]]
    <3>2. ASSUME NEW j \in 0..m + 1
          PROVE  h[j] = IF j = 0 THEN 1 ELSE base * h[j - 1]
      <4>1. m \in Nat
        BY <2>2
      <4>2. CASE j = m + 1
        BY <4>1, <4>2
      <4>3. CASE j # m + 1
        <5>1. j \in 0..m /\ (j # 0 => j - 1 \in 0..m)
          BY <4>1, <4>3
        <5>2. h[j] = g[j] /\ (j # 0 => h[j - 1] = g[j - 1])
          BY <4>1, <5>1
        <5> HIDE DEF h
        <5> QED
          BY <3>1, <5>1, <5>2
      <4> QED
        BY <4>2, <4>3
    <3>3. Upto(h, m + 1)
      BY <3>2
    <3> HIDE DEF h, Upto
    <3> QED
      BY <2>2, <3>3
  <2> HIDE DEF S
  <2>3. S \in SUBSET Nat
    BY DEF S
  <2> QED
    BY <2>1, <2>2, <2>3, Induct
<1>2. ASSUME NEW m \in Nat, NEW g, NEW h, Upto(g, m), NEW l \in Nat, Upto(h, l), l >= m
      PROVE  g[m] = h[m]
  <2> DEFINE E == {j \in 0..m : g[j] = h[j]}
  <2>1. 0 \in E
    BY <1>2
  <2>2. ASSUME NEW j \in 0..m, j \in E, j # m
        PROVE  j + 1 \in E
    <3>1. j + 1 \in 0..m /\ j + 1 \in 0..l /\ j + 1 # 0 /\ (j + 1) - 1 = j
      BY <1>2, <2>2
    <3>2. g[j + 1] = base * g[j] /\ h[j + 1] = base * h[j]
      BY <1>2, <3>1
    <3> QED
      BY <2>2, <3>1, <3>2
  <2>3. 0..m \subseteq E
    <3> HIDE DEF E
    <3> QED
      BY <2>1, <2>2, InductTo
  <2> QED
    BY <2>3
<1> DEFINE f == [m \in Nat |-> (CHOOSE g : Upto(g, m))[m]]
<1>3. ASSUME NEW m \in Nat
      PROVE  Upto(CHOOSE g : Upto(g, m), m)
  <2>1. \E g : Upto(g, m)
    BY <1>1
  <2> HIDE DEF Upto
  <2> QED
    BY <2>1, Zenon
<1>4. \A j \in Nat : f[j] = IF j = 0 THEN 1 ELSE base * f[j - 1]
  <2> TAKE j \in Nat
  <2> DEFINE g == CHOOSE g : Upto(g, j)
  <2>1. Upto(g, j) /\ f[j] = g[j]
    BY <1>3
  <2>2. CASE j = 0
    BY <2>1, <2>2
  <2>3. CASE j # 0
    <3>1. j - 1 \in Nat
      BY <2>3
    <3> DEFINE h == CHOOSE h : Upto(h, j - 1)
    <3>2. Upto(h, j - 1) /\ f[j - 1] = h[j - 1]
      BY <1>3, <3>1
    <3>3. h[j - 1] = g[j - 1]
      <4> HIDE DEF g, h, Upto
      <4> QED
        BY <1>2, <2>1, <3>1, <3>2
    <3>4. g[j] = base * g[j - 1]
      BY <2>1, <2>3
    <3> HIDE DEF g, h
    <3> QED
      BY <2>1, <2>3, <3>2, <3>3, <3>4
  <2> QED
    BY <2>2, <2>3
<1>5. f = [j \in Nat |-> IF j = 0 THEN 1 ELSE base * f[j - 1]]
  BY <1>4
<1> QED
  BY <1>5

\* The two equations of Power.
LEMMA PowerIs ==
    ASSUME NEW base
    PROVE  /\ Power(base, 0) = 1
           /\ \A k \in Nat : Power(base, k + 1) = base * Power(base, k)
<1> DEFINE P(f) == f = [j \in Nat |-> IF j = 0 THEN 1 ELSE base * f[j - 1]]
           u == CHOOSE f : P(f)
<1>1. P(u)
  BY PowerFunction, Zenon
<1>2. \A k : Power(base, k) = u[k]
  BY DEF Power
<1> HIDE DEF u
<1>3. u[0] = 1
  BY <1>1
<1>4. ASSUME NEW k \in Nat
      PROVE  u[k + 1] = base * u[k]
  <2>1. k + 1 \in Nat /\ k + 1 # 0 /\ (k + 1) - 1 = k
    OBVIOUS
  <2>2. u[k + 1] = base * u[(k + 1) - 1]
    BY <1>1, <2>1
  <2> QED
    BY <2>1, <2>2
<1> QED
  BY <1>2, <1>3, <1>4

\* Powers of a positive number are positive.
LEMMA PowerType ==
    ASSUME NEW base \in Nat \ {0}, NEW k \in Nat
    PROVE  Power(base, k) \in Nat \ {0}
<1> DEFINE S == {j \in Nat : Power(base, j) \in Nat \ {0}}
<1>1. 0 \in S
  BY PowerIs
<1>2. ASSUME NEW j \in S
      PROVE  j + 1 \in S
  <2>1. Power(base, j + 1) = base * Power(base, j)
    BY PowerIs
  <2> QED
    BY <2>1
<1>3. S = Nat
  <2>1. S \in SUBSET Nat
    OBVIOUS
  <2> HIDE DEF S
  <2> QED
    BY <1>1, <1>2, <2>1, Induct
<1> QED
  BY <1>3

\* Quotient and remainder, as the provers take them.
LEMMA DivMod ==
    ASSUME NEW i \in Int, NEW D \in Nat \ {0}
    PROVE  i \div D \in Int /\ i % D \in 0..(D - 1) /\ i = D * (i \div D) + (i % D)
  OBVIOUS

\* Quotient and remainder are unique.
LEMMA QuotientIs ==
    ASSUME NEW i \in Int, NEW D \in Nat \ {0}, NEW q \in Int,
           NEW r \in 0..(D - 1), i = D * q + r
    PROVE  i \div D = q /\ i % D = r
  OBVIOUS

\* Shifting twice is shifting by both places.
LEMMA DivTwice ==
    ASSUME NEW i \in Int, NEW W \in Nat \ {0}, NEW B \in Nat \ {0}
    PROVE  i \div (B * W) = (i \div W) \div B
<1> DEFINE q1 == i \div W
           r1 == i % W
           q2 == q1 \div B
           r2 == q1 % B
<1>1. q1 \in Int /\ r1 \in 0..(W - 1) /\ i = W * q1 + r1
  BY DivMod
<1>2. q2 \in Int /\ r2 \in 0..(B - 1) /\ q1 = B * q2 + r2
  BY <1>1, DivMod
<1> HIDE DEF q1, r1, q2, r2
<1>3. i = (B * W) * q2 + (W * r2 + r1)
  BY <1>1, <1>2
<1>4. B * W \in Nat \ {0}
  OBVIOUS
<1>5. W * r2 + r1 \in 0..(B * W - 1)
  <2>1. W * r2 \in Nat /\ W * r2 <= W * (B - 1)
    BY <1>2
  <2>2. W * (B - 1) = B * W - W
    OBVIOUS
  <2>3. B * W \in Nat
    OBVIOUS
  <2> HIDE <1>3
  <2> QED
    BY <1>1, <2>1, <2>2, <2>3
<1>6. i \div (B * W) = q2
  <2> DEFINE D == B * W
             r == W * r2 + r1
  <2>1. D \in Nat \ {0} /\ r \in 0..(D - 1) /\ i = D * q2 + r
    BY <1>3, <1>4, <1>5
  <2> HIDE DEF D, r
  <2>2. i \div D = q2
    BY <1>2, <2>1, QuotientIs
  <2> QED
    BY <2>2 DEF D
<1> QED
  BY <1>6 DEF q1, q2

\* A byte has an even number of values.
LEMMA ByteFacts == Byte \in Nat \ {0} /\ Byte >= 2
  BY UtilAssumption

\* A sum over the first N numbers exists, as a function of how far it has come.
LEMMA UptoFunction ==
    ASSUME NEW c, NEW N \in Nat
    PROVE  \E f :
             f = [k \in 0..N |->
                    IF k = 0 THEN 0 ELSE f[k - 1] + c[k] * Power(Byte, k - 1)]
<1> DEFINE term(k) == c[k] * Power(Byte, k - 1)
           Sum(f, m) == f = [k \in 0..m |-> IF k = 0 THEN 0 ELSE f[k - 1] + term(k)]
           S == {m \in Nat : \E f : Sum(f, m)}
<1> HIDE DEF term
<1>1. 0 \in S
  <2> DEFINE f == [k \in 0..0 |-> 0]
  <2>1. Sum(f, 0)
    OBVIOUS
  <2> QED
    BY <2>1
<1>2. ASSUME NEW m \in S
      PROVE  m + 1 \in S
  <2>1. m \in Nat /\ \E f : Sum(f, m)
    BY <1>2
  <2>2. PICK f : Sum(f, m)
    BY <2>1
  <2> DEFINE g == [k \in 0..m + 1 |-> IF k = m + 1 THEN f[m] + term(m + 1) ELSE f[k]]
  <2>3. ASSUME NEW k \in 0..m + 1
        PROVE  g[k] = IF k = 0 THEN 0 ELSE g[k - 1] + term(k)
    <3>1. CASE k = m + 1
      BY <2>1, <3>1
    <3>2. CASE k # m + 1
      <4>1. k \in 0..m /\ (k # 0 => k - 1 \in 0..m)
        BY <2>1, <3>2
      <4>2. g[k] = f[k] /\ (k # 0 => g[k - 1] = f[k - 1])
        BY <2>1, <4>1
      <4> HIDE DEF g
      <4> QED
        BY <2>2, <4>1, <4>2
    <3> QED
      BY <3>1, <3>2
  <2>4. Sum(g, m + 1)
    BY <2>3
  <2> HIDE DEF g, Sum
  <2> QED
    BY <2>1, <2>4
<1>3. S = Nat
  <2>1. S \in SUBSET Nat
    OBVIOUS
  <2> HIDE DEF S
  <2> QED
    BY <1>1, <1>2, <2>1, Induct
<1>4. PICK f : Sum(f, N)
  BY <1>3
<1> QED
  BY <1>4 DEF term

\* How Assembled comes to its value, byte by byte.
LEMMA AssembledIs ==
    ASSUME NEW N \in Nat, NEW S, NEW bytes \in [1..N -> S]
    PROVE  \E u : /\ u[0] = 0
                  /\ \A k \in 1..N : u[k] = u[k - 1] + bytes[k] * Power(Byte, k - 1)
                  /\ Assembled(bytes) = u[N]
<1> DEFINE P(f) == f = [k \in 0..Len(bytes) |->
                          IF k = 0 THEN 0
                          ELSE f[k - 1] + bytes[k] * Power(Byte, k - 1)]
           u == CHOOSE f : P(f)
<1>1. Len(bytes) = N
  OBVIOUS
<1>2. P(u)
  <2>1. \E f : P(f)
    BY <1>1, UptoFunction
  <2> HIDE DEF P
  <2> QED
    BY <2>1, Zenon
<1>3. Assembled(bytes) = u[Len(bytes)]
  BY DEF Assembled
<1> HIDE DEF u
<1>4. u[0] = 0
  BY <1>1, <1>2
<1>5. ASSUME NEW k \in 1..N
      PROVE  u[k] = u[k - 1] + bytes[k] * Power(Byte, k - 1)
  BY <1>1, <1>2
<1> QED
  BY <1>1, <1>3, <1>4, <1>5

\* One byte of a number.
LEMMA ByteOut ==
    ASSUME NEW i \in Int, NEW W \in Nat \ {0}, NEW B \in Nat \ {0}
    PROVE  /\ (i \div W) % B \in 0..(B - 1)
           /\ i - W * (i \div W) + ((i \div W) % B) * W
                = i - (B * W) * (i \div (B * W))
<1> DEFINE q == i \div W
           h == q \div B
           r == q % B
<1>1. q \in Int
  BY DivMod
<1>2. h \in Int /\ r \in 0..(B - 1) /\ q = B * h + r
  <2> HIDE DEF q
  <2> QED
    BY <1>1, DivMod
<1>3. i \div (B * W) = h
  BY DivTwice
<1> HIDE DEF q, h, r
<1>4. i - W * q + r * W = i - (B * W) * h
  BY <1>2
<1> QED
  BY <1>2, <1>3, <1>4 DEF q, h, r

\* What the bytes of a number make, its sign aside.
LEMMA AssembledBytes ==
    ASSUME NEW N \in Nat, NEW i \in Int
    PROVE  Assembled(to_bytes(i, N)) = i - Power(Byte, N) * (i \div Power(Byte, N))
<1> DEFINE W(k) == Power(Byte, k)
           b == to_bytes(i, N)
<1>1. b \in [1..N -> Int]
  <2>1. ASSUME NEW k \in 1..N
        PROVE  (i \div W(k - 1)) % Byte \in Int
    <3> DEFINE w == W(k - 1)
    <3>1. w \in Nat \ {0}
      BY PowerType, ByteFacts
    <3> HIDE DEF w
    <3>2. (i \div w) % Byte \in 0..(Byte - 1)
      BY <3>1, ByteFacts, ByteOut
    <3> QED
      BY <3>2, ByteFacts DEF w
  <2> QED
    BY <2>1 DEF to_bytes
<1>2. PICK u : /\ u[0] = 0
               /\ \A k \in 1..N : u[k] = u[k - 1] + b[k] * W(k - 1)
               /\ Assembled(b) = u[N]
  <2> HIDE DEF b
  <2> QED
    BY <1>1, AssembledIs
<1> DEFINE S == {k \in 0..N : u[k] = i - W(k) * (i \div W(k))}
<1>3. 0 \in S
  <2>1. W(0) = 1 /\ i \div 1 = i
    BY PowerIs
  <2> QED
    BY <1>2, <2>1
<1>4. ASSUME NEW k \in 0..N, k \in S, k # N
      PROVE  k + 1 \in S
  <2> DEFINE q == i \div W(k)
  <2>1. k \in Nat /\ k + 1 \in 1..N /\ (k + 1) - 1 = k
    BY <1>4
  <2>2. W(k) \in Nat \ {0} /\ W(k + 1) = Byte * W(k)
    BY <2>1, PowerType, PowerIs, ByteFacts
  <2>3. b[k + 1] = q % Byte
    BY <2>1 DEF to_bytes
  <2>4. u[k + 1] = u[k] + (q % Byte) * W(k)
    BY <1>2, <2>1, <2>3
  <2>5. u[k] = i - W(k) * q
    BY <1>4
  <2>6. u[k + 1] = i - W(k + 1) * (i \div W(k + 1))
    <3> DEFINE w == W(k)
    <3>1. w \in Nat \ {0} /\ W(k + 1) = Byte * w
      BY <2>2
    <3>2. u[k + 1] = i - w * (i \div w) + ((i \div w) % Byte) * w
      BY <2>4, <2>5
    <3> HIDE DEF w, W
    <3>3. u[k + 1] = i - (Byte * w) * (i \div (Byte * w))
      BY <3>1, <3>2, ByteFacts, ByteOut
    <3> QED
      BY <3>1, <3>3
  <2> QED
    BY <2>1, <2>6
<1>5. N \in S
  <2> HIDE DEF S
  <2> QED
    BY <1>3, <1>4, InductTo
<1> QED
  BY <1>2, <1>5

\* Bytes are those of the number they make.
LEMMA BytesAssembled ==
    ASSUME NEW N \in Nat, NEW b \in [1..N -> 0..(Byte - 1)]
    PROVE  Assembled(b) \in Unsigned(N) /\ to_bytes(Assembled(b), N) = b
<1> DEFINE W(k) == Power(Byte, k)
<1>1. PICK u : /\ u[0] = 0
               /\ \A k \in 1..N : u[k] = u[k - 1] + b[k] * W(k - 1)
               /\ Assembled(b) = u[N]
  BY AssembledIs
<1>w. ASSUME NEW k \in 0..N, k # N
      PROVE  /\ W(k) \in Nat \ {0} /\ W(k + 1) = Byte * W(k)
             /\ k + 1 \in 1..N /\ b[k + 1] \in 0..(Byte - 1)
             /\ u[k + 1] = u[k] + b[k + 1] * W(k)
  <2>1. k \in Nat /\ k + 1 \in 1..N /\ (k + 1) - 1 = k
    BY <1>w
  <2>2. W(k) \in Nat \ {0} /\ W(k + 1) = Byte * W(k)
    BY <2>1, PowerType, PowerIs, ByteFacts
  <2>3. b[k + 1] \in 0..(Byte - 1)
    BY <2>1
  <2>4. u[k + 1] = u[k] + b[k + 1] * W(k)
    BY <1>1, <2>1
  <2> QED
    BY <2>1, <2>2, <2>3, <2>4
<1> DEFINE S == {k \in 0..N : u[k] \in 0..(W(k) - 1)}
<1>2. 0..N \subseteq S
  <2>1. 0 \in S
    BY <1>1, PowerIs
  <2>2. ASSUME NEW k \in 0..N, k \in S, k # N
        PROVE  k + 1 \in S
    <3>1. u[k] \in 0..(W(k) - 1) /\ k + 1 \in 0..N
      BY <2>2
    <3>2. b[k + 1] * W(k) \in Nat /\ b[k + 1] * W(k) <= (Byte - 1) * W(k)
      <4> DEFINE x == b[k + 1]
                 w == W(k)
      <4>1. x \in 0..(Byte - 1) /\ w \in Nat
        BY <1>w, <2>2
      <4> HIDE DEF x, w
      <4>2. x * w \in Nat /\ x * w <= (Byte - 1) * w
        BY <4>1, ByteFacts
      <4> QED
        BY <4>2 DEF x, w
    <3>3. (Byte - 1) * W(k) = Byte * W(k) - W(k)
      <4>1. W(k) \in Nat
        BY <1>w, <2>2
      <4> HIDE DEF W
      <4> QED
        BY <4>1, ByteFacts
    <3>4. Byte * W(k) \in Nat
      <4>1. W(k) \in Nat
        BY <1>w, <2>2
      <4> HIDE DEF W
      <4> QED
        BY <4>1, ByteFacts
    <3>5. u[k + 1] \in 0..(W(k + 1) - 1)
      <4> DEFINE y == b[k + 1] * W(k)
                 v == Byte * W(k)
                 z == (Byte - 1) * W(k)
      <4>1. u[k + 1] = u[k] + y /\ W(k + 1) = v /\ W(k) \in Nat
        BY <1>w, <2>2
      <4>2. y \in Nat /\ y <= z /\ z = v - W(k) /\ v \in Nat
        BY <3>2, <3>3, <3>4
      <4> HIDE DEF y, v, z, W
      <4> QED
        BY <3>1, <4>1, <4>2
    <3> QED
      BY <3>1, <3>5
  <2> HIDE DEF S
  <2> QED
    BY <2>1, <2>2, InductTo
<1> DEFINE High(k) == \E h \in Int : u[N] = u[k] + W(k) * h
           E == {j \in 0..N : High(N - j)}
<1>3. 0..N \subseteq E
  <2>1. 0 \in E
    <3>1. N \in 0..N /\ N - 0 = N
      OBVIOUS
    <3>2. u[N] \in Int /\ W(N) \in Int
      <4>1. u[N] \in 0..(W(N) - 1)
        BY <1>2, <3>1
      <4>2. W(N) \in Nat
        BY PowerType, ByteFacts
      <4> QED
        BY <4>1, <4>2
    <3>3. u[N] = u[N] + W(N) * 0
      BY <3>2
    <3>4. High(N)
      BY <3>3
    <3> QED
      BY <3>1, <3>4
  <2>2. ASSUME NEW j \in 0..N, j \in E, j # N
        PROVE  j + 1 \in E
    <3> DEFINE k == N - (j + 1)
    <3>1. k \in 0..N /\ k # N /\ k + 1 = N - j /\ j + 1 \in 0..N
      BY <2>2
    <3>2. PICK h \in Int : u[N] = u[k + 1] + W(k + 1) * h
      BY <2>2, <3>1
    <3>3. /\ W(k) \in Nat \ {0} /\ W(k + 1) = Byte * W(k)
          /\ b[k + 1] \in 0..(Byte - 1) /\ u[k + 1] = u[k] + b[k + 1] * W(k)
      BY <1>w, <3>1
    <3>4. u[k] \in Int
      <4>1. u[k] \in 0..(W(k) - 1)
        BY <1>2, <3>1
      <4> QED
        BY <3>3, <4>1
    <3>5. u[N] = u[k] + W(k) * (b[k + 1] + Byte * h) /\ b[k + 1] + Byte * h \in Int
      <4> DEFINE w == W(k)
                 x == b[k + 1]
                 a == u[k]
      <4>1. u[N] = (a + x * w) + (Byte * w) * h /\ w \in Nat /\ x \in Int /\ a \in Int
        BY <3>2, <3>3, <3>4, ByteFacts
      <4> HIDE DEF w, x, a, k
      <4>2. u[N] = a + w * (x + Byte * h) /\ x + Byte * h \in Int
        BY <4>1, ByteFacts
      <4> QED
        BY <4>2 DEF w, x, a
    <3>6. High(k)
      BY <3>5
    <3> QED
      BY <3>1, <3>6
  <2> HIDE DEF E
  <2> QED
    BY <2>1, <2>2, InductTo
<1>4. ASSUME NEW k \in 1..N
      PROVE  (u[N] \div W(k - 1)) % Byte = b[k]
  <2> DEFINE j == k - 1
             w == W(j)
  <2>1. j \in 0..N /\ j # N /\ j + 1 = k /\ N - k \in 0..N /\ N - (N - k) = k
    BY <1>4
  <2>2. PICK h \in Int : u[N] = u[k] + W(k) * h
    BY <1>3, <2>1
  <2>3. /\ w \in Nat \ {0} /\ W(k) = Byte * w /\ b[k] \in 0..(Byte - 1)
        /\ u[k] = u[j] + b[k] * w
    BY <1>w, <2>1
  <2>4. u[j] \in 0..(w - 1)
    BY <1>2, <2>1
  <2> HIDE DEF j, w, W
  <2> DEFINE x == b[k]
             q == x + Byte * h
  <2>5. q \in Int /\ x \in 0..(Byte - 1)
    BY <2>3, ByteFacts
  <2>6. u[N] = w * q + u[j] /\ u[N] \in Int
    <3>1. u[N] = (u[j] + x * w) + (Byte * w) * h
      BY <2>2, <2>3
    <3> HIDE DEF x
    <3> QED
      BY <2>3, <2>4, <2>5, <3>1, ByteFacts
  <2>7. u[N] \div w = q
    <3> DEFINE i == u[N]
               rest == u[j]
    <3>1. /\ i \in Int /\ w \in Nat \ {0} /\ q \in Int
          /\ rest \in 0..(w - 1) /\ i = w * q + rest
      BY <2>3, <2>4, <2>5, <2>6
    <3> HIDE DEF q, i, rest
    <3>2. i \div w = q
      BY <3>1, QuotientIs
    <3> QED
      BY <3>2 DEF i
  <2>8. q % Byte = x
    <3>1. q = Byte * h + x
      BY <2>5, ByteFacts
    <3> HIDE DEF x, q
    <3> QED
      BY <2>5, <3>1, ByteFacts, QuotientIs
  <2> QED
    BY <2>7, <2>8 DEF w, j
<1>5. to_bytes(u[N], N) = b
  <2>1. to_bytes(u[N], N) = [k \in 1..N |-> b[k]]
    BY <1>4 DEF to_bytes
  <2> QED
    BY <2>1
<1>6. u[N] \in 0..(W(N) - 1)
  BY <1>2
<1> QED
  BY <1>1, <1>5, <1>6 DEF Unsigned

\* to_bytes has N bytes.
LEMMA BytesType ==
    ASSUME NEW N \in Nat, NEW i \in Int
    PROVE  to_bytes(i, N) \in [1..N -> 0..(Byte - 1)]
<1>1. ASSUME NEW k \in 1..N
      PROVE  (i \div Power(Byte, k - 1)) % Byte \in 0..(Byte - 1)
  <2> DEFINE w == Power(Byte, k - 1)
  <2>1. w \in Nat \ {0}
    BY PowerType, ByteFacts
  <2> HIDE DEF w
  <2>2. (i \div w) % Byte \in 0..(Byte - 1)
    BY <2>1, ByteFacts, ByteOut
  <2> QED
    BY <2>2 DEF w
<1> QED
  BY <1>1 DEF to_bytes

\* Unsigned numbers survive.
LEMMA UnsignedBack ==
    ASSUME NEW N \in Nat, NEW i \in Unsigned(N)
    PROVE  i \in Int /\ Assembled(to_bytes(i, N)) = i
<1> DEFINE W == Power(Byte, N)
<1>1. W \in Nat \ {0}
  BY PowerType, ByteFacts
<1>2. i \in 0..(W - 1)
  BY DEF Unsigned
<1>3. Assembled(to_bytes(i, N)) = i - W * (i \div W)
  BY <1>2, AssembledBytes
<1> HIDE DEF W
<1>4. i = W * 0 + i /\ i \in Int
  BY <1>1, <1>2
<1>5. i \div W = 0
  BY <1>1, <1>2, <1>4, QuotientIs
<1> QED
  BY <1>1, <1>3, <1>4, <1>5

\* Signed numbers survive.
LEMMA SignedBack ==
    ASSUME NEW N \in Nat \ {0}, NEW i \in Signed(N)
    PROVE  bytes_to_signed(to_bytes(i, N)) = i
<1> DEFINE W == Power(Byte, N)
           H == W \div 2
           b == to_bytes(i, N)
<1>1. W \in Nat \ {0} /\ H \in Nat /\ W = 2 * H /\ H > 0
  <2>1. N - 1 \in Nat /\ (N - 1) + 1 = N
    OBVIOUS
  <2>2. Power(Byte, N) = Byte * Power(Byte, N - 1)
    BY <2>1, PowerIs
  <2>3. Power(Byte, N - 1) \in Nat \ {0} /\ W \in Nat \ {0}
    BY <2>1, PowerType, ByteFacts
  <2> DEFINE v == Power(Byte, N - 1)
             c == Byte \div 2
  <2>4. c \in Nat /\ Byte = 2 * c
    BY UtilAssumption
  <2>5. W = 2 * (c * v) /\ c * v \in Nat
    <3>1. W = Byte * v /\ v \in Nat
      BY <2>2, <2>3
    <3> HIDE DEF W, v, c
    <3> QED
      BY <2>4, <3>1
  <2> HIDE DEF W, v, c
  <2> DEFINE z == c * v
  <2>6. W = 2 * z /\ z \in Nat
    BY <2>5
  <2> HIDE DEF z
  <2> QED
    BY <2>3, <2>6
<1>2. i \in -H..(H - 1)
  BY DEF Signed
<1>3. Assembled(b) = i - W * (i \div W) /\ Len(b) = N
  <2>1. i \in Int
    <3> HIDE DEF H
    <3> QED
      BY <1>1, <1>2
  <2> QED
    BY <2>1, AssembledBytes DEF to_bytes
<1>4. bytes_to_signed(b) = LET u == Assembled(b) % W IN IF u < H THEN u ELSE u - W
  BY <1>3 DEF bytes_to_signed, AsSigned, AsUnsigned
<1> HIDE DEF W, H, b
<1>5. CASE i >= 0
  <2>1. i = W * 0 + i /\ i \in Int /\ i \in 0..(W - 1) /\ i < H
    BY <1>1, <1>2, <1>5
  <2>2. i \div W = 0 /\ i % W = i
    BY <1>1, <2>1, QuotientIs
  <2>3. Assembled(b) = i
    BY <1>1, <1>3, <2>1, <2>2
  <2>4. Assembled(b) % W = i
    BY <2>2, <2>3
  <2> QED
    BY <1>4, <2>1, <2>4 DEF b
<1>6. CASE ~(i >= 0)
  <2> DEFINE j == i + W
  <2>1. i = W * (-1) + j /\ i \in Int /\ j \in 0..(W - 1) /\ j >= H /\ j - W = i
    BY <1>1, <1>2, <1>6
  <2>2. i \div W = -1
    <3> HIDE DEF j
    <3> QED
      BY <1>1, <2>1, QuotientIs
  <2>3. Assembled(b) = j
    BY <1>1, <1>3, <2>1, <2>2
  <2>4. j % W = j
    <3>1. j = W * 0 + j /\ j \in Int
      BY <1>1, <2>1
    <3> HIDE DEF j
    <3> QED
      BY <1>1, <2>1, <3>1, QuotientIs
  <2>5. Assembled(b) % W = j /\ ~(j < H)
    <3>1. ~(j < H)
      BY <1>1, <2>1
    <3> QED
      BY <2>3, <2>4, <3>1
  <2>6. bytes_to_signed(b) = j - W
    <3> HIDE DEF j
    <3> QED
      BY <1>4, <2>5
  <2> QED
    BY <2>1, <2>6 DEF b
<1> QED
  BY <1>5, <1>6

\* Reversing twice is nothing.
LEMMA ReverseTwice ==
    ASSUME NEW N \in Nat, NEW S, NEW b \in [1..N -> S]
    PROVE  Reverse(b) \in [1..N -> S] /\ Reverse(Reverse(b)) = b
<1>1. Len(b) = N
  OBVIOUS
<1>2. \A k \in 1..N : (N - k) + 1 \in 1..N /\ (N - ((N - k) + 1)) + 1 = k
  OBVIOUS
<1>3. Reverse(b) = [k \in 1..N |-> b[(N - k) + 1]]
  BY <1>1 DEF Reverse
<1>4. Reverse(b) \in [1..N -> S]
  BY <1>2, <1>3
<1> DEFINE c == Reverse(b)
<1>5. Len(c) = N
  BY <1>4
<1>6. Reverse(c) = [k \in 1..N |-> c[(N - k) + 1]]
  BY <1>5 DEF Reverse
<1>7. \A k \in 1..N : c[(N - k) + 1] = b[k]
  BY <1>2, <1>3
<1> HIDE DEF c
<1>8. Reverse(c) = b
  BY <1>6, <1>7
<1> QED
  BY <1>4, <1>8 DEF c

\* Numbers survive two swaps, and swapped bytes are the reversed ones.
LEMMA SwappedBack ==
    ASSUME NEW N \in Nat, NEW i \in Unsigned(N)
    PROVE  /\ Swapped(Swapped(i, N), N) = i
           /\ to_bytes(Swapped(i, N), N) = Reverse(to_bytes(i, N))
<1> DEFINE b == to_bytes(i, N)
           r == Reverse(b)
           v == Swapped(i, N)
<1>1. i \in Int /\ Assembled(b) = i
  BY UnsignedBack
<1>2. b \in [1..N -> 0..(Byte - 1)]
  BY <1>1, BytesType
<1> HIDE DEF b
<1>3. r \in [1..N -> 0..(Byte - 1)] /\ Reverse(r) = b
  BY <1>2, ReverseTwice
<1>4. v = Assembled(r)
  BY DEF Swapped, bytes_to_unsigned, b
<1> HIDE DEF r
<1>5. to_bytes(v, N) = r
  BY <1>3, <1>4, BytesAssembled
<1>6. Swapped(v, N) = Assembled(Reverse(to_bytes(v, N)))
  BY DEF Swapped, bytes_to_unsigned
<1>7. Swapped(v, N) = i
  BY <1>1, <1>3, <1>5, <1>6
<1> QED
  BY <1>5, <1>7 DEF r, b

\* The prefix tests.
LEMMA PrefixTests ==
    ASSUME NEW S, NEW m \in Nat, NEW s \in [1..m -> S],
           NEW l \in Nat, NEW t \in [1..l -> S]
    PROVE  /\ str_start_with(s, t) = str_end_with(Reverse(s), Reverse(t))
           /\ str_start_with(s, t) = 0 <=> IsPrefix(t, s)
<1>1. Len(s) = m /\ Len(t) = l
  OBVIOUS
<1>2. /\ Reverse(s) = [k \in 1..m |-> s[(m - k) + 1]]
      /\ Reverse(t) = [k \in 1..l |-> t[(l - k) + 1]]
  BY <1>1 DEF Reverse
<1>3. Len(Reverse(s)) = m /\ Len(Reverse(t)) = l
  BY <1>2
<1>4. ASSUME l <= m
      PROVE  (\E k \in 1..l : s[k] # t[k])
               <=> (\E k \in 0..l - 1 : Reverse(s)[m - k] # Reverse(t)[l - k])
  <2>1. ASSUME NEW k \in 0..l - 1
        PROVE  Reverse(s)[m - k] = s[k + 1] /\ Reverse(t)[l - k] = t[k + 1]
    <3>1. m - k \in 1..m /\ (m - (m - k)) + 1 = k + 1 /\ l - k \in 1..l
          /\ (l - (l - k)) + 1 = k + 1
      BY <1>4
    <3> QED
      BY <1>2, <3>1
  <2>2. ASSUME NEW k \in 1..l, s[k] # t[k]
        PROVE  \E j \in 0..l - 1 : Reverse(s)[m - j] # Reverse(t)[l - j]
    <3>1. k - 1 \in 0..l - 1 /\ (k - 1) + 1 = k
      OBVIOUS
    <3>2. Reverse(s)[m - (k - 1)] # Reverse(t)[l - (k - 1)]
      BY <2>1, <2>2, <3>1
    <3> QED
      BY <3>1, <3>2
  <2>3. ASSUME NEW k \in 0..l - 1, Reverse(s)[m - k] # Reverse(t)[l - k]
        PROVE  \E j \in 1..l : s[j] # t[j]
    <3>1. k + 1 \in 1..l /\ s[k + 1] # t[k + 1]
      BY <2>1, <2>3
    <3> QED
      BY <3>1
  <2> QED
    BY <2>2, <2>3
<1>5. str_start_with(s, t) =
        IF l > m THEN -1 ELSE IF \E k \in 1..l : s[k] # t[k] THEN 1 ELSE 0
  BY <1>1 DEF str_start_with
<1>6. str_end_with(Reverse(s), Reverse(t)) =
        IF l > m THEN -1
        ELSE IF \E k \in 0..l - 1 : Reverse(s)[m - k] # Reverse(t)[l - k] THEN 1 ELSE 0
  BY <1>3 DEF str_end_with
<1>7. str_start_with(s, t) = str_end_with(Reverse(s), Reverse(t))
  BY <1>4, <1>5, <1>6
<1>8. str_start_with(s, t) = 0 <=> l <= m /\ \A k \in 1..l : s[k] = t[k]
  BY <1>5
<1>9. IsPrefix(t, s) <=> l <= m /\ SubSeq(t, 1, l) = SubSeq(s, 1, l)
  BY <1>1 DEF IsPrefix
<1>10. ASSUME l <= m
       PROVE  SubSeq(t, 1, l) = SubSeq(s, 1, l) <=> \A k \in 1..l : s[k] = t[k]
  <2>1. SubSeq(t, 1, l) = [k \in 1..l |-> t[k]]
    OBVIOUS
  <2>2. SubSeq(s, 1, l) = [k \in 1..l |-> s[k]]
    BY <1>10
  <2> QED
    BY <2>1, <2>2
<1> QED
  BY <1>7, <1>8, <1>9, <1>10

\* For bytes of every even number of values (256, in the code): each conversion
\* of utill.c to bytes and back is the identity on the values of its width, the
\* lowest and the highest too, byte swapping is its own inverse and gives the
\* other byte order, and the prefix and suffix tests mirror each other.
THEOREM ConversionsCorrect == ConversionsInvert
<1>1. ASSUME NEW N \in {2, 4, 8}
      PROVE  /\ \A i \in Signed(N) : bytes_to_signed(to_bytes(i, N)) = i
             /\ \A i \in Unsigned(N) :
                  /\ bytes_to_unsigned(to_bytes(i, N)) = i
                  /\ Swapped(Swapped(i, N), N) = i
                  /\ to_bytes(Swapped(i, N), N) = Reverse(to_bytes(i, N))
  <2>1. N \in Nat \ {0} /\ N \in Nat
    OBVIOUS
  <2>2. \A i \in Signed(N) : bytes_to_signed(to_bytes(i, N)) = i
    BY <2>1, SignedBack
  <2>3. \A i \in Unsigned(N) : bytes_to_unsigned(to_bytes(i, N)) = i
    BY <2>1, UnsignedBack DEF bytes_to_unsigned
  <2>4. \A i \in Unsigned(N) : /\ Swapped(Swapped(i, N), N) = i
                               /\ to_bytes(Swapped(i, N), N) = Reverse(to_bytes(i, N))
    BY <2>1, SwappedBack
  <2> QED
    BY <2>2, <2>3, <2>4
<1>2. ASSUME NEW s \in SeqOf({0, 1}, 3), NEW t \in SeqOf({0, 1}, 3)
      PROVE  /\ str_start_with(s, t) = str_end_with(Reverse(s), Reverse(t))
             /\ str_start_with(s, t) = 0 <=> IsPrefix(t, s)
  <2>1. PICK m \in 0..3 : s \in [1..m -> {0, 1}]
    BY DEF SeqOf
  <2>2. PICK l \in 0..3 : t \in [1..l -> {0, 1}]
    BY DEF SeqOf
  <2>3. m \in Nat /\ l \in Nat
    OBVIOUS
  <2> QED
    BY <2>1, <2>2, <2>3, PrefixTests, Zenon
<1> QED
  BY <1>1, <1>2 DEF ConversionsInvert
(***************************************************************************)
(* The digits of itoa.                                                     *)
(***************************************************************************)

\* Division makes a positive number smaller.
LEMMA Smaller ==
    ASSUME NEW v \in Nat \ {0}, NEW r \in Nat, r >= 2
    PROVE  v \div r \in 0..(v - 1) /\ v % r \in 0..(r - 1) /\ v = (v % r) + r * (v \div r)
<1> DEFINE q == v \div r
           e == v % r
<1>1. q \in Int /\ e \in 0..(r - 1) /\ v = r * q + e
  BY DivMod
<1> HIDE DEF q, e
<1>2. q >= 0
  <2> SUFFICES ASSUME q <= -1
               PROVE  FALSE
    BY <1>1
  <2>1. r * q <= -r
    BY <1>1
  <2> QED
    BY <1>1, <2>1
<1>3. q < v
  <2> SUFFICES ASSUME q >= v
               PROVE  FALSE
    BY <1>1
  <2>1. r * q >= 2 * v
    BY <1>1
  <2> QED
    BY <1>1, <2>1
<1> QED
  BY <1>1, <1>2, <1>3 DEF q, e

\* The function that Digits takes exists.
LEMMA DigitsFunction ==
    ASSUME NEW r \in Nat, r >= 2, NEW N \in Nat
    PROVE  \E d : d = [v \in 0..N |-> IF v = 0 THEN <<>> ELSE <<v % r>> \o d[v \div r]]
<1> DEFINE Next(v, s) == IF v = 0 THEN <<>> ELSE <<v % r>> \o s
           D(d, m) == d = [v \in 0..m |-> Next(v, d[v \div r])]
           S == {m \in Nat : \E d : D(d, m)}
<1>1. 0 \in S
  <2> DEFINE d == [v \in 0..0 |-> <<>>]
  <2>1. D(d, 0)
    OBVIOUS
  <2> QED
    BY <2>1
<1>2. ASSUME NEW m \in S
      PROVE  m + 1 \in S
  <2>1. m \in Nat /\ \E d : D(d, m)
    BY <1>2
  <2>2. PICK d : D(d, m)
    BY <2>1
  <2> DEFINE g == [v \in 0..m + 1 |-> IF v = m + 1 THEN Next(v, d[v \div r]) ELSE d[v]]
  <2>3. ASSUME NEW v \in 0..m + 1
        PROVE  g[v] = Next(v, g[v \div r])
    <3>1. CASE v = 0
      <4>1. v \in 0..m /\ v # m + 1
        BY <2>1, <3>1
      <4>2. g[v] = d[v] /\ d[v] = Next(v, d[v \div r])
        BY <2>2, <4>1
      <4> QED
        BY <3>1, <4>2
    <3>2. CASE v # 0
      <4>1. v \in Nat \ {0} /\ v <= m + 1
        BY <2>1, <3>2
      <4>2. v \div r \in 0..(v - 1)
        BY <4>1, Smaller
      <4>3. v \div r \in 0..m /\ v \div r # m + 1 /\ v \div r \in 0..m + 1
        BY <2>1, <4>1, <4>2
      <4>4. g[v \div r] = d[v \div r]
        BY <4>3
      <4>5. g[v] = Next(v, d[v \div r])
        <5>1. CASE v = m + 1
          BY <5>1
        <5>2. CASE v # m + 1
          <6>1. v \in 0..m
            BY <2>1, <5>2
          <6> HIDE DEF Next
          <6> QED
            BY <2>2, <5>2, <6>1
        <5> QED
          BY <5>1, <5>2
      <4> HIDE DEF g, Next
      <4> QED
        BY <4>4, <4>5
    <3> QED
      BY <3>1, <3>2
  <2>4. D(g, m + 1)
    <3> HIDE DEF Next
    <3> QED
      BY <2>3
  <2> HIDE DEF g, D
  <2> QED
    BY <2>1, <2>4
<1>3. S = Nat
  <2>1. S \in SUBSET Nat
    OBVIOUS
  <2> HIDE DEF S
  <2> QED
    BY <1>1, <1>2, <2>1, Induct
<1>4. PICK d : D(d, N)
  BY <1>3
<1> QED
  BY <1>4

\* What Digits is, on all numbers that it meets.
LEMMA DigitsIs ==
    ASSUME NEW r \in Nat, r >= 2, NEW N \in Nat
    PROVE  \E d : /\ d[0] = <<>>
                  /\ \A v \in 1..N : d[v] = <<v % r>> \o d[v \div r]
                  /\ Digits(N, r) = d[N]
<1> DEFINE P(d) == d = [v \in 0..N |-> IF v = 0 THEN <<>> ELSE <<v % r>> \o d[v \div r]]
           u == CHOOSE d : P(d)
<1>1. P(u)
  <2>1. \E d : P(d)
    BY DigitsFunction
  <2> HIDE DEF P
  <2> QED
    BY <2>1, Zenon
<1>2. Digits(N, r) = u[N]
  BY DEF Digits
<1> HIDE DEF u
<1>3. u[0] = <<>>
  BY <1>1
<1>4. ASSUME NEW v \in 1..N
      PROVE  u[v] = <<v % r>> \o u[v \div r]
  <2>1. v \in 0..N /\ v # 0
    OBVIOUS
  <2>2. u[v] = IF v = 0 THEN <<>> ELSE <<v % r>> \o u[v \div r]
    BY <1>1, <2>1, Zenon
  <2> QED
    BY <2>1, <2>2
<1> QED
  BY <1>2, <1>3, <1>4

\* A number less than N + 1 of which everything smaller has a property.
LEMMA CourseOfValues ==
    ASSUME NEW N \in Nat, NEW S,
           \A v \in 0..N : (\A w \in 0..N : w < v => w \in S) => v \in S
    PROVE  0..N \subseteq S
<1> DEFINE T == {v \in 0..N : v \notin S}
<1>1. T = {}
  <2> SUFFICES ASSUME T # {}
               PROVE  FALSE
    OBVIOUS
  <2>1. T \in SUBSET Nat
    OBVIOUS
  <2> HIDE DEF T
  <2>2. PICK m \in T : \A y \in T : m <= y
    BY <2>1, LeastNat
  <2>3. m \in 0..N /\ m \notin S
    BY <2>2 DEF T
  <2>4. ASSUME NEW w \in 0..N, w < m
        PROVE  w \in S
    <3>1. w \notin T
      BY <2>2, <2>3, <2>4
    <3> QED
      BY <3>1 DEF T
  <2> QED
    BY <2>3, <2>4
<1> QED
  BY <1>1

\* What the recursive function of Number solves.
Denotes(f, s, r, N) ==
    f = [k \in 1..N + 1 |-> IF k > N THEN 0 ELSE s[k] + r * f[k + 1]]

\* That function exists.
LEMMA NumberFunction ==
    ASSUME NEW r, NEW N \in Nat, NEW s
    PROVE  \E f : Denotes(f, s, r, N)
<1> DEFINE Step(k, x) == IF k > N THEN 0 ELSE s[k] + r * x
           F(f, j) == f = [k \in (N + 1 - j)..(N + 1) |-> Step(k, f[k + 1])]
           S == {j \in 0..N : \E f : F(f, j)}
<1>1. 0 \in S
  <2> DEFINE f == [k \in (N + 1 - 0)..(N + 1) |-> 0]
  <2>1. F(f, 0)
    OBVIOUS
  <2> HIDE DEF F, f
  <2> QED
    BY <2>1
<1>2. ASSUME NEW j \in 0..N, j \in S, j # N
      PROVE  j + 1 \in S
  <2>1. PICK f : F(f, j)
    BY <1>2
  <2> DEFINE b == N - j
             g == [k \in b..(N + 1) |-> IF k = b THEN Step(b, f[b + 1]) ELSE f[k]]
  <2>2. b \in 1..N /\ N + 1 - j = b + 1 /\ N + 1 - (j + 1) = b /\ j + 1 \in 0..N
    BY <1>2
  <2> HIDE DEF b
  <2>3. ASSUME NEW k \in b..(N + 1)
        PROVE  g[k] = Step(k, g[k + 1])
    <3>1. CASE k = b
      <4>1. b + 1 \in b..(N + 1) /\ b + 1 # b
        BY <2>2
      <4>2. g[b + 1] = f[b + 1]
        BY <4>1
      <4>3. g[b] = Step(b, f[b + 1])
        BY <3>1, <2>3
      <4> HIDE DEF g, Step
      <4> QED
        BY <3>1, <4>2, <4>3
    <3>2. CASE k # b
      <4>1. k \in (b + 1)..(N + 1)
        BY <2>2, <3>2
      <4>2. g[k] = f[k] /\ f[k] = Step(k, f[k + 1])
        <5>1. g[k] = f[k]
          BY <3>2
        <5> HIDE DEF Step, g
        <5>2. f[k] = Step(k, f[k + 1])
          BY <2>1, <2>2, <4>1
        <5> QED
          BY <5>1, <5>2
      <4>3. k <= N => g[k + 1] = f[k + 1]
        BY <2>2, <4>1
      <4>4. CASE k <= N
        <5> HIDE DEF g, Step
        <5> QED
          BY <4>2, <4>3, <4>4
      <4>5. CASE ~(k <= N)
        <5>1. k > N
          BY <2>2, <4>5
        <5> HIDE DEF g
        <5> QED
          BY <4>2, <5>1
      <4> QED
        BY <4>4, <4>5
    <3> QED
      BY <3>1, <3>2
  <2>4. F(g, j + 1)
    <3> HIDE DEF Step
    <3> QED
      BY <2>2, <2>3
  <2> HIDE DEF g, F
  <2> QED
    BY <2>2, <2>4
<1>3. 0..N \subseteq S
  <2> HIDE DEF S
  <2> QED
    BY <1>1, <1>2, InductTo
<1>4. PICK f : F(f, N)
  BY <1>3
<1> QED
  BY <1>4 DEF Denotes

\* The equations of Number.
LEMMA NumberIs ==
    ASSUME NEW r, NEW s, Len(s) \in Nat
    PROVE  \E f : /\ f[Len(s) + 1] = 0
                  /\ \A k \in 1..Len(s) : f[k] = s[k] + r * f[k + 1]
                  /\ Number(s, r) = f[1]
<1> DEFINE u == CHOOSE f : Denotes(f, s, r, Len(s))
<1>1. Denotes(u, s, r, Len(s))
  BY NumberFunction, Zenon
<1>2. Number(s, r) = u[1]
  BY DEF Number, Denotes
<1> HIDE DEF u
<1>3. u[Len(s) + 1] = 0
  BY <1>1 DEF Denotes
<1>4. \A k \in 1..Len(s) : u[k] = s[k] + r * u[k + 1]
  BY <1>1 DEF Denotes
<1> QED
  BY <1>2, <1>3, <1>4

\* The number of digits with one more at the low end.
LEMMA NumberCons ==
    ASSUME NEW r \in Int, NEW a, NEW t, Len(t) \in Nat, NEW s,
           Len(s) = Len(t) + 1, s[1] = a, \A k \in 1..Len(t) : s[k + 1] = t[k]
    PROVE  Number(s, r) = a + r * Number(t, r)
<1> DEFINE N == Len(t)
<1>1. PICK f : /\ f[N + 1] = 0
               /\ \A k \in 1..N : f[k] = t[k] + r * f[k + 1]
               /\ Number(t, r) = f[1]
  BY NumberIs
<1>2. PICK g : /\ g[N + 2] = 0
               /\ \A k \in 1..N + 1 : g[k] = s[k] + r * g[k + 1]
               /\ Number(s, r) = g[1]
  <2>1. Len(s) \in Nat
    OBVIOUS
  <2>2. PICK g : /\ g[Len(s) + 1] = 0
                 /\ \A k \in 1..Len(s) : g[k] = s[k] + r * g[k + 1]
                 /\ Number(s, r) = g[1]
    BY <2>1, NumberIs
  <2>3. Len(s) = N + 1 /\ Len(s) + 1 = N + 2
    OBVIOUS
  <2>4. g[N + 2] = 0 /\ \A k \in 1..N + 1 : g[k] = s[k] + r * g[k + 1]
    BY <2>2, <2>3
  <2> HIDE DEF N
  <2> QED
    BY <2>2, <2>4
<1> DEFINE S == {j \in 0..N : g[N + 2 - j] = f[N + 1 - j]}
<1>3. 0 \in S
  BY <1>1, <1>2
<1>4. ASSUME NEW j \in 0..N, j \in S, j # N
      PROVE  j + 1 \in S
  <2> DEFINE k == N - j
  <2>1. /\ k \in 1..N /\ k + 1 \in 1..N + 1 /\ N + 1 - j = k + 1
        /\ N + 2 - j = (k + 1) + 1 /\ N + 1 - (j + 1) = k
        /\ N + 2 - (j + 1) = k + 1 /\ j + 1 \in 0..N
    BY <1>4
  <2>2. f[k] = t[k] + r * f[k + 1]
    BY <1>1, <2>1
  <2>3. g[k + 1] = s[k + 1] + r * g[(k + 1) + 1]
    BY <1>2, <2>1
  <2>4. s[k + 1] = t[k]
    BY <2>1
  <2>5. g[(k + 1) + 1] = f[k + 1]
    BY <1>4, <2>1
  <2>6. g[k + 1] = f[k]
    BY <2>2, <2>3, <2>4, <2>5
  <2> HIDE DEF k, N
  <2> QED
    BY <2>1, <2>6
<1>5. N \in S
  <2>1. 0..N \subseteq S
    <3> HIDE DEF S
    <3> QED
      BY <1>3, <1>4, InductTo
  <2> QED
    BY <2>1
<1>6. g[2] = f[1]
  BY <1>5
<1>7. g[1] = s[1] + r * g[2]
  BY <1>2
<1> QED
  BY <1>1, <1>2, <1>6, <1>7

\* The digits denote the number they are taken from.
LEMMA DigitsExact ==
    ASSUME NEW r \in Nat, r >= 2, NEW N \in Nat
    PROVE  Digits(N, r) \in Seq(0..(r - 1)) /\ Number(Digits(N, r), r) = N
<1>1. PICK d : /\ d[0] = <<>>
               /\ \A v \in 1..N : d[v] = <<v % r>> \o d[v \div r]
               /\ Digits(N, r) = d[N]
  BY DigitsIs
<1> DEFINE S == {v \in 0..N : d[v] \in Seq(0..(r - 1)) /\ Number(d[v], r) = v}
<1>2. ASSUME NEW v \in 0..N, \A w \in 0..N : w < v => w \in S
      PROVE  v \in S
  <2>1. CASE v = 0
    <3>1. d[v] = <<>> /\ Len(d[v]) = 0 /\ d[v] \in Seq(0..(r - 1))
      <4>1. d[v] = <<>>
        BY <1>1, <2>1
      <4>2. Len(<<>>) = 0 /\ <<>> \in Seq(0..(r - 1))
        OBVIOUS
      <4> QED
        BY <4>1, <4>2, Zenon
    <3>2. Number(d[v], r) = 0
      <4>1. PICK f : f[Len(d[v]) + 1] = 0 /\ Number(d[v], r) = f[1]
        BY <3>1, NumberIs
      <4> QED
        BY <3>1, <4>1
    <3> QED
      BY <2>1, <3>1, <3>2
  <2>2. CASE v # 0
    <3> DEFINE q == v \div r
               e == v % r
               t == d[q]
               s == d[v]
    <3>1. v \in Nat \ {0} /\ v \in 1..N
      BY <2>2
    <3>2. q \in 0..(v - 1) /\ e \in 0..(r - 1) /\ v = e + r * q
      BY <3>1, Smaller
    <3>3. t \in Seq(0..(r - 1)) /\ Number(t, r) = q
      <4>1. q \in 0..N /\ q < v
        BY <3>1, <3>2
      <4>2. q \in S
        BY <1>2, <4>1
      <4> QED
        BY <4>2
    <3>4. s = <<e>> \o t
      BY <1>1, <3>1
    <3> HIDE DEF q, e, t, s
    <3>5. /\ s \in Seq(0..(r - 1)) /\ Len(t) \in Nat /\ Len(s) = Len(t) + 1
          /\ s[1] = e /\ \A k \in 1..Len(t) : s[k + 1] = t[k]
      BY <3>2, <3>3, <3>4
    <3>6. Number(s, r) = e + r * Number(t, r)
      BY <3>5, NumberCons
    <3> QED
      BY <3>2, <3>3, <3>5, <3>6 DEF s
  <2> QED
    BY <2>1, <2>2
<1>3. 0..N \subseteq S
  <2> HIDE DEF S
  <2> QED
    BY <1>2, CourseOfValues
<1> QED
  BY <1>1, <1>3

\* A shift to the right by one place, and by more of them.
LEMMA Halved ==
    ASSUME NEW v \in Nat, NEW m \in Nat, v < Power(2, m), v \div 2 # 0
    PROVE  m - 1 \in Nat /\ v \div 2 < Power(2, m - 1) /\ v \div 2 \in Nat
<1>1. v \div 2 \in Nat /\ v >= 2
  OBVIOUS
<1>2. m # 0
  BY <1>1, PowerIs
<1>3. m - 1 \in Nat /\ (m - 1) + 1 = m
  BY <1>2
<1>4. Power(2, m) = 2 * Power(2, m - 1)
  BY <1>3, PowerIs
<1>5. Power(2, m - 1) \in Nat
  BY <1>3, PowerType
<1> QED
  BY <1>1, <1>3, <1>4, <1>5

\* How many bits a digit stands for.
Places(r) == CASE r = 2 -> 1 [] r = 8 -> 3 [] r = 16 -> 4

\* A shift to the right by one digit.
LEMMA Shifted ==
    ASSUME NEW r \in {2, 8, 16}, NEW v \in Nat, NEW m \in Nat,
           v < Power(2, m), v \div r # 0
    PROVE  m - Places(r) \in Nat /\ v \div r < Power(2, m - Places(r))
<1> DEFINE h == v \div 2
           q == h \div 2
           e == q \div 2
<1>1. /\ v \div 8 = e /\ v \div 16 = e \div 2
      /\ v \div r # 0 => h # 0
      /\ v \div r # 0 /\ r # 2 => q # 0 /\ e # 0
      /\ h \in Nat /\ q \in Nat /\ e \in Nat
  OBVIOUS
<1>2. h # 0 /\ m - 1 \in Nat /\ h < Power(2, m - 1)
  BY <1>1, Halved
<1>3. CASE r = 2
  BY <1>2, <1>3 DEF Places
<1>4. r # 2 => /\ (m - 1) - 1 \in Nat /\ q < Power(2, (m - 1) - 1)
               /\ ((m - 1) - 1) - 1 \in Nat /\ e < Power(2, ((m - 1) - 1) - 1)
  <2> SUFFICES ASSUME r # 2
               PROVE  /\ (m - 1) - 1 \in Nat /\ q < Power(2, (m - 1) - 1)
                      /\ ((m - 1) - 1) - 1 \in Nat /\ e < Power(2, ((m - 1) - 1) - 1)
    OBVIOUS
  <2>1. q # 0 /\ e # 0
    BY <1>1
  <2>2. (m - 1) - 1 \in Nat /\ q < Power(2, (m - 1) - 1)
    <3> HIDE DEF h
    <3> QED
      BY <1>1, <1>2, <2>1, Halved
  <2> HIDE DEF q
  <2> QED
    BY <1>1, <2>1, <2>2, Halved
<1>5. CASE r = 8
  <2>1. m - 3 = ((m - 1) - 1) - 1 /\ Places(r) = 3
    BY <1>5 DEF Places
  <2> HIDE DEF e
  <2> QED
    BY <1>1, <1>4, <1>5, <2>1
<1>6. CASE r = 16
  <2>1. m - 4 = (((m - 1) - 1) - 1) - 1 /\ Places(r) = 4
    BY <1>6 DEF Places
  <2>2. /\ ((m - 1) - 1) - 1 \in Nat /\ e < Power(2, ((m - 1) - 1) - 1)
        /\ e \div 2 # 0 /\ e \in Nat
    BY <1>1, <1>4, <1>6
  <2> HIDE DEF e
  <2>3. /\ (((m - 1) - 1) - 1) - 1 \in Nat
        /\ e \div 2 < Power(2, (((m - 1) - 1) - 1) - 1)
    BY <2>2, Halved
  <2> QED
    BY <1>1, <1>6, <2>1, <2>3
<1> QED
  BY <1>3, <1>5, <1>6

\* How many digits a number of m bits has.
LEMMA DigitsLength ==
    ASSUME NEW r \in {2, 8, 16}, NEW N \in Nat \ {0}, NEW m \in Nat,
           N < Power(2, m)
    PROVE  Places(r) * (Len(Digits(N, r)) - 1) < m
<1> DEFINE b == Places(r)
<1>1. r \in Nat /\ r >= 2 /\ b \in Nat \ {0}
  BY DEF Places
<1>2. PICK d : /\ d[0] = <<>>
               /\ \A v \in 1..N : d[v] = <<v % r>> \o d[v \div r]
               /\ Digits(N, r) = d[N]
  BY <1>1, DigitsIs
<1> HIDE DEF b
<1> DEFINE Short(v) == \A k \in Nat : v < Power(2, k) => b * (Len(d[v]) - 1) < k
           S == {v \in 0..N : d[v] \in Seq(Int) /\ (v # 0 => Short(v))}
<1>3. ASSUME NEW v \in 0..N, \A w \in 0..N : w < v => w \in S
      PROVE  v \in S
  <2>1. CASE v = 0
    <3>1. d[v] = <<>>
      BY <1>2, <2>1
    <3>2. <<>> \in Seq(Int)
      OBVIOUS
    <3>3. d[v] \in Seq(Int)
      BY <3>1, <3>2, Zenon
    <3> HIDE DEF Short
    <3> QED
      BY <2>1, <3>3
  <2>2. CASE v # 0
    <3> DEFINE q == v \div r
    <3>1. v \in Nat \ {0} /\ v \in 1..N
      BY <2>2
    <3>2. q \in 0..(v - 1) /\ v % r \in Int
      BY <1>1, <3>1, Smaller
    <3>3. q \in S
      <4>1. q \in 0..N /\ q < v
        BY <3>1, <3>2
      <4> QED
        BY <1>3, <4>1
    <3>4. d[v] = <<v % r>> \o d[q]
      BY <1>2, <3>1
    <3>5. d[q] \in Seq(Int) /\ (q # 0 => Short(q))
      BY <3>3
    <3>6. d[v] \in Seq(Int) /\ Len(d[v]) = Len(d[q]) + 1 /\ Len(d[q]) \in Nat
      <4> DEFINE t == d[q]
                 e == v % r
      <4>1. t \in Seq(Int) /\ e \in Int
        BY <3>2, <3>5
      <4> HIDE DEF t, e
      <4>2. <<e>> \o t \in Seq(Int) /\ Len(<<e>> \o t) = Len(t) + 1 /\ Len(t) \in Nat
        BY <4>1
      <4> QED
        BY <3>4, <4>2 DEF t, e
    <3>7. ASSUME NEW k \in Nat, v < Power(2, k)
          PROVE  b * (Len(d[v]) - 1) < k
      <4>1. CASE q = 0
        <5>1. Len(d[v]) - 1 = 0
          <6>1. Len(d[q]) = 0
            BY <1>2, <4>1
          <6> QED
            BY <3>6, <6>1
        <5>2. k # 0
          BY <3>1, <3>7, PowerIs
        <5>3. b * (Len(d[v]) - 1) = b * 0
          BY <5>1, Zenon
        <5>4. b * 0 = 0
          BY <1>1
        <5>5. 0 < k
          BY <3>7, <5>2
        <5> QED
          BY <5>3, <5>4, <5>5, Zenon
      <4>2. CASE q # 0
        <5>1. k - b \in Nat /\ q < Power(2, k - b)
          BY <3>1, <3>7, <4>2, Shifted DEF b
        <5>2. b * (Len(d[q]) - 1) < k - b
          <6> HIDE DEF q
          <6> QED
            BY <3>5, <4>2, <5>1
        <5>3. b * (Len(d[q]) - 1) = b * Len(d[q]) - b
          <6> DEFINE l == Len(d[q])
          <6>1. l \in Nat
            BY <3>6
          <6> HIDE DEF l
          <6> QED
            BY <1>1, <6>1
        <5>4. Len(d[v]) - 1 = Len(d[q])
          BY <3>6
        <5>5. b * Len(d[q]) \in Int
          <6> DEFINE l == Len(d[q])
          <6>1. l \in Nat
            BY <3>6
          <6> HIDE DEF l
          <6> QED
            BY <1>1, <6>1
        <5> DEFINE x == b * Len(d[q])
        <5>6. x - b < k - b /\ x \in Int
          BY <5>2, <5>3, <5>5
        <5> HIDE DEF x
        <5>7. x < k
          BY <1>1, <3>7, <5>6
        <5> QED
          BY <5>4, <5>7 DEF x
      <4> QED
        BY <4>1, <4>2
    <3> QED
      BY <3>6, <3>7
  <2> QED
    BY <2>1, <2>2
<1>4. 0..N \subseteq S
  <2> HIDE DEF S
  <2> QED
    BY <1>3, CourseOfValues
<1>5. N \in S
  BY <1>4
<1> QED
  BY <1>2, <1>5 DEF b

\* The magnitude itoa writes the digits of.
LEMMA MagnitudeIs ==
    ASSUME NEW value \in 0..(Power(2, Bits) - 1), NEW r \in {2, 3, 8, 10, 16},
           NEW signed \in BOOLEAN, NEW radix,
           radix = IF signed THEN -r ELSE r
    PROVE  LET m == Magnitude(value, radix)
           IN  /\ Negative(value, radix) <=> signed /\ value >= Power(2, Bits - 1)
               /\ m \in 0..(Power(2, Bits) - 1)
               /\ value = 0 => ~Negative(value, radix)
               /\ value # 0 => m # 0
               /\ Negative(value, radix) => m = Power(2, Bits) - value
               /\ ~Negative(value, radix) => m = value
<1> DEFINE P == Power(2, Bits)
           H == Power(2, Bits - 1)
<1>1. P \in Nat \ {0} /\ H \in Nat \ {0}
  BY UtilAssumption, PowerType
<1>2. Negative(value, radix) <=> signed /\ value >= H
  <2>1. radix < 0 <=> signed
    OBVIOUS
  <2> QED
    BY <2>1 DEF Negative
<1> HIDE DEF P, H
<1>3. value \in 0..(P - 1)
  BY DEF P
<1>4. CASE Negative(value, radix)
  <2>1. value >= 1
    BY <1>1, <1>2, <1>3, <1>4
  <2>4. (-value) % P = P - value
    <3> DEFINE i == -value
               q == -1
               rest == P - value
    <3>1. i \in Int /\ q \in Int /\ rest \in 0..(P - 1)
      BY <1>1, <1>3, <2>1
    <3>2. i = P * q + rest
      BY <1>1, <1>3
    <3> HIDE DEF i, q, rest
    <3>3. i % P = rest
      BY <1>1, <3>1, <3>2, QuotientIs
    <3> QED
      BY <3>3 DEF i, rest
  <2>5. Magnitude(value, radix) = P - value
    BY <1>4, <2>4 DEF Magnitude, P
  <2> QED
    BY <1>1, <1>2, <1>3, <1>4, <2>1, <2>5 DEF P, H
<1>5. CASE ~Negative(value, radix)
  <2>1. Magnitude(value, radix) = value
    BY <1>5 DEF Magnitude
  <2> QED
    BY <1>1, <1>2, <1>3, <1>5, <2>1 DEF P, H
<1> QED
  BY <1>4, <1>5

\* The longest text a comment of itoa allows.
TextSize(r) == CASE r = 2 -> Bits
                 [] r = 8 -> (Bits + 2) \div 3
                 [] r = 16 -> (Bits + 3) \div 4

\* The comment's lengths are those of so many digits.
LEMMA SizeEnough ==
    ASSUME NEW r \in {2, 8, 16}, NEW l \in Nat, Places(r) * (l - 1) < Bits
    PROVE  l <= TextSize(r)
<1>1. Bits \in Nat
  BY UtilAssumption
<1>2. CASE r = 2
  BY <1>1, <1>2 DEF Places, TextSize
<1>3. CASE r = 8
  BY <1>1, <1>3 DEF Places, TextSize
<1>4. CASE r = 16
  BY <1>1, <1>4 DEF Places, TextSize
<1> QED
  BY <1>2, <1>3, <1>4

\* For values of every number of bits (64, in the code): the text itoa writes
\* denotes its value, as a signed one when the radix is negative and the most
\* negative one too, and with radix 2, 8 and 16 it fits the buffer that the
\* comment of itoa asks for.
THEOREM ItoaCorrect == ItoaExact
<1> SUFFICES ASSUME NEW value \in 0..(Power(2, Bits) - 1),
                    NEW r \in {2, 3, 8, 10, 16}, NEW signed \in BOOLEAN
             PROVE  LET text == itoa(value, IF signed THEN -r ELSE r)
                        number == Number(text.digits, r)
                        size == [k \in {2, 8, 16} |->
                                   CASE k = 2 -> Bits [] k = 8 -> (Bits + 2) \div 3
                                     [] k = 16 -> (Bits + 3) \div 4]
                    IN  /\ (IF text.sign THEN -number ELSE number)
                              = IF signed /\ value >= Power(2, Bits - 1)
                                THEN value - Power(2, Bits) ELSE value
                        /\ r \in {2, 8, 16} => TextLength(text) <= size[r] + 2
  BY Zenon DEF ItoaExact
<1> DEFINE radix == IF signed THEN -r ELSE r
           neg == Negative(value, radix)
           m == Magnitude(value, radix)
           text == itoa(value, radix)
           size == [k \in {2, 8, 16} |->
                      CASE k = 2 -> Bits [] k = 8 -> (Bits + 2) \div 3
                        [] k = 16 -> (Bits + 3) \div 4]
           P == Power(2, Bits)
           H == Power(2, Bits - 1)
<1>1. /\ neg <=> signed /\ value >= H
      /\ m \in 0..(P - 1)
      /\ value = 0 => ~neg
      /\ value # 0 => m # 0
      /\ neg => m = P - value
      /\ ~neg => m = value
  <2> HIDE DEF radix
  <2>1. radix = IF signed THEN -r ELSE r
    BY DEF radix
  <2> QED
    BY <2>1, MagnitudeIs
<1>2. P \in Nat \ {0} /\ H \in Nat \ {0} /\ Bits \in Nat \ {0}
  BY UtilAssumption, PowerType
<1>3. (IF radix < 0 THEN -radix ELSE radix) = r
  OBVIOUS
<1>4. /\ text.sign = neg
      /\ text.digits = IF value = 0 THEN <<0>> ELSE Digits(m, r)
  <2> HIDE DEF radix
  <2> QED
    BY <1>3 DEF itoa
<1> DEFINE Exact == (IF text.sign THEN -Number(text.digits, r)
                     ELSE Number(text.digits, r))
                       = IF signed /\ value >= H THEN value - P ELSE value
           Fits == r \in {2, 8, 16} => TextLength(text) <= TextSize(r) + 2
<1>5. ASSUME value = 0
      PROVE  Exact /\ Fits
  <2>1. text.digits = <<0>> /\ ~text.sign
    BY <1>1, <1>4, <1>5
  <2>2. Number(<<0>>, r) = 0
    <3>1. PICK f : /\ f[Len(<<0>>) + 1] = 0
                   /\ \A k \in 1..Len(<<0>>) : f[k] = <<0>>[k] + r * f[k + 1]
                   /\ Number(<<0>>, r) = f[1]
      BY NumberIs
    <3>2. f[1] = 0 + r * 0
      BY <3>1
    <3> QED
      BY <3>1, <3>2
  <2>3. ~(signed /\ value >= H)
    BY <1>2, <1>5
  <2>4. TextLength(text) = 2
    <3> HIDE DEF text
    <3> QED
      BY <2>1 DEF TextLength
  <2>5. r \in {2, 8, 16} => 0 <= TextSize(r)
    BY <1>2 DEF TextSize
  <2>6. r \in {2, 8, 16} => TextSize(r) \in Int
    BY <1>2 DEF TextSize
  <2>7. Number(text.digits, r) = 0
    BY <2>1, <2>2, Zenon
  <2> HIDE DEF text, H, P
  <2>8. Exact
    BY <1>5, <2>1, <2>3, <2>7
  <2>9. Fits
    BY <2>4, <2>5, <2>6
  <2> QED
    BY <2>8, <2>9
<1>6. ASSUME value # 0
      PROVE  Exact /\ Fits
  <2> DEFINE d == Digits(m, r)
  <2>1. m \in Nat \ {0} /\ m < P
    BY <1>1, <1>6, <1>2
  <2>2. r \in Nat /\ r >= 2
    OBVIOUS
  <2> HIDE DEF m
  <2>3. d \in Seq(0..(r - 1)) /\ Number(d, r) = m
    BY <2>1, <2>2, DigitsExact
  <2>4. text.digits = d
    BY <1>4, <1>6 DEF m
  <2>5. ASSUME r \in {2, 8, 16}
        PROVE  Len(d) <= TextSize(r)
    <3>1. Len(d) \in Nat
      BY <2>3
    <3>2. Places(r) * (Len(d) - 1) < Bits
      BY <1>2, <2>1, <2>5, DigitsLength
    <3> HIDE DEF d
    <3> QED
      BY <2>5, <3>1, <3>2, SizeEnough
  <2> HIDE DEF d, text, neg
  <2>6. r \in {2, 8, 16} => TextLength(text) <= TextSize(r) + 2
    <3>1. TextLength(text) = Len(d) + (IF text.sign THEN 1 ELSE 0) + 1
      BY <2>4 DEF TextLength
    <3>2. Len(d) \in Nat
      BY <2>3
    <3>3. r \in {2, 8, 16} => TextSize(r) \in Nat
      BY <1>2 DEF TextSize
    <3> QED
      BY <2>5, <3>1, <3>2, <3>3
  <2>7. (IF text.sign THEN -m ELSE m) = IF signed /\ value >= H THEN value - P ELSE value
    <3>1. text.sign = neg
      BY <1>4
    <3> HIDE DEF P, H
    <3>2. value \in Int
      BY <1>2
    <3> QED
      BY <1>1, <1>2, <3>1, <3>2
  <2>8. Exact
    BY <2>3, <2>4, <2>7
  <2> QED
    BY <2>6, <2>8
<1>7. Exact /\ Fits
  BY <1>5, <1>6
<1>8. r \in {2, 8, 16} => size[r] = TextSize(r)
  BY DEF TextSize
<1> HIDE DEF text, size, P, H
<1>9. r \in {2, 8, 16} => TextLength(text) <= size[r] + 2
  BY <1>7, <1>8
<1> QED
  BY <1>7, <1>9, Zenon DEF text, size, P, H
==============================================================================
