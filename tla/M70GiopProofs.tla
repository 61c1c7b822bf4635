--------------------------- MODULE M70GiopProofs ---------------------------
(***************************************************************************)
(* Proofs about M70Giop for all sizes, operations, replies, splits, stalls *)
(* and bounds.                                                             *)
(***************************************************************************)
EXTENDS M70Giop, TLAPS

(***************************************************************************)
(* The operators of the model.                                             *)
(***************************************************************************)

\* What an operation reads is well formed: at most four fields, all of them
\* of a positive size, and a return value for an invalid connection.
LEMMA BodyType ==
    ASSUME NEW o \in OpNames
    PROVE  /\ BodyOf(o).fields \in Seq(Nat \ {0})
           /\ Len(BodyOf(o).fields) \in 0..4
           /\ BodyOf(o).refused \in Codes
           /\ BodyOf(o).fields # <<>> => Len(BodyOf(o).fields) >= 1
<1>1. /\ Word \in Nat \ {0} /\ Long \in Nat \ {0} /\ Pointer \in Nat \ {0}
      /\ DataHdr \in Nat \ {0} /\ AxesHdr \in Nat \ {0} /\ StatHdr \in Nat \ {0}
  BY SizeAssumption
<1>2. /\ BodyOf(o).fields \in {<<>>, <<DataHdr>>, <<AxesHdr>>, <<StatHdr>>,
                               <<Long, Word>>, <<Word, Word>>, <<Long, Long>>,
                               <<Long, Pointer>>, <<Long, Long, Long, Long>>}
      /\ BodyOf(o).refused \in Codes
  BY DEF OpNames, BodyOf, Body, Codes, melGetData, melGetDataAxes,
     melSetData, melGetCurrentAlarmMsg, melGetCurrentPrgBlock, melFsOpenFile,
     melFsReadFile, melFsCloseFile, melFsCreateFile, melRemoveFile,
     melFsWriteFile, melFSStatFile, melFsOpenDirectory, melFsCloseDirectory,
     melFsReadDirectory, CancelModal2
<1>3. ASSUME NEW f \in {<<>>, <<DataHdr>>, <<AxesHdr>>, <<StatHdr>>,
                        <<Long, Word>>, <<Word, Word>>, <<Long, Long>>,
                        <<Long, Pointer>>, <<Long, Long, Long, Long>>}
      PROVE  /\ f \in Seq(Nat \ {0}) /\ Len(f) \in 0..4
             /\ f # <<>> => Len(f) >= 1
  <2>1. CASE f = <<>>
    BY <2>1
  <2>2. CASE \E a \in Nat \ {0} : f = <<a>>
    BY <2>2
  <2>3. CASE \E a, b \in Nat \ {0} : f = <<a, b>>
    BY <2>3
  <2>4. CASE \E a \in Nat \ {0} : f = <<a, a, a, a>>
    BY <2>4
  <2> QED
    BY <1>1, <1>3, <2>1, <2>2, <2>3, <2>4
<1> QED
  BY <1>2, <1>3

\* The length of a reply is a number.
LEMMA LengthType ==
    ASSUME NEW r \in ReplyRecords
    PROVE  /\ DataLength(r) \in Nat /\ WireLength(r) \in Nat
           /\ WireLength(r) = GiopHdr + DataLength(r)
<1>1. GiopHdr \in Nat /\ ReplyHdr \in Nat /\ Word \in Nat /\ ErrPack \in Nat
  BY SizeAssumption
<1> QED
  BY <1>1 DEF ReplyRecords, WireLength, DataLength

\* A recv() returns -1, 0, or a number of bytes the buffer holds and the
\* caller asked for.
LEMMA RecvResult ==
    ASSUME TypeOK, NEW w \in Int, NEW rl \in RecvResults(w)
    PROVE  /\ rl \in Int /\ rl >= -1
           /\ rl > 0 => rl <= avail /\ rl <= w
  BY DEF TypeOK, RecvResults

\* Subtracting what a recv() returned keeps an integer an integer, and takes
\* off no more than was read.
LEMMA LessBound ==
    ASSUME NEW r \in Int, NEW rl \in Int, rl >= -1
    PROVE  /\ Less(r, rl) \in Int
           /\ rl <= 0 => Less(r, rl) >= r
           /\ rl > 0 => Less(r, rl) = r - rl
<1>1. RemainCap \in Nat
  BY SizeAssumption
<1> QED
  BY <1>1 DEF Less

\* A length field holds an integer.
LEMMA FieldType ==
    ASSUME TypeOK, NEW rl \in Int, NEW w \in Int,
           NEW value \in Nat, NEW f \in Field(rl, w, value)
    PROVE  f \in Int
  BY SizeAssumption DEF Field

\* Reading moves the stream by the bytes read, and keeps its types.
LEMMA ConsumedType ==
    ASSUME TypeOK, NEW rl \in Int, rl > 0 => rl <= avail, Consumed(rl)
    PROVE  /\ avail' \in Nat /\ own' \in Nat /\ fresh' \in BOOLEAN
           /\ coming' \in Nat /\ eof' \in BOOLEAN
           /\ requests' \in Nat /\ answered' \in Nat /\ reply' \in ReplyRecords
           /\ own <= avail + coming => own' <= avail' + coming'
           /\ rl > 0 /\ own = avail + coming
                => own' = own - rl /\ own' = avail' + coming'
           /\ rl <= 0 => avail' = avail /\ coming' = coming
           /\ rl <= 0 /\ own <= avail + coming => own' = own /\ fresh' = fresh
<1> DEFINE n == IF rl > 0 THEN rl ELSE 0
           stale == avail + coming - own
<1>1. n \in Nat /\ n <= avail /\ stale \in Int
  BY DEF TypeOK
<1>2. /\ avail' = avail - n
      /\ own' = IF n <= stale THEN own ELSE own - (n - stale)
      /\ fresh' = (fresh /\ n <= stale)
      /\ UNCHANGED <<coming, eof, requests, answered, reply>>
  BY DEF Consumed
<1>3. fresh' \in BOOLEAN
  <2> HIDE DEF n, stale
  <2> QED
    BY <1>2 DEF TypeOK
<1>4. rl <= 0 /\ own <= avail + coming => fresh' = fresh
  <2>1. rl <= 0 /\ own <= avail + coming => n <= stale
    BY DEF TypeOK
  <2> HIDE DEF n, stale
  <2> QED
    BY <1>2, <2>1 DEF TypeOK
<1> QED
  BY <1>1, <1>2, <1>3, <1>4 DEF TypeOK

\* The same of a recv() inside a reply.
LEMMA RecvType ==
    ASSUME TypeOK, NEW w \in Int, NEW rl \in RecvResults(w), Recv(w, rl)
    PROVE  /\ avail' \in Nat /\ own' \in Nat /\ fresh' \in BOOLEAN
           /\ coming' \in Nat /\ eof' \in BOOLEAN
           /\ requests' \in Nat /\ answered' \in Nat /\ reply' \in ReplyRecords
           /\ remain' \in Int /\ rl \in Int /\ sync' \in BOOLEAN
           /\ op' \in Ops /\ socket' \in BOOLEAN /\ connected' \in BOOLEAN
           /\ result' \in Codes
<1>1. rl \in Int /\ rl >= -1 /\ (rl > 0 => rl <= avail)
  BY RecvResult
<1>2. Consumed(rl) /\ remain' = Less(remain, rl)
      /\ UNCHANGED <<op, socket, connected, result>>
  BY DEF Recv
<1>3. remain' \in Int
  BY <1>1, <1>2, LessBound DEF TypeOK
<1>4. sync' \in BOOLEAN
  BY Zenon DEF Recv, TypeOK
<1> QED
  BY <1>1, <1>2, <1>3, <1>4, ConsumedType DEF TypeOK

(***************************************************************************)
(* Type correctness.  The fixed fields are read within the operation's     *)
(* sequence of fields.                                                     *)
(***************************************************************************)
FieldOK ==
    /\ pc = "field" => fld <= Len(BodyOf(op).fields)
    /\ pc \in {"header", "replyHeader", "excLength", "excText", "excPack",
               "excDrain"} => fld = 1

TypeInv == TypeOK /\ FieldOK

\* Where a call goes on after the reply header is a read it can do.
LEMMA AfterReceiveType ==
    ASSUME TypeOK, NEW c \in Codes
    PROVE  /\ AfterReceive(c) \in {"field", "rest", "drain"}
           /\ AfterReceive(c) = "field" => Len(BodyOf(op).fields) >= 1
<1>1. op \in OpNames
  BY SizeAssumption DEF TypeOK
<1> QED
  BY <1>1, BodyType DEF AfterReceive

\* Where a call goes on after a field is a read it can do.
LEMMA AfterFieldType ==
    ASSUME TypeOK, NEW n, NEW len
    PROVE  /\ AfterField(n, len) \in {"field", "data", "drain"}
           /\ AfterField(n, len) = "field" => fld < Len(BodyOf(op).fields)
  BY DEF AfterField

\* Before the first answer the latest reply is a record as well.
LEMMA NoReplyType == NoReply \in ReplyRecords
  BY DEF NoReply, ReplyRecords, Codes

\* The initial states have their types.
LEMMA TypeInit == Init => TypeInv
<1>1. Init => FieldOK
  BY DEF Init, FieldOK
<1>2. Init => TypeOK
  <2>1. Init => reply \in ReplyRecords
    BY NoReplyType DEF Init
  <2>2. Init => /\ socket \in BOOLEAN /\ connected \in BOOLEAN
                /\ sync \in BOOLEAN
                /\ fresh \in BOOLEAN /\ eof \in BOOLEAN
    BY Zenon DEF Init
  <2> QED
    BY <2>1, <2>2 DEF Init, TypeOK, Codes
<1> QED
  BY <1>1, <1>2 DEF TypeInv

\* Every step keeps the types, and the fields in range.
LEMMA TypeStep == TypeInv /\ [Next]_vars => TypeInv'
<1> SUFFICES ASSUME TypeInv, [Next]_vars
             PROVE  TypeInv'
  OBVIOUS
<1> USE DEF TypeInv
<1>op. op \in OpNames
  BY SizeAssumption DEF TypeOK
<1>c. GiopHdr \in Int /\ ReplyHdr \in Int /\ Word \in Int /\ ErrPack \in Int
  BY SizeAssumption
<1>1. CASE giop_connect
  <2>1. reply' \in ReplyRecords
    BY <1>1, NoReplyType DEF giop_connect
  <2>2. FieldOK'
    BY <1>1 DEF giop_connect, FieldOK
  <2>3. fresh' \in BOOLEAN /\ eof' \in BOOLEAN
    BY <1>1, Zenon DEF giop_connect
  <2> QED
    BY <1>1, <2>1, <2>2, <2>3 DEF giop_connect, TypeOK
<1>2. CASE giop_disconnect
  BY <1>2 DEF giop_disconnect, TypeOK, FieldOK, stream
<1>3. ASSUME NEW o \in Ops, SendRequest(o)
      PROVE  TypeInv'
  <2>1. sync' \in BOOLEAN
    BY <1>3, Zenon DEF SendRequest
  <2> QED
    BY <1>3, <2>1 DEF SendRequest, TypeOK, FieldOK, ReadPoints, Codes
<1>4. ASSUME NEW o \in Ops, Refuse(o)
      PROVE  TypeInv'
  <2>1. o \in OpNames
    BY SizeAssumption
  <2> QED
    BY <1>4, <2>1, BodyType DEF Refuse, TypeOK, FieldOK, stream
<1>5. CASE RecvHeader
  <2> USE DEF RecvHeader
  <2>1. PICK rl \in RecvResults(GiopHdr) :
           /\ Consumed(rl)
           /\ \/ /\ rl = GiopHdr
                 /\ \E h \in Headers :
                      /\ remain' = h.length
                      /\ pc' \in {"replyHeader", "excDrain"}
                 /\ sync' = (fresh /\ own = avail + coming)
                 /\ UNCHANGED <<code, connected>>
              \/ /\ rl \in 0..(GiopHdr - 1)
                 /\ pc' = AfterReceive(0)
                 /\ sync' = FALSE
                 /\ UNCHANGED <<remain, code, connected>>
              \/ /\ rl = -1
                 /\ connected' = FALSE
                 /\ code' = -1
                 /\ pc' = "drain"
                 /\ sync' = FALSE
                 /\ UNCHANGED remain
    BY <1>5 DEF HeaderRead, HeaderFailed
  <2>2. rl \in Int /\ (rl > 0 => rl <= avail)
    BY <1>c, RecvResult
  <2>3. /\ avail' \in Nat /\ own' \in Nat /\ fresh' \in BOOLEAN
        /\ coming' \in Nat /\ eof' \in BOOLEAN
        /\ requests' \in Nat /\ answered' \in Nat /\ reply' \in ReplyRecords
    BY <2>1, <2>2, ConsumedType
  <2>4. \A h \in Headers : h.length \in Int
    <3>1. DataLength(reply) \in Int /\ Junk \subseteq Int
      BY LengthType, SizeAssumption DEF TypeOK
    <3>2. CASE fresh /\ own = avail + coming
      BY <3>1, <3>2 DEF Headers
    <3>3. CASE ~(fresh /\ own = avail + coming)
      BY <3>1, <3>3 DEF Headers
    <3> QED
      BY <3>2, <3>3
  <2>5. /\ AfterReceive(0) \in {"field", "rest", "drain"}
        /\ AfterReceive(0) = "field" => Len(BodyOf(op).fields) >= 1
    BY AfterReceiveType DEF Codes
  <2>6. pc = "header" /\ UNCHANGED <<op, fld, extra, socket, result>>
    BY <1>5
  <2>7. remain' \in Int
    BY <2>1, <2>4 DEF TypeOK
  <2>8. code' \in Codes /\ connected' \in BOOLEAN /\ sync' \in BOOLEAN
    BY <2>1 DEF TypeOK, Codes
  <2>9. pc' \in {"field", "rest", "drain", "replyHeader", "excDrain"}
        /\ (pc' = "field" => Len(BodyOf(op).fields) >= 1)
    BY <2>1, <2>5
  <2>10. TypeOK'
    BY <2>3, <2>6, <2>7, <2>8, <2>9 DEF TypeOK, ReadPoints
  <2>11. FieldOK'
    BY <2>6, <2>9 DEF FieldOK
  <2> QED
    BY <2>10, <2>11
<1>6. CASE RecvReplyHeader
  <2>1. PICK rl \in RecvResults(ReplyHdr) :
           /\ Recv(ReplyHdr, rl)
           /\ \E is_error \in IsErrors(rl) :
                pc' = IF is_error THEN "excLength" ELSE AfterReceive(0)
    BY <1>6 DEF RecvReplyHeader
  <2>2. pc = "replyHeader" /\ UNCHANGED <<fld, extra, code, op>>
    BY <1>6, <2>1 DEF RecvReplyHeader, Recv
  <2>3. /\ AfterReceive(0) \in {"field", "rest", "drain"}
        /\ AfterReceive(0) = "field" => Len(BodyOf(op).fields) >= 1
    BY AfterReceiveType DEF Codes
  <2> QED
    BY <1>c, <2>1, <2>2, <2>3, RecvType DEF TypeOK, FieldOK, ReadPoints
<1>7. CASE RecvExcLength
  <2>1. PICK rl \in RecvResults(Word) :
           /\ Recv(Word, rl)
           /\ extra' \in IF rl <= 0 THEN {0} ELSE Field(rl, Word, reply.exc)
    BY <1>7 DEF RecvExcLength
  <2>2. extra' \in Int
    BY <1>c, <2>1, FieldType, RecvResult DEF TypeOK, ReplyRecords
  <2> QED
    BY <1>7, <1>c, <2>1, <2>2, RecvType
       DEF RecvExcLength, TypeOK, FieldOK, ReadPoints, Recv
<1>8. CASE RecvExcText
  <2>1. CASE extra > 0
    <3>1. PICK rl \in RecvResults(1) :
             /\ Recv(1, rl)
             /\ extra' = Less(extra, rl)
      BY <1>8, <2>1 DEF RecvExcText
    <3>2. extra' \in Int
      BY <3>1, RecvResult, LessBound DEF TypeOK
    <3> QED
      BY <1>8, <2>1, <3>1, <3>2, RecvType
         DEF RecvExcText, TypeOK, FieldOK, Recv
  <2>2. CASE ~(extra > 0)
    BY <1>8, <2>2 DEF RecvExcText, TypeOK, FieldOK, ReadPoints, stream
  <2> QED
    BY <2>1, <2>2
<1>9. CASE RecvExcPack
  <2>1. PICK rl \in RecvResults(ErrPack) :
           /\ Recv(ErrPack, rl)
           /\ code' \in ErrorCode(rl)
    BY <1>9 DEF RecvExcPack
  <2>2. code' \in Codes
    BY <2>1 DEF ErrorCode, TypeOK, ReplyRecords
  <2> QED
    BY <1>9, <1>c, <2>1, <2>2, RecvType
       DEF RecvExcPack, TypeOK, FieldOK, ReadPoints, Recv
<1>10. CASE DrainException
  <2>1. CASE remain > 0
    <3>1. PICK rl \in RecvResults(1) :
             Recv(1, rl)
      BY <1>10, <2>1 DEF DrainException
    <3> QED
      BY <1>10, <2>1, <3>1, RecvType DEF DrainException, TypeOK, FieldOK, Recv
  <2>2. CASE ~(remain > 0)
    <3>1. /\ AfterReceive(code) \in {"field", "rest", "drain"}
          /\ AfterReceive(code) = "field" => Len(BodyOf(op).fields) >= 1
      BY AfterReceiveType DEF TypeOK
    <3> QED
      BY <1>10, <2>2, <3>1 DEF DrainException, TypeOK, FieldOK, ReadPoints,
                               stream
  <2> QED
    BY <2>1, <2>2
<1>11. CASE RecvField
  <2> DEFINE body == BodyOf(op)
             w == body.fields[fld]
             announces == fld \in body.gates \/ body.tail = "headed"
  <2>1. w \in Int
    BY <1>11, <1>op, BodyType DEF RecvField, TypeOK, FieldOK
  <2>2. PICK rl \in RecvResults(w) :
           /\ Recv(w, rl)
           /\ extra' \in IF announces THEN Field(rl, w, reply.data) ELSE {extra}
    BY <1>11 DEF RecvField
  <2>3. extra' \in Int
    <3> HIDE DEF w, announces
    <3> QED
      BY <2>1, <2>2, FieldType, RecvResult DEF TypeOK, ReplyRecords
  <2>4. /\ pc' \in {"field", "data", "drain"}
        /\ pc' = "field" => fld < Len(BodyOf(op).fields)
    BY <1>11, AfterFieldType DEF RecvField
  <2>6. op' = op /\ UNCHANGED code
    BY <1>11, <2>2 DEF RecvField, Recv
  <2>5. fld' \in 1..4 /\ (pc' = "field" => fld' <= Len(BodyOf(op).fields))
    <3> DEFINE k == Len(BodyOf(op).fields)
    <3>1. fld' = IF pc' = "field" THEN fld + 1 ELSE fld
      BY <1>11 DEF RecvField
    <3>2. k \in 0..4 /\ fld \in 1..4
      BY <1>op, BodyType DEF TypeOK
    <3>3. pc' = "field" => fld < k
      BY <2>4
    <3> HIDE DEF k
    <3>4. fld' \in 1..4 /\ (pc' = "field" => fld' <= k)
      BY <3>1, <3>2, <3>3
    <3> QED
      BY <3>4 DEF k
  <2>8. TypeOK'
    <3> HIDE DEF w
    <3> QED
      BY <2>1, <2>2, <2>3, <2>4, <2>5, <2>6, RecvType
         DEF TypeOK, ReadPoints
  <2>9. FieldOK'
    BY <2>4, <2>5, <2>6 DEF FieldOK
  <2> QED
    BY <2>8, <2>9
<1>12. CASE RecvData
  <2>1. PICK rl \in RecvResults(extra) : Recv(extra, rl)
    BY <1>12 DEF RecvData
  <2> QED
    BY <1>12, <2>1, RecvType DEF RecvData, TypeOK, FieldOK, ReadPoints
<1>13. CASE RecvRest
  <2>1. PICK rl \in RecvResults(remain) : Recv(remain, rl)
    BY <1>13 DEF RecvRest
  <2> QED
    BY <1>13, <2>1, RecvType DEF RecvRest, TypeOK, FieldOK, ReadPoints
<1>14. CASE Drain
  <2>1. PICK rl \in RecvResults(1) : Recv(1, rl)
    BY <1>14 DEF Drain
  <2> QED
    BY <1>14, <2>1, RecvType DEF Drain, TypeOK, FieldOK
<1>15. CASE Return
  BY <1>15 DEF Return, TypeOK, FieldOK, stream
<1>16. CASE Answer
  <2>1. reply' \in ReplyRecords
    BY <1>16, SizeAssumption DEF Answer, TypeOK
  <2> QED
    BY <1>16, <2>1, LengthType DEF Answer, TypeOK, FieldOK, client
<1>17. CASE Deliver
  BY <1>17 DEF Deliver, TypeOK, FieldOK, client
<1>18. CASE Close
  BY <1>18 DEF Close, TypeOK, FieldOK, client
<1>19. CASE UNCHANGED vars
  BY <1>19 DEF vars, client, stream, TypeOK, FieldOK
<1> QED
  BY <1>1, <1>2, <1>3, <1>4, <1>5, <1>6, <1>7, <1>8, <1>9, <1>10, <1>11,
     <1>12, <1>13, <1>14, <1>15, <1>16, <1>17, <1>18, <1>19
     DEF Next, Application, Reading, Device

\* In every behaviour the state has its types and fields are read in range.
THEOREM TypeCorrect == Spec => []TypeOK
<1>1. Spec => []TypeInv
  BY TypeInit, TypeStep, PTL DEF Spec
<1>2. TypeInv => TypeOK
  BY DEF TypeInv
<1> QED
  BY <1>1, <1>2, PTL

(***************************************************************************)
(* Framing.  When every GIOP header is found whole in the buffer, a valid  *)
(* connection has no leftovers: all unread bytes belong to the latest      *)
(* reply, and inside a reply msg_length covers them.  The bytes a call can *)
(* over-read are the bytes it counted too many, never another reply's.     *)
(***************************************************************************)
HeaderWhole == "header" \notin SplitAt

StreamInv ==
    /\ own <= avail + coming
    /\ ~check_conn_is_valid => pc \in {"idle", "drain"}
    /\ pc = "header" => remain = 0
    /\ check_conn_is_valid =>
         /\ own = avail + coming
         /\ answered <= requests
         /\ pc = "idle" => own = 0 /\ (eof \/ answered = requests)
         /\ pc = "header" =>
              /\ own <= WireLength(reply)
              /\ own > 0 => fresh /\ answered = requests
              /\ eof \/ requests - answered <= 1
         /\ pc \notin {"idle", "header"} =>
              own <= remain /\ (eof \/ answered = requests)

\* A recv() inside a reply takes as much off msg_length as off the stream.
LEMMA RecvStream ==
    ASSUME TypeInv, StreamInv, check_conn_is_valid,
           pc \notin {"idle", "header"}, pc' \notin {"idle", "header"},
           NEW w \in Int, NEW rl \in RecvResults(w), Recv(w, rl)
    PROVE  StreamInv'
<1>1. TypeOK
  BY DEF TypeInv
<1>2. rl \in Int /\ rl >= -1 /\ (rl > 0 => rl <= avail)
  BY <1>1, RecvResult
<1>3. /\ Consumed(rl) /\ remain' = Less(remain, rl)
      /\ UNCHANGED <<op, socket, connected, result>>
  BY DEF Recv
<1>4. own' = avail' + coming' /\ own' = IF rl > 0 THEN own - rl ELSE own
  BY <1>1, <1>2, <1>3, ConsumedType DEF StreamInv, TypeOK
<1>5. remain' >= IF rl > 0 THEN remain - rl ELSE remain
  BY <1>1, <1>2, <1>3, LessBound DEF TypeOK
<1>6. own' <= remain'
  <2>1. own <= remain /\ own \in Int /\ remain \in Int
    BY <1>1 DEF StreamInv, TypeOK
  <2>2. own' \in Int /\ remain' \in Int
    BY <1>1, <1>2, <1>3, RecvType DEF TypeOK
  <2> QED
    BY <1>2, <1>4, <1>5, <2>1, <2>2
<1>7. UNCHANGED <<socket, connected, answered, requests, eof>>
  BY <1>3 DEF Consumed
<1>8. check_conn_is_valid' /\ own' \in Int
  BY <1>1, <1>3, <1>7, <1>2, ConsumedType DEF check_conn_is_valid
<1> QED
  BY <1>4, <1>6, <1>7, <1>8 DEF StreamInv

\* Equal numbers are ordered, whatever is known of the second.
LEMMA EqualIsAtMost == \A x \in Nat : \A y : x = y => x <= y
  BY SMT

\* What a step into, or inside, a reply has to establish.
LEMMA StreamInReply ==
    ASSUME check_conn_is_valid', pc' \notin {"idle", "header"},
           own' \in Nat, own' = avail' + coming', own' <= remain',
           answered' <= requests', eof' \/ answered' = requests'
    PROVE  StreamInv'
<1>1. own' <= avail' + coming'
  BY EqualIsAtMost, Zenon
<1>2. pc' # "idle" /\ pc' # "header"
  OBVIOUS
<1> QED
  BY <1>1, <1>2, Zenon DEF StreamInv

\* The stream is in order before the first connection.
LEMMA StreamInit == Init => StreamInv
<1> SUFFICES ASSUME Init
             PROVE  StreamInv
  OBVIOUS
<1>1. pc = "idle" /\ own = 0 /\ avail = 0 /\ coming = 0
  BY DEF Init
<1>2. ~check_conn_is_valid
  BY Zenon DEF Init, check_conn_is_valid
<1> QED
  BY <1>1, <1>2 DEF StreamInv

\* Every step keeps the stream in order, if headers are read whole.
LEMMA StreamStep ==
    ASSUME HeaderWhole, TypeInv, TypeInv', StreamInv, [Next]_vars
    PROVE  StreamInv'
<1>a. TypeOK /\ TypeOK'
  BY DEF TypeInv
<1>b. /\ coming \in Nat /\ avail \in Nat /\ own \in Nat
      /\ requests \in Nat /\ answered \in Nat /\ remain \in Int
      /\ coming' \in Nat /\ avail' \in Nat /\ own' \in Nat /\ remain' \in Int
  BY <1>a DEF TypeOK
<1>d. WireLength(reply) \in Nat /\ DataLength(reply) \in Nat
      /\ WireLength(reply) = GiopHdr + DataLength(reply)
  BY <1>a, LengthType DEF TypeOK
<1>e. op \in OpNames
  BY <1>a, SizeAssumption DEF TypeOK
<1>c. GiopHdr \in Nat \ {0} /\ ReplyHdr \in Int /\ Word \in Int
      /\ ErrPack \in Int
  BY SizeAssumption
<1>g. pc \notin {"idle", "drain"} => check_conn_is_valid
  BY DEF StreamInv
<1>1. CASE giop_connect
  BY <1>1 DEF giop_connect, StreamInv, check_conn_is_valid
<1>2. CASE giop_disconnect
  BY <1>2 DEF giop_disconnect, StreamInv, check_conn_is_valid, stream
<1>3. ASSUME NEW o \in Ops, SendRequest(o)
      PROVE  StreamInv'
  BY <1>3, <1>a, <1>d DEF SendRequest, StreamInv, check_conn_is_valid, TypeOK
<1>4. ASSUME NEW o \in Ops, Refuse(o)
      PROVE  StreamInv'
  BY <1>4 DEF Refuse, StreamInv, check_conn_is_valid, stream
<1>6. CASE RecvReplyHeader
  <2>1. PICK rl \in RecvResults(ReplyHdr) : Recv(ReplyHdr, rl)
    BY <1>6 DEF RecvReplyHeader
  <2>2. pc' \in {"excLength", "field", "rest", "drain"}
    BY <1>6, <1>a, AfterReceiveType DEF RecvReplyHeader, Codes
  <2> QED
    BY <1>6, <1>c, <1>g, <2>1, <2>2, RecvStream DEF RecvReplyHeader
<1>7. CASE RecvExcLength
  <2>1. PICK rl \in RecvResults(Word) : Recv(Word, rl)
    BY <1>7 DEF RecvExcLength
  <2> QED
    BY <1>7, <1>c, <1>g, <2>1, RecvStream DEF RecvExcLength
<1>8. CASE RecvExcText
  <2>1. CASE extra > 0
    <3>1. PICK rl \in RecvResults(1) : Recv(1, rl)
      BY <1>8, <2>1 DEF RecvExcText
    <3> QED
      BY <1>8, <1>g, <2>1, <3>1, RecvStream DEF RecvExcText
  <2>2. CASE ~(extra > 0)
    BY <1>8, <2>2, <1>g DEF RecvExcText, StreamInv, check_conn_is_valid, stream
  <2> QED
    BY <2>1, <2>2
<1>9. CASE RecvExcPack
  <2>1. PICK rl \in RecvResults(ErrPack) : Recv(ErrPack, rl)
    BY <1>9 DEF RecvExcPack
  <2> QED
    BY <1>9, <1>c, <1>g, <2>1, RecvStream DEF RecvExcPack
<1>10. CASE DrainException
  <2>1. CASE remain > 0
    <3>1. PICK rl \in RecvResults(1) : Recv(1, rl)
      BY <1>10, <2>1 DEF DrainException
    <3> QED
      BY <1>10, <1>g, <2>1, <3>1, RecvStream DEF DrainException
  <2>2. CASE ~(remain > 0)
    <3>1. pc' \in {"field", "rest", "drain"}
      BY <1>10, <2>2, <1>a, AfterReceiveType DEF DrainException, TypeOK
    <3> QED
      BY <1>10, <2>2, <1>g, <3>1
         DEF DrainException, StreamInv, check_conn_is_valid, stream
  <2> QED
    BY <2>1, <2>2
<1>11. CASE RecvField
  <2>1. BodyOf(op).fields[fld] \in Int
    BY <1>11, <1>a, <1>e, BodyType DEF RecvField, TypeOK, TypeInv, FieldOK
  <2>2. PICK rl \in RecvResults(BodyOf(op).fields[fld]) : Recv(BodyOf(op).fields[fld], rl)
    BY <1>11 DEF RecvField
  <2>3. pc' \in {"field", "data", "drain"}
    BY <1>11, <1>a, AfterFieldType DEF RecvField
  <2> QED
    BY <1>11, <1>g, <2>1, <2>2, <2>3, RecvStream DEF RecvField
<1>12. CASE RecvData
  <2>1. PICK rl \in RecvResults(extra) : Recv(extra, rl)
    BY <1>12 DEF RecvData
  <2> QED
    BY <1>12, <1>a, <1>g, <2>1, RecvStream DEF RecvData, TypeOK
<1>13. CASE RecvRest
  <2>1. PICK rl \in RecvResults(remain) : Recv(remain, rl)
    BY <1>13 DEF RecvRest
  <2> QED
    BY <1>13, <1>a, <1>g, <2>1, RecvStream DEF RecvRest, TypeOK
<1>14. CASE Drain
  <2>1. PICK rl \in RecvResults(1) : Recv(1, rl)
    BY <1>14 DEF Drain
  <2> QED
    BY <1>14, <2>1, RecvStream DEF Drain
<1>15. CASE Return
  BY <1>15, <1>a DEF Return, StreamInv, check_conn_is_valid, stream, TypeOK
<1>16. CASE Answer
  <2>1. WireLength(reply') \in Nat
    BY <1>a, LengthType DEF TypeOK
  <2>2. check_conn_is_valid => pc = "header" /\ own = 0 /\ avail + coming = 0
    BY <1>16, <1>a DEF Answer, StreamInv, TypeOK
  <2> QED
    BY <1>16, <1>a, <2>1, <2>2
       DEF Answer, StreamInv, check_conn_is_valid, client, TypeOK
<1>17. CASE Deliver
  BY <1>17, <1>a DEF Deliver, StreamInv, check_conn_is_valid, client, TypeOK
<1>18. CASE Close
  BY <1>18, <1>a, <1>d DEF Close, StreamInv, check_conn_is_valid, client, TypeOK
<1>19. CASE UNCHANGED vars
  BY <1>19 DEF vars, client, stream, StreamInv, check_conn_is_valid
<1>5. CASE RecvHeader
  <2>1. PICK rl \in RecvResults(GiopHdr) :
           /\ Consumed(rl)
           /\ \/ /\ rl = GiopHdr
                 /\ \E h \in Headers :
                      /\ remain' = h.length
                      /\ pc' = IF h.isReply /\ h.length >= GiopHdr
                                 THEN "replyHeader" ELSE "excDrain"
                 /\ connected' = connected
              \/ /\ rl \in 0..(GiopHdr - 1)
                 /\ pc' = AfterReceive(0)
                 /\ UNCHANGED <<remain, connected>>
              \/ /\ rl = -1
                 /\ connected' = FALSE
                 /\ pc' = "drain"
    BY <1>5 DEF RecvHeader, HeaderRead, HeaderFailed
  <2>2. pc = "header" /\ socket' = socket /\ check_conn_is_valid
    BY <1>5, <1>g DEF RecvHeader
  <2>3. rl \in Int /\ (rl > 0 => rl <= avail)
    BY <1>c, <1>a, RecvResult
  <2>4. UNCHANGED <<coming, eof, requests, answered, reply>>
    BY <2>1 DEF Consumed
  <2>5. /\ own' = avail' + coming'
        /\ rl > 0 => own' = own - rl
        /\ rl <= 0 => own' = own
    <3>1. Consumed(rl)
      BY <2>1
    <3>2. own = avail + coming
      BY <2>2 DEF StreamInv
    <3>3. /\ rl > 0 => own' = own - rl /\ own' = avail' + coming'
          /\ rl <= 0 => avail' = avail /\ own' = own
      <4>1. own <= avail + coming
        BY <3>2, <1>b
      <4> QED
        BY <1>a, <2>3, <3>1, <3>2, <4>1, ConsumedType
    <3>4. coming' = coming
      BY <2>4
    <3>5. CASE rl > 0
      BY <3>3, <3>5
    <3>6. CASE ~(rl > 0)
      <4>1. rl <= 0
        BY <2>3, <3>6
      <4> QED
        BY <3>2, <3>3, <3>4, <3>6, <4>1
    <3> QED
      BY <3>5, <3>6
  <2>6. rl > 0 => fresh /\ answered = requests
    BY <1>a, <2>2, <2>3 DEF StreamInv, TypeOK
  <2>7. CASE rl = GiopHdr
    <3>1. Headers = {[isReply |-> reply.kind # "other",
                      length |-> DataLength(reply)]}
      BY <1>c, <2>2, <2>6, <2>7 DEF Headers, StreamInv
    <3>2. remain' = DataLength(reply) /\ pc' \in {"replyHeader", "excDrain"}
          /\ connected' = connected
      BY <1>c, <2>1, <2>7, <3>1
    <3>3. own' <= remain'
      <4>1. own <= WireLength(reply)
        BY <2>2 DEF StreamInv
      <4>2. own' = own - GiopHdr
        BY <1>c, <2>5, <2>7
      <4> QED
        BY <1>b, <1>c, <1>d, <3>2, <4>1, <4>2
    <3> QED
      <4>1. check_conn_is_valid'
        BY <2>2, <3>2 DEF check_conn_is_valid
      <4>2. answered' = requests' /\ answered' <= requests'
        BY <1>b, <1>c, <2>4, <2>6, <2>7
      <4>3. pc' \notin {"idle", "header"}
        BY <3>2
      <4> QED
        BY <1>b, <2>5, <3>3, <4>1, <4>2, <4>3, StreamInReply, Zenon
  <2>8. CASE rl \in 0..(GiopHdr - 1)
    <3>1. pc' \in {"field", "rest", "drain"} /\ UNCHANGED <<remain, connected>>
      BY <1>c, <1>a, <2>1, <2>8, AfterReceiveType DEF Codes
    <3>2. own' = 0
      <4>1. rl = avail /\ coming = 0
        BY <1>b, <1>c, <2>2, <2>8 DEF HeaderWhole, RecvResults
      <4>2. own = rl
        BY <1>b, <2>2, <4>1 DEF StreamInv
      <4>3. CASE rl > 0
        <5>1. own' = own - rl
          BY <2>5, <4>3
        <5> QED
          BY <1>b, <4>1, <4>2, <5>1
      <4>4. CASE rl = 0
        BY <2>5, <4>2, <4>4
      <4> QED
        BY <1>b, <4>1, <4>3, <4>4
    <3>3. rl = 0 => eof
      BY <1>b, <1>c DEF RecvResults
    <3>4. check_conn_is_valid'
      BY <2>2, <3>1 DEF check_conn_is_valid
    <3>5. remain' = 0
      BY <2>2, <3>1 DEF StreamInv
    <3>6. eof' \/ answered' = requests'
      BY <2>4, <2>6, <2>8, <3>3
    <3>7. answered' <= requests'
      BY <2>2, <2>4 DEF StreamInv
    <3> QED
      <4>1. own' <= remain' /\ pc' \notin {"idle", "header"}
        BY <3>1, <3>2, <3>5
      <4> QED
        BY <1>b, <2>5, <3>4, <3>6, <3>7, <4>1, StreamInReply, Zenon
  <2>9. CASE rl = -1
    <3>1. pc' = "drain" /\ connected' = FALSE
      BY <1>c, <2>1, <2>9
    <3> QED
      <4>1. ~check_conn_is_valid'
        BY <3>1 DEF check_conn_is_valid
      <4>2. own' <= avail' + coming'
        BY <1>b, <2>5, EqualIsAtMost, Zenon
      <4>3. pc' # "header"
        BY <3>1
      <4> QED
        BY <3>1, <4>1, <4>2, <4>3, Zenon DEF StreamInv
  <2> QED
    BY <2>1, <2>7, <2>8, <2>9
<1> QED
  BY <1>1, <1>2, <1>3, <1>4, <1>5, <1>6, <1>7, <1>8, <1>9, <1>10, <1>11,
     <1>12, <1>13, <1>14, <1>15, <1>16, <1>17, <1>18, <1>19
     DEF Next, Application, Reading, Device

\* The invariant holds of every behaviour.
LEMMA StreamCorrect ==
    ASSUME HeaderWhole
    PROVE  Spec => [](TypeInv /\ StreamInv)
<1>1. Init => TypeInv /\ StreamInv
  BY TypeInit, StreamInit
<1>2. TypeInv /\ StreamInv /\ [Next]_vars => (TypeInv /\ StreamInv)'
  BY TypeStep, StreamStep
<1> QED
  BY <1>1, <1>2, PTL DEF Spec

\* Between calls on a valid connection the stream is at a message boundary,
\* whatever the device sends, splits, delays or breaks off, as long as no
\* GIOP header is split.
THEOREM FramingCorrect ==
    ASSUME HeaderWhole
    PROVE  Spec => []Framing
<1>1. TypeInv /\ StreamInv => Framing
  BY DEF TypeInv, TypeOK, StreamInv, Framing
<1> QED
  BY <1>1, StreamCorrect, PTL

\* Inside a reply msg_length covers the bytes still owed, on the same
\* condition.
THEOREM RemainCorrect ==
    ASSUME HeaderWhole
    PROVE  Spec => []RemainCoversReply
<1>1. TypeInv /\ StreamInv => RemainCoversReply
  BY DEF TypeInv, TypeOK, StreamInv, RemainCoversReply, ReadPoints
<1> QED
  BY <1>1, StreamCorrect, PTL

\* No header is ever taken from the reply to an earlier request.
THEOREM NoStaleReplyCorrect ==
    ASSUME HeaderWhole
    PROVE  Spec => NoStaleReply
<1>1. TypeInv /\ StreamInv /\ TypeInv' /\ pc = "header" /\ avail' < avail
        => fresh /\ own = avail + coming /\ answered = requests
  BY DEF TypeInv, TypeOK, StreamInv
<1>2. TypeInv /\ StreamInv /\ (TypeInv /\ StreamInv)' =>
        [pc = "header" /\ avail' < avail =>
           fresh /\ own = avail + coming /\ answered = requests]_vars
  BY <1>1
<1> QED
  BY <1>2, StreamCorrect, PTL DEF NoStaleReply
-----------------------------------------------------------------------------
(***************************************************************************)
(* What follows a lost connection, for every way replies are split: a call *)
(* leaves the reads inside a reply for good as soon as it is lost, and     *)
(* only a header read, with nothing announced yet, loses it.               *)
(***************************************************************************)
LostInv ==
    /\ pc \notin {"idle", "drain"} => check_conn_is_valid
    /\ pc = "header" => remain = 0
    /\ pc = "drain" /\ ~check_conn_is_valid => code = -1 /\ remain = 0

LEMMA LostInit == Init => LostInv
  BY DEF Init, LostInv

LEMMA LostStep == LostInv /\ [Next]_vars => LostInv'
<1> SUFFICES ASSUME LostInv, [Next]_vars
             PROVE  LostInv'
  OBVIOUS
<1> USE DEF LostInv, check_conn_is_valid
<1>1. CASE UNCHANGED vars
  BY <1>1 DEF vars, client
<1>2. CASE giop_connect
  BY <1>2 DEF giop_connect
<1>3. CASE giop_disconnect
  BY <1>3 DEF giop_disconnect
<1>4. ASSUME NEW o \in Ops, SendRequest(o)
      PROVE  LostInv'
  BY <1>4 DEF SendRequest
<1>5. ASSUME NEW o \in Ops, Refuse(o)
      PROVE  LostInv'
  BY <1>5 DEF Refuse
<1>6. CASE RecvHeader
  <2>1. AfterReceive(0) # "header"
    BY DEF AfterReceive
  <2>2. pc = "header" /\ UNCHANGED socket
    BY <1>6 DEF RecvHeader
  <2>3. \/ pc' # "header" /\ UNCHANGED connected
        \/ pc' = "drain" /\ code' = -1 /\ UNCHANGED remain
    BY <1>6, <2>1 DEF RecvHeader, HeaderRead, HeaderFailed
  <2> QED
    BY <2>2, <2>3
\* A read inside a reply leaves the connection as it is.
<1>7. ASSUME UNCHANGED <<socket, connected>>, check_conn_is_valid,
             pc' # "header"
      PROVE  LostInv'
  BY <1>7
<1>8. CASE RecvReplyHeader
  <2>1. AfterReceive(0) # "header"
    BY DEF AfterReceive
  <2> QED
    BY <1>7, <1>8, <2>1 DEF RecvReplyHeader, Recv
<1>9. CASE RecvExcLength
  BY <1>7, <1>9 DEF RecvExcLength, Recv
<1>10. CASE RecvExcText
  BY <1>7, <1>10 DEF RecvExcText, Recv
<1>11. CASE RecvExcPack
  BY <1>7, <1>11 DEF RecvExcPack, Recv
<1>12. CASE DrainException
  <2>1. AfterReceive(code) # "header"
    BY DEF AfterReceive
  <2> QED
    BY <1>7, <1>12, <2>1 DEF DrainException, Recv
<1>13. CASE RecvField
  <2>1. \A x, len : AfterField(x, len) # "header"
    BY DEF AfterField
  <2> QED
    BY <1>7, <1>13, <2>1 DEF RecvField, Recv
<1>14. CASE RecvData
  BY <1>7, <1>14 DEF RecvData, Recv
<1>15. CASE RecvRest
  BY <1>7, <1>15 DEF RecvRest, Recv
<1>16. CASE Drain
  BY <1>7, <1>16 DEF Drain, Recv
<1>17. CASE Return
  BY <1>17 DEF Return
<1>18. CASE Device
  BY <1>18 DEF Device, Answer, Deliver, Close, client
<1> QED
  BY <1>1, <1>2, <1>3, <1>4, <1>5, <1>6, <1>8, <1>9, <1>10, <1>11, <1>12,
     <1>13, <1>14, <1>15, <1>16, <1>17, <1>18 DEF Next, Application, Reading

LEMMA LostCorrect == Spec => [](TypeInv /\ LostInv)
<1>1. Init => TypeInv /\ LostInv
  BY TypeInit, LostInit
<1>2. TypeInv /\ LostInv /\ [Next]_vars => (TypeInv /\ LostInv)'
  BY TypeStep, LostStep
<1> QED
  BY <1>1, <1>2, PTL DEF Spec

\* A call that found the connection lost ends with -1, split headers or not.
THEOREM LostCallFailsCorrect == Spec => []LostCallFails
<1>1. TypeInv /\ LostInv => LostCallFails
  BY DEF TypeInv, TypeOK, LostInv, LostCallFails, ReadPoints
<1> QED
  BY <1>1, LostCorrect, PTL

\* Nothing is read from or sent over a lost connection before the next
\* connect, whatever the device does.
THEOREM LostConnectionUntouchedCorrect == Spec => LostConnectionUntouched
<1>1. ASSUME TypeInv, LostInv, [Next]_vars, ~connected, ~connected'
      PROVE  avail' >= avail /\ requests' = requests
  <2> USE <1>1 DEF LostInv, check_conn_is_valid
  <2>1. pc \in {"idle", "drain"} /\ (pc = "drain" => remain = 0)
    BY DEF TypeInv, TypeOK
  <2>2. avail \in Nat /\ coming \in Nat
    BY DEF TypeInv, TypeOK
  <2>3. CASE UNCHANGED vars
    BY <2>2, <2>3 DEF vars, stream
  <2>4. CASE Application
    BY <2>2, <2>4 DEF Application, giop_connect, giop_disconnect,
                      SendRequest, Refuse, stream
  <2>5. CASE Reading
    BY <2>1, <2>2, <2>5
       DEF Reading, RecvHeader, RecvReplyHeader, RecvExcLength, RecvExcText,
           RecvExcPack, DrainException, RecvField, RecvData, RecvRest, Drain,
           Return, stream
  <2>6. CASE Device
    BY <2>2, <2>6 DEF Device, Answer, Deliver, Close
  <2> QED
    BY <2>3, <2>4, <2>5, <2>6 DEF Next
<1>2. TypeInv /\ LostInv /\ [Next]_vars =>
        [~connected /\ ~connected' =>
           avail' >= avail /\ requests' = requests]_vars
  BY <1>1
<1> QED
  BY <1>2, LostCorrect, PTL DEF LostConnectionUntouched, Spec
=============================================================================
