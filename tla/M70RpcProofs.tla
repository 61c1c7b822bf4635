---------------------------- MODULE M70RpcProofs ----------------------------
(***************************************************************************)
(* Proofs that a transaction of M70Giop does what GiopRpc promises of a    *)
(* call, and loses data only by a read of its own that came short, for all *)
(* sizes, operations, replies and bounds.                                  *)
(***************************************************************************)
EXTENDS M70GiopProofs

(***************************************************************************)
(* What the theorems ask of the device and the network: the parts of a     *)
(* reply that say what it is are neither split nor late, and the answer is *)
(* a reply, whose exception, if it has one, carries an error code.         *)
(***************************************************************************)
Conforms(r) == r.kind \in {"ok", "error"} /\ (r.kind = "error" => r.code = 1)

Intact ==
    /\ SplitAt \intersect {"header", "replyHeader", "excLength", "excPack"} = {}
    /\ StallAt \intersect {"replyHeader", "excLength", "excText", "excPack"} = {}
    /\ ~MayClose
    /\ GiopHdr <= ReplyHdr
    /\ \A o \in Ops : \A r \in Replies[o] : Conforms(r)

\* The bytes of the fields before field k.
Before(f, k) ==
    (IF k > 1 THEN f[1] ELSE 0) + (IF k > 2 THEN f[2] ELSE 0)
      + (IF k > 3 THEN f[3] ELSE 0) + (IF k > 4 THEN f[4] ELSE 0)

\* The body of a successful reply to o is what o reads of it.
Fits(o, r) ==
    LET body == BodyOf(o)
        whole == Before(body.fields, Len(body.fields) + 1)
    IN  /\ body.tail = "none" => body = melSetData \/ r.body = whole
        /\ body.tail = "headed" => r.body = whole + r.data
        /\ body.tail = "data" =>
             r.body = IF r.data = 0 THEN Before(body.fields, 3)
                                    ELSE whole + r.data

\* Headers are not split, and what the device answers an operation with, if
\* it answers success, is what the operation reads.
Fitting ==
    /\ HeaderWhole
    /\ \A o \in Ops : \A r \in Replies[o] :
          r.kind # "none" /\ (r.kind = "ok" => Fits(o, r))
-----------------------------------------------------------------------------
(***************************************************************************)
(* What a call has found out about the latest reply.  A request is         *)
(* answered once; on a usable connection the unread bytes are those the    *)
(* call has yet to read of what says whether it succeeded.                 *)
(***************************************************************************)
Asked ==
    /\ ~eof
    /\ answered <= requests /\ requests <= answered + 1
    /\ check_conn_is_valid /\ pc # "header" => answered = requests
    /\ check_conn_is_valid /\ pc # "idle" /\ answered = requests =>
          reply \in Replies[op]

Failed == reply.kind = "error"
Passed == reply.kind = "ok"

Place ==
    /\ pc = "header" =>
         /\ code = 0
         /\ own = IF answered = requests THEN WireLength(reply) ELSE 0
         /\ answered = requests => fresh
    /\ pc = "replyHeader" => sync /\ code = 0 /\ own = DataLength(reply)
    /\ pc = "excLength" => sync /\ Failed /\ own = Word + reply.exc + ErrPack
    /\ pc = "excText" => sync /\ Failed /\ extra >= 0 /\ own = extra + ErrPack
    /\ pc = "excPack" => sync /\ Failed /\ own = ErrPack
    /\ pc = "excDrain" => Failed /\ code = 1
    /\ pc \in {"field", "data", "rest"} => Passed /\ code = 0
    /\ pc = "drain" => \/ Passed /\ code = 0
                       \/ Failed /\ code = 1

RpcInv == Asked /\ (check_conn_is_valid => Place)

\* The invariants a step is shown from.
BaseInv == TypeInv /\ StreamInv /\ LostInv

LEMMA IntactHeader == Intact => HeaderWhole
  BY DEF Intact, HeaderWhole

\* Replies that the device may give.
LEMMA ReplyOK ==
    ASSUME Intact, NEW o \in Ops, NEW r \in Replies[o]
    PROVE  /\ r \in ReplyRecords /\ Conforms(r)
           /\ r.kind = "ok" => DataLength(r) = ReplyHdr + r.body
           /\ r.kind = "error" => DataLength(r) = ReplyHdr + Word + r.exc + ErrPack
           /\ DataLength(r) >= ReplyHdr
           /\ r.exc \in Nat /\ r.body \in Nat /\ r.data \in Nat
<1>1. r \in ReplyRecords /\ Conforms(r)
  BY SizeAssumption DEF Intact
<1>2. ReplyHdr \in Nat /\ Word \in Nat /\ ErrPack \in Nat
  BY SizeAssumption
<1> QED
  BY <1>1, <1>2 DEF DataLength, ReplyRecords, Conforms

\* A recv() at a read that is neither split nor late, of bytes that belong
\* to the reply, returns all of them.
LEMMA WholeRead ==
    ASSUME TypeOK, ~eof, own = avail + coming, pc \notin SplitAt,
           pc \notin StallAt, NEW w \in Nat \ {0}, w <= own,
           NEW rl \in RecvResults(w)
    PROVE  rl = w
  BY DEF TypeOK, RecvResults

\* Inside a reply it takes them off the stream and off msg_length.
LEMMA WholeRecv ==
    ASSUME BaseInv, Asked, check_conn_is_valid, pc \notin {"idle", "header"},
           pc \notin SplitAt, pc \notin StallAt, NEW w \in Nat \ {0}, w <= own,
           NEW rl \in RecvResults(w), Recv(w, rl)
    PROVE  /\ rl = w /\ own' = own - w /\ remain' = remain - w
<1>1. TypeOK /\ own = avail + coming
  BY DEF BaseInv, TypeInv, StreamInv
<1>2. rl = w
  BY <1>1, WholeRead DEF Asked
<1>3. rl \in Int /\ rl <= avail
  BY <1>1, <1>2, RecvResult
<1>4. own' = own - rl
  BY <1>1, <1>2, <1>3, ConsumedType DEF Recv
<1>5. remain' = remain - rl
  BY <1>1, <1>2, LessBound DEF Recv, TypeOK
<1> QED
  BY <1>2, <1>4, <1>5

\* A recv() inside a reply changes nothing that was asked or answered.
LEMMA AskedRecv ==
    ASSUME Asked, NEW w, NEW rl, Recv(w, rl), pc \notin {"idle", "header"},
           pc' \notin {"idle", "header"}
    PROVE  /\ Asked'
           /\ UNCHANGED <<op, socket, connected, result, eof, requests,
                          answered, reply, check_conn_is_valid>>
<1>1. UNCHANGED <<op, socket, connected, result, eof, requests, answered, reply>>
  BY DEF Recv, Consumed
<1>2. check_conn_is_valid' = check_conn_is_valid
  BY <1>1 DEF check_conn_is_valid
<1> QED
  BY <1>1, <1>2 DEF Asked

\* Likewise a step inside a reply that reads nothing.
LEMMA AskedSame ==
    ASSUME Asked, UNCHANGED <<op, socket, connected, stream>>,
           pc \notin {"idle", "header"}, pc' # "header"
    PROVE  Asked' /\ check_conn_is_valid' = check_conn_is_valid
<1>1. UNCHANGED <<op, socket, connected, eof, requests, answered, reply>>
  BY DEF stream
<1>2. check_conn_is_valid' = check_conn_is_valid
  BY <1>1 DEF check_conn_is_valid
<1> QED
  BY <1>1, <1>2 DEF Asked

LEMMA RpcInit == Init => RpcInv
<1> SUFFICES ASSUME Init
             PROVE  RpcInv
  OBVIOUS
<1>1. ~check_conn_is_valid /\ ~eof
  BY Zenon DEF Init, check_conn_is_valid
<1>2. answered = 0 /\ requests = 0
  BY DEF Init
<1> QED
  BY <1>1, <1>2 DEF RpcInv, Asked

\* The header read whole is the latest reply's; what else can come of
\* reading it is that nothing came.
LEMMA HeaderOwn ==
    ASSUME Intact, BaseInv, RpcInv, RecvHeader
    PROVE  /\ check_conn_is_valid
           /\ UNCHANGED <<op, extra, socket, eof, requests, answered, reply>>
           /\ \/ /\ pc' = "replyHeader" /\ sync' /\ UNCHANGED <<code, connected>>
                 /\ answered = requests /\ remain' = DataLength(reply)
                 /\ own' = DataLength(reply)
              \/ pc' = "drain" /\ ~connected'
<1>1. PICK rl \in RecvResults(GiopHdr) :
         /\ Consumed(rl)
         /\ \/ /\ rl = GiopHdr
               /\ \E h \in Headers : HeaderRead(h)
               /\ sync' = (fresh /\ own = avail + coming)
               /\ UNCHANGED <<code, connected>>
            \/ rl \in 0..(GiopHdr - 1)
            \/ rl = -1 /\ HeaderFailed /\ pc' = "drain"
  BY DEF RecvHeader
<1>2. /\ pc = "header" /\ UNCHANGED <<op, extra, socket>>
      /\ UNCHANGED <<eof, requests, answered, reply>>
  BY <1>1 DEF RecvHeader, Consumed
<1>3. /\ check_conn_is_valid /\ own = avail + coming /\ TypeOK /\ ~eof
      /\ own = IF answered = requests THEN WireLength(reply) ELSE 0
      /\ answered = requests => fresh /\ reply \in Replies[op]
      /\ own > 0 => answered = requests
  BY <1>2 DEF BaseInv, LostInv, StreamInv, TypeInv, RpcInv, Asked, Place
<1>4. /\ GiopHdr \in Nat \ {0} /\ avail \in Nat /\ coming \in Nat /\ own \in Nat
      /\ op \in Ops /\ reply \in ReplyRecords
  BY <1>3, SizeAssumption DEF TypeOK
<1>5. /\ DataLength(reply) \in Nat
      /\ WireLength(reply) = GiopHdr + DataLength(reply)
  BY <1>4, LengthType
<1>6. rl = -1 \/ rl = GiopHdr
  <2>1. ASSUME rl \in 0..(GiopHdr - 1)
        PROVE  FALSE
    <3>1. rl = avail /\ coming = 0 /\ avail > 0
      BY <1>2, <1>3, <1>4, <2>1 DEF RecvResults, Intact
    <3>2. own > 0 /\ own < GiopHdr
      BY <1>3, <1>4, <2>1, <3>1
    <3> QED
      BY <1>3, <1>4, <1>5, <3>2
  <2> QED
    BY <1>1, <2>1
<1>7. CASE rl = GiopHdr
  <2>1. rl <= avail /\ rl \in Int
    BY <1>3, <1>4, <1>7, RecvResult
  <2>2. own > 0 /\ answered = requests /\ fresh /\ reply \in Replies[op]
        /\ own = WireLength(reply)
    BY <1>3, <1>4, <1>7, <2>1
  <2>3. Headers = {[isReply |-> reply.kind # "other",
                    length |-> DataLength(reply)]}
    BY <1>3, <2>2 DEF Headers
  <2>4. reply.kind # "other" /\ DataLength(reply) >= GiopHdr
    <3>1. DataLength(reply) >= ReplyHdr /\ Conforms(reply)
      BY <1>4, <2>2, ReplyOK
    <3>2. ReplyHdr >= GiopHdr /\ ReplyHdr \in Nat
      BY SizeAssumption DEF Intact
    <3> QED
      BY <1>4, <1>5, <3>1, <3>2 DEF Conforms
  <2>5. HeaderRead([isReply |-> reply.kind # "other",
                    length |-> DataLength(reply)])
        /\ sync' = (fresh /\ own = avail + coming)
        /\ UNCHANGED <<code, connected>>
    BY <1>1, <1>4, <1>7, <2>3
  <2>6. pc' = "replyHeader" /\ remain' = DataLength(reply)
    BY <2>4, <2>5 DEF HeaderRead
  <2>7. own' = own - GiopHdr
    BY <1>1, <1>3, <1>4, <1>7, <2>1, ConsumedType
  <2>8. sync'
    BY <1>3, <2>2, <2>5
  <2>9. own' = DataLength(reply)
    BY <1>4, <1>5, <2>2, <2>7
  <2> QED
    BY <1>2, <1>3, <2>2, <2>5, <2>6, <2>8, <2>9
<1>8. CASE rl = -1
  BY <1>1, <1>2, <1>3, <1>4, <1>8 DEF HeaderFailed
<1> QED
  BY <1>6, <1>7, <1>8

\* Every step keeps what the call knows.
LEMMA RpcStep ==
    ASSUME Intact, BaseInv, RpcInv, [Next]_vars
    PROVE  RpcInv'
<1>a. /\ Asked /\ TypeOK
      /\ check_conn_is_valid => Place /\ own = avail + coming
      /\ pc \notin {"idle", "drain"} => check_conn_is_valid
  BY DEF RpcInv, BaseInv, TypeInv, StreamInv, LostInv
<1>b. /\ own \in Nat /\ avail \in Nat /\ coming \in Nat /\ remain \in Int
      /\ requests \in Nat /\ answered \in Nat /\ op \in Ops
      /\ reply \in ReplyRecords /\ extra \in Int
  BY <1>a DEF TypeOK
<1>c. /\ ReplyHdr \in Nat \ {0} /\ Word \in Nat \ {0} /\ ErrPack \in Nat \ {0}
      /\ 1 \in Nat \ {0}
  BY SizeAssumption
\* Inside the reply, from the reply header on.
<1>d. ASSUME pc \notin {"idle", "header", "drain"}
      PROVE  /\ check_conn_is_valid /\ Place /\ answered = requests
             /\ reply \in Replies[op] /\ Conforms(reply)
             /\ reply.exc \in Nat
             /\ reply.kind = "ok" => DataLength(reply) = ReplyHdr + reply.body
             /\ reply.kind = "error" =>
                   DataLength(reply) = ReplyHdr + Word + reply.exc + ErrPack
             /\ reply.body \in Nat
  <2>1. /\ check_conn_is_valid /\ Place /\ answered = requests
        /\ reply \in Replies[op]
    BY <1>a, <1>d DEF Asked
  <2> QED
    BY <1>b, <2>1, ReplyOK
<1>e. /\ AfterReceive(0) \in {"field", "rest", "drain"}
      /\ AfterReceive(1) = "drain"
  BY <1>a, AfterReceiveType DEF AfterReceive, Codes
<1>1. CASE giop_connect
  <2>1. ~eof'
    BY <1>1, Zenon DEF giop_connect
  <2>2. Asked' /\ pc' = "idle"
    BY <1>1, <2>1 DEF giop_connect, Asked
  <2> QED
    BY <2>2 DEF RpcInv, Place
<1>2. CASE giop_disconnect
  BY <1>2, <1>a DEF giop_disconnect, RpcInv, Asked, check_conn_is_valid, stream
<1>3. ASSUME NEW o \in Ops, SendRequest(o)
      PROVE  RpcInv'
  <2>1. answered = requests /\ own = 0 /\ check_conn_is_valid
    BY <1>3, <1>a DEF SendRequest, Asked, BaseInv, StreamInv
  <2>2. /\ pc' = "header" /\ code' = 0 /\ own' = own /\ answered' = answered
        /\ requests' = requests + 1 /\ eof' = eof
    BY <1>3 DEF SendRequest
  <2>3. Asked'
    BY <1>a, <1>b, <2>1, <2>2 DEF Asked
  <2>4. Place'
    BY <1>b, <2>1, <2>2 DEF Place
  <2> QED
    BY <2>3, <2>4 DEF RpcInv
<1>4. ASSUME NEW o \in Ops, Refuse(o)
      PROVE  RpcInv'
  BY <1>4, <1>a DEF Refuse, RpcInv, Asked, Place, check_conn_is_valid, stream
<1>5. CASE RecvHeader
  <2>1. /\ check_conn_is_valid
        /\ UNCHANGED <<op, socket, eof, requests, answered, reply>>
        /\ pc = "header"
    BY <1>5, HeaderOwn DEF RecvHeader
  <2>2. CASE /\ pc' = "replyHeader" /\ sync' /\ UNCHANGED <<code, connected>>
             /\ answered = requests /\ own' = DataLength(reply)
    <3>1. check_conn_is_valid' = check_conn_is_valid
      BY <2>1, <2>2 DEF check_conn_is_valid
    <3>2. Asked'
      BY <1>a, <2>1, <2>2, <3>1 DEF Asked
    <3>3. code' = 0
      BY <1>a, <2>1, <2>2 DEF Place
    <3>4. own' = DataLength(reply')
      BY <2>1, <2>2
    <3>5. Place'
      BY <2>2, <3>3, <3>4 DEF Place
    <3> QED
      BY <3>2, <3>5 DEF RpcInv
  <2>3. CASE pc' = "drain" /\ ~connected'
    <3>1. ~check_conn_is_valid'
      BY <2>3 DEF check_conn_is_valid
    <3> QED
      BY <1>a, <2>1, <3>1 DEF RpcInv, Asked
  <2> QED
    BY <1>5, <2>2, <2>3, HeaderOwn
<1>6. CASE RecvReplyHeader
  <2>1. PICK rl \in RecvResults(ReplyHdr) :
           /\ Recv(ReplyHdr, rl)
           /\ \E is_error \in IsErrors(rl) :
                pc' = IF is_error THEN "excLength" ELSE AfterReceive(0)
           /\ code' = code
    BY <1>6 DEF RecvReplyHeader
  <2>2. pc = "replyHeader"
    BY <1>6 DEF RecvReplyHeader
  <2>3. sync /\ code = 0 /\ own = DataLength(reply)
    BY <1>d, <2>2 DEF Place
  <2>4. ReplyHdr <= own
    BY <1>b, <1>c, <1>d, <2>2, <2>3, ReplyOK
  <2>5. rl = ReplyHdr /\ own' = own - ReplyHdr
    BY <1>a, <1>c, <1>d, <2>1, <2>2, <2>4, WholeRecv DEF Intact
  <2>6. IsErrors(rl) = {reply.kind = "error"}
    <3>1. ~(rl <= 0)
      BY <1>c, <2>5
    <3> QED
      BY <2>3, <2>5, <3>1, Zenon DEF IsErrors
  <2>7. pc' = IF Failed THEN "excLength" ELSE AfterReceive(0)
    BY <2>1, <2>6 DEF Failed
  <2>8. Asked' /\ UNCHANGED <<reply, check_conn_is_valid>>
    BY <1>a, <1>e, <2>1, <2>2, <2>7, AskedRecv
  <2>9. sync' /\ code' = 0
    <3>1. sync'
      BY <2>1, <2>3, <2>5, Zenon DEF Recv
    <3> QED
      BY <2>1, <2>3, <3>1
  <2>10. CASE Failed
    <3>1. own' = Word + reply.exc + ErrPack /\ pc' = "excLength"
      BY <1>b, <1>c, <1>d, <2>2, <2>3, <2>5, <2>7, <2>10 DEF Failed
    <3>2. Failed' /\ own' = Word + reply'.exc + ErrPack
      BY <2>8, <2>10, <3>1 DEF Failed
    <3> QED
      BY <2>8, <2>9, <3>1, <3>2 DEF RpcInv, Place
  <2>11. CASE ~Failed
    <3>1. Passed' /\ pc' \in {"field", "rest", "drain"}
      BY <1>d, <1>e, <2>2, <2>7, <2>8, <2>11 DEF Failed, Passed, Conforms
    <3> QED
      BY <2>8, <2>9, <3>1 DEF RpcInv, Place
  <2> QED
    BY <2>10, <2>11
<1>7. CASE RecvExcLength
  <2>1. PICK rl \in RecvResults(Word) :
           /\ Recv(Word, rl)
           /\ extra' \in IF rl <= 0 THEN {0} ELSE Field(rl, Word, reply.exc)
    BY <1>7 DEF RecvExcLength
  <2>2. pc = "excLength" /\ pc' = "excText"
    BY <1>7 DEF RecvExcLength
  <2>3. sync /\ Failed /\ own = Word + reply.exc + ErrPack
    BY <1>d, <2>2 DEF Place
  <2>4. Word <= own /\ reply.exc \in Nat
    BY <1>b, <1>c, <1>d, <2>2, <2>3
  <2>5. rl = Word /\ own' = own - Word
    BY <1>a, <1>c, <1>d, <2>1, <2>2, <2>4, WholeRecv DEF Intact
  <2>6. extra' = reply.exc /\ sync'
    <3>1. Field(rl, Word, reply.exc) = {reply.exc}
      BY <2>3, <2>5, Zenon DEF Field
    <3>2. extra' = reply.exc
      BY <1>c, <2>1, <2>5, <3>1
    <3>3. sync'
      BY <2>1, <2>3, <2>5, Zenon DEF Recv
    <3> QED
      BY <3>2, <3>3
  <2>7. Asked' /\ UNCHANGED <<reply, check_conn_is_valid>>
    BY <1>a, <2>1, <2>2, AskedRecv
  <2>8. Failed' /\ extra' >= 0 /\ own' = extra' + ErrPack
    BY <1>b, <1>c, <2>3, <2>4, <2>5, <2>6, <2>7 DEF Failed
  <2> QED
    BY <2>2, <2>6, <2>7, <2>8 DEF RpcInv, Place
<1>8. CASE RecvExcText
  <2>1. pc = "excText"
    BY <1>8 DEF RecvExcText
  <2>2. sync /\ Failed /\ extra >= 0 /\ own = extra + ErrPack
    BY <1>d, <2>1 DEF Place
  <2>3. CASE extra > 0
    <3>1. PICK rl \in RecvResults(1) : Recv(1, rl) /\ extra' = Less(extra, rl)
      BY <1>8, <2>3 DEF RecvExcText
    <3>2. pc' = "excText"
      BY <1>8, <2>1, <2>3 DEF RecvExcText
    <3>3. 1 <= own
      BY <1>b, <1>c, <2>2, <2>3
    <3>5. rl = 1 /\ own' = own - 1
      <4>1. rl = 1
        <5>1. avail = 0 => coming # 0
          BY <1>a, <1>b, <1>d, <2>1, <3>3
        <5> QED
          BY <1>a, <1>b, <2>1, <3>1, <5>1 DEF RecvResults, Intact, Asked
      <4>2. rl <= avail /\ Consumed(rl)
        BY <1>a, <3>1, <4>1, RecvResult DEF Recv
      <4> QED
        BY <1>a, <1>d, <2>1, <4>1, <4>2, ConsumedType
    <3>6. extra' = extra - 1
      BY <1>b, <3>1, <3>5, LessBound
    <3>7. Asked' /\ UNCHANGED <<reply, check_conn_is_valid>>
      BY <1>a, <2>1, <3>1, <3>2, AskedRecv
    <3>8. Failed' /\ extra' >= 0 /\ own' = extra' + ErrPack
      BY <1>b, <1>c, <2>1, <2>2, <2>3, <3>5, <3>6, <3>7 DEF Failed
    <3>9. sync'
      BY <2>2, <3>1, <3>5, Zenon DEF Recv
    <3> QED
      BY <3>2, <3>7, <3>8, <3>9 DEF RpcInv, Place
  <2>4. CASE ~(extra > 0)
    <3>1. pc' = "excPack" /\ sync' = sync
          /\ UNCHANGED <<op, socket, connected, stream>>
      BY <1>8, <2>4 DEF RecvExcText
    <3>2. Asked'
      BY <1>a, <2>1, <3>1, AskedSame
    <3>3. own' = ErrPack /\ Failed' /\ sync'
      BY <1>b, <1>c, <2>1, <2>2, <2>4, <3>1 DEF stream, Failed
    <3> QED
      BY <3>1, <3>2, <3>3 DEF RpcInv, Place
  <2> QED
    BY <2>3, <2>4
<1>9. CASE RecvExcPack
  <2>1. PICK rl \in RecvResults(ErrPack) :
           /\ Recv(ErrPack, rl)
           /\ code' \in ErrorCode(rl)
    BY <1>9 DEF RecvExcPack
  <2>2. pc = "excPack" /\ pc' = "excDrain"
    BY <1>9 DEF RecvExcPack
  <2>3. sync /\ Failed /\ own = ErrPack
    BY <1>d, <2>2 DEF Place
  <2>4. rl = ErrPack
    BY <1>a, <1>c, <1>d, <2>1, <2>2, <2>3, WholeRecv DEF Intact
  <2>5. code' = 1
    BY <1>d, <2>1, <2>2, <2>3, <2>4 DEF ErrorCode, Conforms, Failed
  <2>6. Asked' /\ UNCHANGED <<reply, check_conn_is_valid>>
    BY <1>a, <2>1, <2>2, AskedRecv
  <2>7. Failed'
    BY <2>3, <2>6 DEF Failed
  <2> QED
    BY <2>2, <2>5, <2>6, <2>7 DEF RpcInv, Place
<1>10. CASE DrainException
  <2>1. pc = "excDrain" /\ code' = code
    BY <1>10 DEF DrainException
  <2>2. Failed /\ code = 1
    BY <1>d, <2>1 DEF Place
  <2>3. CASE remain > 0
    <3>1. PICK rl \in RecvResults(1) : Recv(1, rl)
      BY <1>10, <2>3 DEF DrainException
    <3>2. pc' = pc
      BY <1>10, <2>3 DEF DrainException
    <3>3. Asked' /\ UNCHANGED <<reply, check_conn_is_valid>>
      BY <1>a, <2>1, <3>1, <3>2, AskedRecv
    <3>4. Failed' /\ code' = 1
      BY <2>1, <2>2, <3>3 DEF Failed
    <3> QED
      BY <2>1, <3>2, <3>3, <3>4 DEF RpcInv, Place
  <2>4. CASE ~(remain > 0)
    <3>1. pc' = "drain" /\ UNCHANGED <<op, socket, connected, stream>>
      BY <1>10, <1>e, <2>2, <2>4 DEF DrainException
    <3>2. Asked'
      BY <1>a, <2>1, <3>1, AskedSame
    <3>3. Failed' /\ code' = 1
      BY <2>1, <2>2, <3>1 DEF stream, Failed
    <3> QED
      BY <3>1, <3>2, <3>3 DEF RpcInv, Place
  <2> QED
    BY <2>3, <2>4
\* Reading the data changes nothing of the outcome.
<1>11. ASSUME NEW w, NEW rl, Recv(w, rl), pc \in {"field", "data", "rest"},
              pc' \in {"field", "data", "drain"}, code' = code
       PROVE  RpcInv'
  <2>1. Passed /\ code = 0
    BY <1>11, <1>d DEF Place
  <2>2. Asked' /\ UNCHANGED <<reply, check_conn_is_valid>>
    BY <1>a, <1>11, AskedRecv
  <2>3. Passed' /\ code' = 0
    BY <1>11, <2>1, <2>2 DEF Passed
  <2> QED
    BY <1>11, <2>2, <2>3 DEF RpcInv, Place
<1>12. CASE RecvField
  <2>1. PICK w, rl : Recv(w, rl)
    BY <1>12 DEF RecvField
  <2>2. pc' \in {"field", "data", "drain"} /\ pc = "field" /\ code' = code
    BY <1>12, <1>a, AfterFieldType DEF RecvField
  <2> QED
    BY <1>11, <2>1, <2>2
<1>13. CASE RecvData
  BY <1>11, <1>13 DEF RecvData
<1>14. CASE RecvRest
  BY <1>11, <1>14 DEF RecvRest
<1>15. CASE Drain
  <2>1. PICK rl \in RecvResults(1) : Recv(1, rl)
    BY <1>15 DEF Drain
  <2>2. pc = "drain" /\ pc' = pc /\ code' = code /\ check_conn_is_valid
    BY <1>15 DEF Drain
  <2>3. Asked' /\ UNCHANGED <<reply, check_conn_is_valid>>
    BY <1>a, <2>1, <2>2, AskedRecv
  <2>4. Place'
    BY <1>a, <2>2, <2>3 DEF Place, Passed, Failed
  <2> QED
    BY <2>3, <2>4 DEF RpcInv
<1>16. CASE Return
  <2>1. pc = "drain" /\ pc' = "idle"
        /\ UNCHANGED <<op, socket, connected, stream>>
    BY <1>16 DEF Return
  <2> QED
    BY <1>a, <2>1, AskedSame DEF RpcInv, Place
<1>17. CASE Answer
  <2>1. /\ answered < requests /\ answered' = answered + 1
        /\ reply' \in Replies[op] /\ own' = WireLength(reply')
        /\ requests' = requests /\ eof' = eof
        /\ op' = op /\ pc' = pc /\ code' = code
        /\ socket' = socket /\ connected' = connected
    BY <1>17 DEF Answer, client
  <2>2. fresh' = TRUE
    BY <1>17 DEF Answer
  <2>3. check_conn_is_valid' = check_conn_is_valid
    BY <2>1 DEF check_conn_is_valid
  <2>4. answered' = requests'
    BY <1>a, <1>b, <2>1 DEF Asked
  <2>5. check_conn_is_valid => pc = "header"
    BY <1>a, <1>b, <2>1 DEF Asked
  <2>6. Asked'
    BY <1>a, <1>b, <2>1, <2>3, <2>4 DEF Asked
  <2>7. check_conn_is_valid => Place'
    BY <1>a, <2>1, <2>2, <2>4, <2>5 DEF Place
  <2> QED
    BY <2>3, <2>6, <2>7 DEF RpcInv
<1>18. CASE Deliver
  BY <1>18, <1>a DEF Deliver, client, RpcInv, Asked, Place, Failed, Passed,
                     check_conn_is_valid
<1>19. CASE Close
  BY <1>19 DEF Close, Intact
<1>20. CASE UNCHANGED vars
  BY <1>20, <1>a DEF vars, client, stream, RpcInv, Asked, Place, Failed,
                     Passed, check_conn_is_valid
<1> QED
  BY <1>1, <1>2, <1>3, <1>4, <1>5, <1>6, <1>7, <1>8, <1>9, <1>10,
     <1>12, <1>13, <1>14, <1>15, <1>16, <1>17, <1>18, <1>19, <1>20
     DEF Next, Application, Reading, Device

LEMMA BaseStep ==
    ASSUME HeaderWhole, BaseInv, [Next]_vars
    PROVE  BaseInv'
<1>1. TypeInv' /\ LostInv'
  BY TypeStep, LostStep DEF BaseInv
<1> QED
  BY <1>1, StreamStep DEF BaseInv

LEMMA RpcCorrect ==
    ASSUME Intact
    PROVE  Spec => [](BaseInv /\ RpcInv)
<1>1. Init => BaseInv /\ RpcInv
  BY TypeInit, StreamInit, LostInit, RpcInit DEF BaseInv
<1>2. BaseInv /\ RpcInv /\ [Next]_vars => (BaseInv /\ RpcInv)'
  BY IntactHeader, BaseStep, RpcStep
<1> QED
  BY <1>1, <1>2, PTL DEF Spec

\* A call whose connection held out is about to return success exactly when
\* the device answered this very request with success: whatever of the data
\* is split or late, and whatever its length fields hold.
THEOREM AnswerReportedCorrect ==
    ASSUME Intact
    PROVE  Spec => []AnswerReported
<1>1. RpcInv => AnswerReported
  BY DEF RpcInv, Place, Passed, Failed, AnswerReported
<1> QED
  BY <1>1, RpcCorrect, PTL
-----------------------------------------------------------------------------
(***************************************************************************)
(* The transaction implements GiopRpc: a connect, disconnect, request,     *)
(* refusal, answer, loss or return is the action of that name there, and   *)
(* every other step changes nothing a caller can see.                      *)
(***************************************************************************)

\* What an operation returns on an invalid connection or argument.
LEMMA RefusedType ==
    ASSUME NEW o \in OpNames
    PROVE  /\ BodyOf(o).refused \in {-1, 1}
           /\ o \in ChecksArguments => BodyOf(o).refused = 1
  BY DEF OpNames, BodyOf, Body, ChecksArguments, melGetData, melGetDataAxes,
     melSetData, melGetCurrentAlarmMsg, melGetCurrentPrgBlock, melFsOpenFile,
     melFsReadFile, melFsCloseFile, melFsCreateFile, melRemoveFile,
     melFsWriteFile, melFSStatFile, melFsOpenDirectory, melFsCloseDirectory,
     melFsReadDirectory, CancelModal2

LEMMA RpcInitMaps == Init => Rpc!Init
<1> SUFFICES ASSUME Init
             PROVE  Rpc!Init
  OBVIOUS
<1>1. check_conn_is_valid = FALSE
  BY Zenon DEF Init, check_conn_is_valid
<1>2. pc = "idle" /\ reply.kind = "none" /\ Verdict(result) = "ok"
  BY DEF Init, NoReply, Verdict
<1> QED
  BY <1>1, <1>2 DEF Rpc!Init, Rpc!Results, Rpc!Verdicts

\* A step inside a call that keeps the connection and the answer.
LEMMA RpcStutter ==
    ASSUME pc # "idle", pc' # "idle",
           UNCHANGED <<socket, connected, result, answered, requests, reply>>
    PROVE  UNCHANGED Rpc!vars
<1>1. check_conn_is_valid' = check_conn_is_valid
  BY DEF check_conn_is_valid
<1>2. Verdict(result)' = Verdict(result)
  BY DEF Verdict
<1> QED
  BY <1>1, <1>2 DEF Rpc!vars

LEMMA RpcStepMaps ==
    ASSUME Intact, BaseInv, RpcInv, [Next]_vars
    PROVE  [Rpc!Next]_(Rpc!vars)
<1>a. /\ Asked /\ TypeOK
      /\ check_conn_is_valid => Place
      /\ pc \notin {"idle", "drain"} => check_conn_is_valid
      /\ pc = "drain" /\ ~check_conn_is_valid => code = -1
  BY DEF RpcInv, BaseInv, TypeInv, LostInv
<1>b. requests \in Nat /\ answered \in Nat /\ op \in Ops
  BY <1>a DEF TypeOK
<1>1. CASE giop_connect
  <2>1. check_conn_is_valid = FALSE /\ check_conn_is_valid' = TRUE
    BY <1>1, Zenon DEF giop_connect, check_conn_is_valid
  <2>2. /\ pc = "idle" /\ pc' = pc /\ result' = result
        /\ answered' = requests' /\ reply'.kind = "none"
    BY <1>1 DEF giop_connect, NoReply
  <2>3. Rpc!Connect
    BY <2>1, <2>2 DEF Rpc!Connect, Verdict
  <2> QED
    BY <2>3 DEF Rpc!Next
<1>2. CASE giop_disconnect
  <2>1. check_conn_is_valid = TRUE /\ check_conn_is_valid' = FALSE
    <3>1. check_conn_is_valid /\ connected' = FALSE
      BY <1>2 DEF giop_disconnect
    <3> QED
      BY <3>1, Zenon DEF check_conn_is_valid
  <2>2. /\ pc = "idle"
        /\ UNCHANGED <<pc, result, answered, requests, reply>>
    BY <1>2 DEF giop_disconnect, stream
  <2>3. Rpc!Disconnect
    BY <2>1, <2>2 DEF Rpc!Disconnect, Verdict
  <2> QED
    BY <2>3 DEF Rpc!Next
<1>3. ASSUME NEW o \in Ops, SendRequest(o)
      PROVE  Rpc!Next
  <2>1. /\ pc = "idle" /\ check_conn_is_valid /\ pc' = "header"
        /\ requests' = requests + 1
        /\ UNCHANGED <<socket, connected, result, answered>>
    BY <1>3 DEF SendRequest
  <2>2. check_conn_is_valid' = check_conn_is_valid
    BY <2>1 DEF check_conn_is_valid
  <2>3. answered' # requests'
    BY <1>a, <1>b, <2>1 DEF Asked
  <2>4. Rpc!Request
    BY <2>1, <2>2, <2>3 DEF Rpc!Request, Verdict
  <2> QED
    BY <2>4 DEF Rpc!Next
<1>4. ASSUME NEW o \in Ops, Refuse(o)
      PROVE  Rpc!Next
  <2>1. /\ ~check_conn_is_valid \/ o \in ChecksArguments
        /\ result' = BodyOf(o).refused
        /\ UNCHANGED <<pc, socket, connected, answered, requests, reply>>
    BY <1>4 DEF Refuse, stream
  <2>2. pc = "idle"
    BY <1>4 DEF Refuse
  <2>3. check_conn_is_valid' = check_conn_is_valid
    BY <2>1 DEF check_conn_is_valid
  <2>4. /\ result' \in {-1, 1}
        /\ check_conn_is_valid => result' = 1
    BY <1>4, <2>1, RefusedType, SizeAssumption DEF Refuse
  <2>5. Rpc!Refuse
    BY <2>1, <2>2, <2>3, <2>4 DEF Rpc!Refuse, Verdict
  <2> QED
    BY <2>5 DEF Rpc!Next
\* The reads.
<1>5. ASSUME NEW w, NEW rl, Recv(w, rl), pc # "idle", pc' # "idle"
      PROVE  UNCHANGED Rpc!vars
  BY <1>5, RpcStutter DEF Recv, Consumed
<1>6. ASSUME UNCHANGED <<socket, connected, result, stream>>, pc # "idle",
             pc' # "idle"
      PROVE  UNCHANGED Rpc!vars
  BY <1>6, RpcStutter DEF stream
<1>e. \A c : AfterReceive(c) # "idle"
  BY DEF AfterReceive
<1>7. CASE RecvHeader
  <2>1. /\ check_conn_is_valid /\ pc = "header" /\ pc' # "idle"
        /\ UNCHANGED <<socket, result, requests, answered, reply>>
        /\ connected' = connected \/ ~connected'
    BY <1>7, HeaderOwn DEF RecvHeader
  <2>2. CASE connected' = connected
    BY <2>1, <2>2, RpcStutter
  <2>3. CASE ~connected'
    <3>1. check_conn_is_valid = TRUE /\ check_conn_is_valid' = FALSE
      BY <2>1, <2>3, Zenon DEF check_conn_is_valid
    <3>2. Rpc!Lose
      BY <2>1, <3>1 DEF Rpc!Lose, Verdict
    <3> QED
      BY <3>2 DEF Rpc!Next
  <2> QED
    BY <2>1, <2>2, <2>3
<1>8. CASE RecvReplyHeader
  BY <1>8, <1>5, <1>e DEF RecvReplyHeader
<1>9. CASE RecvExcLength
  BY <1>9, <1>5 DEF RecvExcLength
<1>10. CASE RecvExcText
  BY <1>10, <1>5, <1>6 DEF RecvExcText
<1>11. CASE RecvExcPack
  BY <1>11, <1>5 DEF RecvExcPack
<1>12. CASE DrainException
  BY <1>12, <1>5, <1>6, <1>e DEF DrainException
<1>13. CASE RecvField
  <2>1. \A x, len : AfterField(x, len) # "idle"
    BY DEF AfterField
  <2> QED
    BY <1>13, <1>5, <2>1 DEF RecvField
<1>14. CASE RecvData
  BY <1>14, <1>5 DEF RecvData
<1>15. CASE RecvRest
  BY <1>15, <1>5 DEF RecvRest
<1>16. CASE Drain
  BY <1>16, <1>5 DEF Drain
<1>17. CASE Return
  <2>1. /\ pc = "drain" /\ pc' = "idle" /\ result' = code
        /\ UNCHANGED <<socket, connected, answered, requests, reply>>
    BY <1>17 DEF Return, stream
  <2>2. check_conn_is_valid' = check_conn_is_valid
    BY <2>1 DEF check_conn_is_valid
  <2>3. CASE check_conn_is_valid
    <3>1. answered = requests /\ Verdict(code) = reply.kind
          /\ reply.kind # "none"
      BY <1>a, <2>1, <2>3 DEF Asked, Place, Passed, Failed, Verdict
    <3>2. Rpc!Return
      BY <2>1, <2>2, <2>3, <3>1 DEF Rpc!Return, Verdict
    <3> QED
      BY <3>2 DEF Rpc!Next
  <2>4. CASE ~check_conn_is_valid
    <3>1. Verdict(code) = "lost"
      BY <1>a, <2>1, <2>4 DEF Verdict
    <3>2. Rpc!Return
      BY <2>1, <2>2, <2>4, <3>1 DEF Rpc!Return, Verdict
    <3> QED
      BY <3>2 DEF Rpc!Next
  <2> QED
    BY <2>3, <2>4
<1>18. CASE Answer
  <2>1. /\ answered < requests /\ answered' = answered + 1
        /\ reply' \in Replies[op] /\ requests' = requests
        /\ UNCHANGED <<pc, socket, connected, result>>
    BY <1>18 DEF Answer, client
  <2>2. check_conn_is_valid' = check_conn_is_valid
    BY <2>1 DEF check_conn_is_valid
  <2>3. answered' = requests' /\ answered # requests
    BY <1>a, <1>b, <2>1 DEF Asked
  <2>4. reply'.kind \in {"ok", "error"}
    BY <1>b, <2>1, ReplyOK DEF Conforms
  <2>5. pc # "idle" \/ ~check_conn_is_valid
    BY <1>a, <2>3 DEF Asked
  <2>6. Rpc!Answer
    BY <2>1, <2>2, <2>3, <2>4, <2>5 DEF Rpc!Answer, Rpc!Verdicts, Verdict
  <2> QED
    BY <2>6 DEF Rpc!Next
<1>19. CASE Deliver
  <2>1. UNCHANGED <<pc, socket, connected, result, answered, requests, reply>>
    BY <1>19 DEF Deliver, client
  <2> QED
    BY <2>1 DEF Rpc!vars, check_conn_is_valid, Verdict
<1>20. CASE Close
  BY <1>20 DEF Close, Intact
<1>21. CASE UNCHANGED vars
  <2>1. UNCHANGED <<pc, socket, connected, result, answered, requests, reply>>
    BY <1>21 DEF vars, client, stream
  <2> QED
    BY <2>1 DEF Rpc!vars, check_conn_is_valid, Verdict
<1> QED
  BY <1>1, <1>2, <1>3, <1>4, <1>7, <1>8, <1>9, <1>10, <1>11, <1>12,
     <1>13, <1>14, <1>15, <1>16, <1>17, <1>18, <1>19, <1>20, <1>21
     DEF Next, Application, Reading, Device

\* Every call ends with the verdict of the device on its own request, or with
\* the loss of the connection, after which nothing is asked over it: whatever
\* replies are late, and whatever of their data is split or late.
THEOREM ImplementsRpcCorrect ==
    ASSUME Intact
    PROVE  Spec => ImplementsRpc
<1>1. BaseInv /\ RpcInv /\ [Next]_vars => [Rpc!Next]_(Rpc!vars)
  BY RpcStepMaps
<1> QED
  BY <1>1, RpcInitMaps, RpcCorrect, PTL DEF Spec, ImplementsRpc, Rpc!Spec
-----------------------------------------------------------------------------
(***************************************************************************)
(* The data.  While every recv() of a call got what it asked for,          *)
(* msg_length is what is unread of the reply and the fields leave what     *)
(* they announced, whatever was split, late or lost before.                *)
(***************************************************************************)

\* A call that has an answer has that of a device to its own operation.
OwnAnswer == pc # "idle" /\ answered = requests => reply \in Replies[op]

\* A body that is still to be read: before field fld, those before it are.
BodyLeft ==
    /\ answered = requests /\ reply.kind = "ok"
    /\ remain = reply.body - Before(BodyOf(op).fields, fld)
    /\ reply.data = 0 => \A g \in BodyOf(op).gates : g >= fld

DataPlace ==
    sync =>
      /\ pc = "replyHeader" =>
           answered = requests /\ remain = DataLength(reply) /\ reply.kind # "other"
      /\ pc = "field" => remain <= 0 \/ BodyLeft
      /\ pc = "data" => extra = remain /\ remain > 0
      /\ pc = "drain" /\ code = 0 /\ BodyOf(op) # melSetData => remain <= 0

DataInv == check_conn_is_valid => OwnAnswer /\ DataPlace

\* The six ways the operations read a body.
LEMMA BodyShape ==
    ASSUME NEW o \in OpNames
    PROVE  LET b == BodyOf(o)
           IN  \/ b = melSetData /\ b.fields = <<>> /\ b.gates = {} /\ b.tail = "none"
               \/ b.fields = <<>> /\ b.gates = {} /\ b.tail = "rest"
               \/ /\ \E x \in Nat \ {0} : b.fields = <<x>>
                  /\ b.gates = {} /\ b.tail = "headed"
               \/ /\ \E x, y \in Nat \ {0} : b.fields = <<x, y>>
                  /\ b.gates = {} /\ b.tail = "none"
               \/ /\ \E x, y \in Nat \ {0} : b.fields = <<x, y>>
                  /\ b.gates = {2} /\ b.tail = "data"
               \/ /\ \E x, y, z, v \in Nat \ {0} : b.fields = <<x, y, z, v>>
                  /\ b.gates = {2, 4} /\ b.tail = "data"
<1>1. /\ Word \in Nat \ {0} /\ Long \in Nat \ {0} /\ Pointer \in Nat \ {0}
      /\ DataHdr \in Nat \ {0} /\ AxesHdr \in Nat \ {0} /\ StatHdr \in Nat \ {0}
  BY SizeAssumption
<1>2. CASE o \in {"melSetData", "melFsCloseFile", "melRemoveFile",
                  "melFsCloseDirectory", "CancelModal2"}
  BY <1>2 DEF BodyOf, Body, melSetData, melFsCloseFile, melRemoveFile,
              melFsCloseDirectory, CancelModal2
<1>3. CASE o \in {"melGetCurrentAlarmMsg", "melGetCurrentPrgBlock"}
  BY <1>3 DEF BodyOf, Body, melGetCurrentAlarmMsg, melGetCurrentPrgBlock
<1>4. CASE o \in {"melGetData", "melGetDataAxes", "melFSStatFile"}
  BY <1>1, <1>4 DEF BodyOf, Body, melGetData, melGetDataAxes, melFSStatFile
<1>5. CASE o \in {"melFsOpenFile", "melFsCreateFile", "melFsWriteFile",
                  "melFsOpenDirectory"}
  BY <1>1, <1>5 DEF BodyOf, Body, melFsOpenFile, melFsCreateFile,
                    melFsWriteFile, melFsOpenDirectory
<1>6. CASE o = "melFsReadFile"
  BY <1>1, <1>6 DEF BodyOf, Body, melFsReadFile
<1>7. CASE o = "melFsReadDirectory"
  BY <1>1, <1>7 DEF BodyOf, Body, melFsReadDirectory
<1> QED
  BY <1>2, <1>3, <1>4, <1>5, <1>6, <1>7 DEF OpNames

\* Where an operation goes on after a successful reply header.
LEMMA FirstRead ==
    ASSUME op \in OpNames
    PROVE  /\ AfterReceive(0) = "drain" => BodyOf(op) = melSetData
           /\ \A g \in BodyOf(op).gates : g >= 1
<1>1. AfterReceive(0) = IF BodyOf(op).fields # <<>> THEN "field"
                        ELSE IF BodyOf(op).tail = "rest" THEN "rest"
                        ELSE "drain"
  BY DEF AfterReceive
<1>2. /\ BodyOf(op).fields = <<>> /\ BodyOf(op).tail # "rest" =>
           BodyOf(op) = melSetData
      /\ BodyOf(op).gates \in {{}, {2}, {2, 4}}
  <2>1. \A x, y, z, v :
           <<x>> # <<>> /\ <<x, y>> # <<>> /\ <<x, y, z, v>> # <<>>
    OBVIOUS
  <2> QED
    BY <2>1, BodyShape, Zenon
<1> QED
  BY <1>1, <1>2

\* What is left of a body that fits once field k was read.
LEMMA FieldLeft ==
    ASSUME NEW o \in OpNames, NEW r \in ReplyRecords, Fits(o, r),
           BodyOf(o) # melSetData,
           NEW f, f = BodyOf(o).fields, NEW k \in 1..Len(f), NEW left,
           left = r.body - Before(f, k),
           r.data = 0 => \A g \in BodyOf(o).gates : g >= k
    PROVE  /\ f[k] \in Nat \ {0} /\ f[k] <= left
           /\ left - f[k] = r.body - Before(f, k + 1)
           /\ k \in BodyOf(o).gates /\ r.data = 0 => left = f[k]
           /\ r.data = 0 /\ k \notin BodyOf(o).gates =>
                 \A g \in BodyOf(o).gates : g >= k + 1
           /\ k = Len(f) /\ BodyOf(o).tail = "none" => left = f[k]
           /\ BodyOf(o).tail = "headed" => left = f[1] + r.data /\ k = 1
           /\ k = Len(f) /\ BodyOf(o).tail = "data" =>
                 k \in BodyOf(o).gates /\ (r.data # 0 => left = f[k] + r.data)
           /\ BodyOf(o).tail # "rest"
<1> DEFINE b == BodyOf(o)
<1>1. r.body \in Nat /\ r.data \in Nat
  BY DEF ReplyRecords
<1>2. ASSUME NEW x \in Nat \ {0}, b.fields = <<x>>, b.gates = {},
             b.tail = "headed"
      PROVE  /\ k = 1 /\ Len(f) = 1 /\ f[1] = x /\ left = r.body
             /\ Before(f, 2) = x /\ r.body = x + r.data
  BY <1>1, <1>2 DEF Before, Fits
<1>3. ASSUME NEW x \in Nat \ {0}, NEW y \in Nat \ {0}, b.fields = <<x, y>>
      PROVE  /\ Len(f) = 2 /\ k \in {1, 2} /\ f[1] = x /\ f[2] = y
             /\ Before(f, 1) = 0 /\ Before(f, 2) = x /\ Before(f, 3) = x + y
  BY <1>3 DEF Before
<1>4. ASSUME NEW x \in Nat \ {0}, NEW y \in Nat \ {0},
             NEW z \in Nat \ {0}, NEW v \in Nat \ {0},
             b.fields = <<x, y, z, v>>
      PROVE  /\ Len(f) = 4 /\ k \in {1, 2, 3, 4}
             /\ f[1] = x /\ f[2] = y /\ f[3] = z /\ f[4] = v
             /\ Before(f, 1) = 0 /\ Before(f, 2) = x /\ Before(f, 3) = x + y
             /\ Before(f, 4) = x + y + z /\ Before(f, 5) = x + y + z + v
  BY <1>4 DEF Before
<1>5. /\ b.tail = "none" => r.body = Before(f, Len(f) + 1)
      /\ b.tail = "data" =>
           r.body = IF r.data = 0 THEN Before(f, 3)
                                  ELSE Before(f, Len(f) + 1) + r.data
  BY DEF Fits
<1> HIDE DEF b
<1>6. CASE \E x \in Nat \ {0} : b.fields = <<x>> /\ b.gates = {} /\ b.tail = "headed"
  BY <1>1, <1>2, <1>6 DEF b
<1>7. CASE \E x, y \in Nat \ {0} : b.fields = <<x, y>> /\ b.gates = {} /\ b.tail = "none"
  BY <1>1, <1>3, <1>5, <1>7 DEF b
<1>8. CASE \E x, y \in Nat \ {0} : b.fields = <<x, y>> /\ b.gates = {2} /\ b.tail = "data"
  BY <1>1, <1>3, <1>5, <1>8 DEF b
<1>9. CASE \E x, y, z, v \in Nat \ {0} :
             b.fields = <<x, y, z, v>> /\ b.gates = {2, 4} /\ b.tail = "data"
  <2>1. PICK x, y, z, v \in Nat \ {0} :
             b.fields = <<x, y, z, v>> /\ b.gates = {2, 4} /\ b.tail = "data"
    BY <1>9
  <2>2. CASE k = 1
    BY <1>1, <1>4, <1>5, <2>1, <2>2 DEF b
  <2>3. CASE k = 2
    BY <1>1, <1>4, <1>5, <2>1, <2>3 DEF b
  <2>4. CASE k = 3
    BY <1>1, <1>4, <1>5, <2>1, <2>4 DEF b
  <2>5. CASE k = 4
    BY <1>1, <1>4, <1>5, <2>1, <2>5 DEF b
  <2> QED
    BY <1>4, <2>1, <2>2, <2>3, <2>4, <2>5
<1>10. f # <<>>
  OBVIOUS
<1> QED
  BY <1>6, <1>7, <1>8, <1>9, <1>10, BodyShape DEF b

LEMMA DataInit == Init => DataInv
<1> SUFFICES ASSUME Init
             PROVE  DataInv
  OBVIOUS
<1>1. ~check_conn_is_valid
  BY Zenon DEF Init, check_conn_is_valid
<1> QED
  BY <1>1 DEF DataInv

\* A step after a read that came short, or to a place where nothing of the
\* data is left to read.
LEMMA DataVacuous ==
    ASSUME OwnAnswer',
           \/ ~sync'
           \/ /\ pc' \notin {"replyHeader", "field", "data"}
              /\ pc' = "drain" =>
                   remain' <= 0 \/ code' # 0 \/ (BodyOf(op) = melSetData)'
    PROVE  DataInv'
  BY DEF DataInv, DataPlace

\* Nothing of a reply is left where msg_length is used up: a field read then
\* comes short.
LEMMA NothingLeft ==
    ASSUME TypeOK, StreamInv, check_conn_is_valid,
           pc \notin {"idle", "header"}, remain <= 0,
           NEW w \in Nat \ {0}, NEW rl \in RecvResults(w)
    PROVE  rl # w
<1>1. own = avail + coming /\ own <= remain
  BY DEF StreamInv
<1>2. avail = 0
  BY <1>1 DEF TypeOK
<1>3. rl <= 0
  BY <1>2 DEF RecvResults
<1> QED
  BY <1>3

\* The header read whole, and in place, is that of an answer to this call.
LEMMA HeaderInPlace ==
    ASSUME TypeOK, StreamInv, DataInv, RecvHeader, sync', check_conn_is_valid
    PROVE  /\ answered = requests /\ reply \in Replies[op]
           /\ pc' \in {"replyHeader", "excDrain"} /\ remain' = DataLength(reply)
           /\ pc' = "replyHeader" => reply.kind # "other"
<1>1. PICK rl \in RecvResults(GiopHdr) :
         /\ rl = GiopHdr
         /\ \E h \in Headers : HeaderRead(h)
         /\ fresh /\ own = avail + coming
  BY Zenon DEF RecvHeader
<1>2. GiopHdr \in Nat \ {0} /\ avail \in Nat /\ coming \in Nat
  BY SizeAssumption DEF TypeOK
<1>3. own > 0 /\ pc = "header"
  <2>1. GiopHdr <= avail
    BY <1>1, <1>2, RecvResult
  <2> QED
    BY <1>1, <1>2, <2>1 DEF RecvHeader
<1>4. answered = requests /\ reply \in Replies[op]
  BY <1>3 DEF StreamInv, DataInv, OwnAnswer
<1>5. HeaderRead([isReply |-> reply.kind # "other", length |-> DataLength(reply)])
  BY <1>1, Zenon DEF Headers
<1> QED
  BY <1>4, <1>5 DEF HeaderRead

\* The data is read as the fields announced it.
LEMMA DataStep ==
    ASSUME Fitting, BaseInv, DataInv, [Next]_vars
    PROVE  DataInv'
<1>a. /\ TypeOK /\ FieldOK /\ StreamInv
      /\ check_conn_is_valid => OwnAnswer /\ DataPlace
      /\ pc \notin {"idle", "drain"} => check_conn_is_valid
      /\ check_conn_is_valid => answered <= requests
  BY DEF BaseInv, TypeInv, LostInv, StreamInv, DataInv
<1>b. /\ own \in Nat /\ remain \in Int /\ op \in Ops /\ op \in OpNames
      /\ reply \in ReplyRecords /\ extra \in Int /\ fld \in 1..4
      /\ reply.body \in Nat /\ reply.data \in Nat
      /\ requests \in Nat /\ answered \in Nat
  BY <1>a, SizeAssumption DEF TypeOK, ReplyRecords
<1>c. ReplyHdr \in Nat \ {0}
  BY SizeAssumption
\* A recv() inside the reply leaves the answer as it is.
<1>d. ASSUME NEW w, NEW rl, Recv(w, rl), check_conn_is_valid, pc # "idle"
      PROVE  /\ OwnAnswer' /\ UNCHANGED <<op, answered, requests, reply>>
             /\ check_conn_is_valid' /\ remain' = Less(remain, rl)
             /\ sync' => sync /\ rl = w
  <2>1. UNCHANGED <<op, answered, requests, reply, socket, connected>>
        /\ remain' = Less(remain, rl)
    BY <1>d DEF Recv, Consumed
  <2>2. sync' => sync /\ rl = w
    BY <1>d, Zenon DEF Recv
  <2> QED
    BY <1>a, <1>d, <2>1, <2>2 DEF OwnAnswer, check_conn_is_valid
\* What is read whole comes off msg_length.
<1>e. ASSUME NEW w \in Nat \ {0}
      PROVE  Less(remain, w) = remain - w
  BY <1>b, LessBound
\* A successful answer fits what the operation reads of it.
<1>f. ASSUME reply \in Replies[op]
      PROVE  reply.kind # "none" /\ (reply.kind = "ok" => Fits(op, reply))
  BY <1>b, <1>f DEF Fitting
<1>1. CASE giop_connect
  <2>1. pc' = "idle"
    BY <1>1 DEF giop_connect
  <2> QED
    BY <2>1, DataVacuous DEF OwnAnswer
<1>2. CASE giop_disconnect
  <2>1. pc' = "idle"
    BY <1>2 DEF giop_disconnect
  <2> QED
    BY <2>1, DataVacuous DEF OwnAnswer
<1>3. ASSUME NEW o \in Ops, SendRequest(o)
      PROVE  DataInv'
  <2>1. pc' = "header" /\ requests' = requests + 1 /\ answered' = answered
        /\ check_conn_is_valid
    BY <1>3 DEF SendRequest
  <2>2. answered' # requests'
    BY <1>a, <1>b, <2>1
  <2> QED
    BY <2>1, <2>2, DataVacuous DEF OwnAnswer
<1>4. ASSUME NEW o \in Ops, Refuse(o)
      PROVE  DataInv'
  <2>1. pc' = "idle"
    BY <1>4 DEF Refuse
  <2> QED
    BY <2>1, DataVacuous DEF OwnAnswer
<1>5. CASE RecvHeader
  <2>1. /\ check_conn_is_valid /\ pc = "header"
        /\ UNCHANGED <<op, answered, requests, reply>>
    BY <1>5, <1>a DEF RecvHeader, Consumed
  <2>2. OwnAnswer'
    BY <1>a, <2>1 DEF OwnAnswer
  <2>3. CASE ~sync'
    BY <2>2, <2>3, DataVacuous
  <2>4. CASE sync'
    <3>1. /\ answered = requests /\ pc' \in {"replyHeader", "excDrain"}
          /\ remain' = DataLength(reply)
          /\ pc' = "replyHeader" => reply.kind # "other"
      BY <1>5, <1>a, <2>1, <2>4, HeaderInPlace DEF BaseInv
    <3>2. CASE pc' = "excDrain"
      BY <2>2, <3>2, DataVacuous
    <3>3. CASE pc' = "replyHeader"
      <4>1. remain' = DataLength(reply') /\ answered' = requests'
            /\ reply'.kind # "other"
        BY <2>1, <3>1, <3>3
      <4> QED
        BY <2>2, <3>3, <4>1 DEF DataInv, DataPlace
    <3> QED
      BY <3>1, <3>2, <3>3
  <2> QED
    BY <2>3, <2>4
<1>6. CASE RecvReplyHeader
  <2>1. PICK rl \in RecvResults(ReplyHdr) :
           /\ Recv(ReplyHdr, rl)
           /\ \E is_error \in IsErrors(rl) :
                pc' = IF is_error THEN "excLength" ELSE AfterReceive(0)
           /\ fld' = fld
    BY <1>6 DEF RecvReplyHeader
  <2>2. pc = "replyHeader" /\ check_conn_is_valid /\ fld = 1
    BY <1>6, <1>a DEF RecvReplyHeader, FieldOK
  <2>3. /\ OwnAnswer' /\ UNCHANGED <<op, answered, requests, reply>>
        /\ remain' = Less(remain, rl) /\ (sync' => sync /\ rl = ReplyHdr)
    BY <1>d, <2>1, <2>2
  <2>4. CASE ~sync'
    BY <2>3, <2>4, DataVacuous
  <2>5. CASE sync'
    <3>1. /\ sync /\ rl = ReplyHdr /\ remain = DataLength(reply)
          /\ answered = requests /\ reply \in Replies[op]
          /\ reply.kind # "other"
      BY <1>a, <2>2, <2>3, <2>5 DEF DataPlace, OwnAnswer
    <3>2. IsErrors(rl) = {reply.kind = "error"}
      <4>1. ~(rl <= 0)
        BY <1>c, <3>1
      <4> QED
        BY <3>1, <4>1, Zenon DEF IsErrors
    <3>3. reply.kind \in {"ok", "error"}
      BY <1>b, <1>f, <3>1 DEF ReplyRecords
    <3>4. CASE reply.kind = "error"
      <4>1. pc' = "excLength"
        BY <2>1, <3>2, <3>4
      <4> QED
        BY <2>3, <4>1, DataVacuous
    <3>5. CASE reply.kind = "ok"
      <4>1. pc' = AfterReceive(0)
        BY <2>1, <3>2, <3>5
      <4>2. pc' \in {"field", "rest", "drain"}
        BY <1>a, <4>1, AfterReceiveType DEF Codes
      <4>3. CASE pc' = "drain"
        BY <1>b, <2>3, <4>1, <4>3, FirstRead, DataVacuous
      <4>4. CASE pc' = "rest"
        BY <2>3, <4>4, DataVacuous
      <4>5. CASE pc' = "field"
        <5>1. remain' = reply.body
          <6>1. remain = ReplyHdr + reply.body
            BY <3>1, <3>5 DEF DataLength
          <6>2. remain' = remain - ReplyHdr
            BY <1>c, <1>e, <2>3, <3>1
          <6> QED
            BY <1>b, <1>c, <6>1, <6>2
        <5>2. fld' = 1 /\ Before(BodyOf(op).fields, 1) = 0
          BY <2>1, <2>2 DEF Before
        <5>3. remain' = reply'.body - Before(BodyOf(op').fields, fld')
          BY <1>b, <2>3, <5>1, <5>2
        <5>4. \A g \in BodyOf(op').gates : g >= fld'
          BY <1>b, <2>3, <5>2, FirstRead
        <5>5. BodyLeft'
          BY <2>3, <3>1, <3>5, <5>3, <5>4 DEF BodyLeft
        <5> QED
          BY <2>3, <4>5, <5>5 DEF DataInv, DataPlace
      <4> QED
        BY <4>2, <4>3, <4>4, <4>5
    <3> QED
      BY <3>3, <3>4, <3>5
  <2> QED
    BY <2>4, <2>5
<1>7. CASE RecvExcLength
  <2>1. PICK rl : Recv(Word, rl)
    BY <1>7 DEF RecvExcLength
  <2>2. pc = "excLength" /\ pc' = "excText"
    BY <1>7 DEF RecvExcLength
  <2>3. OwnAnswer'
    BY <1>a, <1>d, <2>1, <2>2
  <2> QED
    BY <2>2, <2>3, DataVacuous
<1>8. CASE RecvExcText
  <2>1. pc = "excText" /\ pc' \in {"excText", "excPack"}
    BY <1>8 DEF RecvExcText
  <2>2. CASE extra > 0
    <3>1. PICK rl : Recv(1, rl)
      BY <1>8, <2>2 DEF RecvExcText
    <3>2. OwnAnswer'
      BY <1>a, <1>d, <2>1, <3>1
    <3> QED
      BY <2>1, <3>2, DataVacuous
  <2>3. CASE ~(extra > 0)
    <3>1. UNCHANGED <<op, answered, requests, reply>>
      BY <1>8, <2>3 DEF RecvExcText, stream
    <3>2. OwnAnswer'
      BY <1>a, <2>1, <3>1 DEF OwnAnswer
    <3> QED
      BY <2>1, <3>2, DataVacuous
  <2> QED
    BY <2>2, <2>3
<1>9. CASE RecvExcPack
  <2>1. PICK rl : Recv(ErrPack, rl)
    BY <1>9 DEF RecvExcPack
  <2>2. pc = "excPack" /\ pc' = "excDrain"
    BY <1>9 DEF RecvExcPack
  <2>3. OwnAnswer'
    BY <1>a, <1>d, <2>1, <2>2
  <2> QED
    BY <2>2, <2>3, DataVacuous
<1>10. CASE DrainException
  <2>1. pc = "excDrain" /\ check_conn_is_valid
    BY <1>10, <1>a DEF DrainException
  <2>2. CASE remain > 0
    <3>1. PICK rl : Recv(1, rl)
      BY <1>10, <2>2 DEF DrainException
    <3>2. pc' = "excDrain"
      BY <1>10, <2>1, <2>2 DEF DrainException
    <3>3. OwnAnswer'
      BY <1>d, <2>1, <3>1
    <3> QED
      BY <3>2, <3>3, DataVacuous
  <2>3. CASE ~(remain > 0)
    <3>1. /\ UNCHANGED <<op, answered, requests, reply, remain, code>>
          /\ pc' = AfterReceive(code)
      BY <1>10, <2>3 DEF DrainException, stream
    <3>2. OwnAnswer'
      BY <1>a, <2>1, <3>1 DEF OwnAnswer
    <3>3. pc' \in {"field", "rest", "drain"} /\ remain' <= 0
      BY <1>a, <1>b, <2>3, <3>1, AfterReceiveType DEF TypeOK
    <3> QED
      BY <3>2, <3>3 DEF DataInv, DataPlace
  <2> QED
    BY <2>2, <2>3
<1>11. CASE RecvField
  <2> DEFINE body == BodyOf(op)
             w == body.fields[fld]
             announces == fld \in body.gates \/ body.tail = "headed"
  <2>1. PICK rl \in RecvResults(w) :
           /\ Recv(w, rl)
           /\ extra' \in IF announces THEN Field(rl, w, reply.data)
                                      ELSE {extra}
    BY <1>11 DEF RecvField
  <2>2. /\ pc = "field" /\ pc' = AfterField(extra', remain)
        /\ fld' = IF pc' = "field" THEN fld + 1 ELSE fld
    BY <1>11 DEF RecvField
  <2>3. /\ OwnAnswer' /\ UNCHANGED <<op, answered, requests, reply>>
        /\ remain' = Less(remain, rl) /\ (sync' => sync /\ rl = w)
        /\ check_conn_is_valid
    <3> HIDE DEF w
    <3> QED
      BY <1>a, <1>d, <2>1, <2>2
  <2>4. CASE ~sync'
    BY <2>3, <2>4, DataVacuous
  <2>5. CASE sync'
    <3>1. fld \in 1..Len(body.fields) /\ w \in Nat \ {0}
      BY <1>a, <1>b, <2>2, BodyType DEF FieldOK
    <3>2. BodyLeft /\ sync /\ rl = w /\ reply \in Replies[op] /\ Fits(op, reply)
      <4> HIDE DEF w
      <4>1. sync /\ rl = w
        BY <2>3, <2>5
      <4>2. ~(remain <= 0)
        BY <1>a, <2>1, <2>2, <2>3, <3>1, <4>1, NothingLeft
      <4>3. BodyLeft
        BY <1>a, <2>2, <2>3, <4>1, <4>2 DEF DataPlace
      <4>4. reply \in Replies[op] /\ reply.kind = "ok"
        BY <1>a, <2>2, <2>3, <4>3 DEF OwnAnswer, BodyLeft
      <4> QED
        BY <1>f, <4>1, <4>3, <4>4
    <3>3. body # melSetData
      <4>1. ASSUME body = melSetData
            PROVE  Len(body.fields) = 0
        BY <4>1 DEF melSetData, Body
      <4> QED
        BY <1>b, <3>1, <4>1
    <3>4. /\ w <= remain
          /\ remain - w = reply.body - Before(body.fields, fld + 1)
          /\ fld \in body.gates /\ reply.data = 0 => remain = w
          /\ reply.data = 0 /\ fld \notin body.gates =>
                \A g \in body.gates : g >= fld + 1
          /\ fld = Len(body.fields) /\ body.tail = "none" => remain = w
          /\ body.tail = "headed" =>
                remain = body.fields[1] + reply.data /\ fld = 1
          /\ fld = Len(body.fields) /\ body.tail = "data" =>
                fld \in body.gates /\ (reply.data # 0 => remain = w + reply.data)
          /\ body.tail # "rest"
      <4>1. /\ remain = reply.body - Before(body.fields, fld)
            /\ reply.data = 0 => \A g \in body.gates : g >= fld
        BY <3>2 DEF BodyLeft
      <4> HIDE DEF body
      <4>2. body = BodyOf(op)
        BY DEF body
      <4> QED
        BY <1>b, <3>1, <3>2, <3>3, <4>1, <4>2, FieldLeft
    <3>5. remain' = remain - w
      <4> HIDE DEF w
      <4> QED
        BY <1>e, <2>3, <3>1, <3>2
    <3>6. announces => extra' = reply.data
      <4>1. Field(rl, w, reply.data) = {reply.data}
        BY <3>2, Zenon DEF Field
      <4> QED
        BY <2>1, <4>1
    <3>7. pc' \in {"field", "data", "drain"}
      BY <2>2 DEF AfterField
    <3>8. CASE pc' = "field"
      <4>1. fld' = fld + 1 /\ ~(fld \in body.gates /\ extra' = 0)
        BY <2>2, <3>8 DEF AfterField
      <4>2. reply.data = 0 => fld \notin body.gates
        BY <3>6, <4>1
      <4>3. remain' = reply.body - Before(body.fields, fld')
        BY <3>4, <3>5, <4>1
      <4>4. reply.data = 0 => \A g \in body.gates : g >= fld'
        BY <3>4, <4>1, <4>2
      <4>5. BodyLeft'
        BY <2>3, <3>2, <4>3, <4>4 DEF BodyLeft
      <4> QED
        BY <2>3, <3>8, <4>5 DEF DataInv, DataPlace
    <3>9. CASE pc' = "data"
      <4>1. /\ ~(fld \in body.gates /\ extra' = 0)
            /\ ~(fld < Len(body.fields))
            /\ \/ body.tail = "data"
               \/ body.tail = "headed" /\ remain > body.fields[1]
        BY <2>2, <3>9 DEF AfterField
      <4>2. fld = Len(body.fields)
        BY <1>b, <3>1, <4>1
      <4>3. remain = w + extra' /\ extra' = reply.data /\ extra' # 0
        BY <1>b, <3>1, <3>4, <3>6, <4>1, <4>2
      <4>4. extra' = remain' /\ remain' > 0
        BY <1>b, <3>1, <3>5, <4>3
      <4> QED
        BY <2>3, <3>9, <4>4 DEF DataInv, DataPlace
    <3>10. CASE pc' = "drain"
      <4>1. \/ fld \in body.gates /\ extra' = 0
            \/ /\ ~(fld < Len(body.fields)) /\ body.tail # "data"
               /\ ~(body.tail = "headed" /\ remain > body.fields[1])
        BY <2>2, <3>10 DEF AfterField
      <4>2. remain = w
        <5>1. CASE fld \in body.gates /\ extra' = 0
          BY <3>4, <3>6, <5>1
        <5>2. CASE /\ ~(fld < Len(body.fields)) /\ body.tail # "data"
                   /\ ~(body.tail = "headed" /\ remain > body.fields[1])
          <6>1. fld = Len(body.fields)
            BY <1>b, <3>1, <5>2
          <6>2. body.tail \in {"none", "headed", "rest", "data"}
            BY <1>b, BodyShape DEF melSetData, Body
          <6>3. CASE body.tail = "none"
            BY <3>4, <6>1, <6>3
          <6>4. CASE body.tail = "headed"
            <7>1. fld = 1 /\ remain = w + reply.data /\ ~(remain > w)
              BY <3>4, <5>2, <6>4
            <7> HIDE DEF w
            <7> QED
              BY <1>b, <3>1, <7>1
          <6> QED
            BY <3>4, <5>2, <6>2, <6>3, <6>4
        <5> QED
          BY <4>1, <5>1, <5>2
      <4>3. remain' <= 0
        BY <1>b, <3>1, <3>5, <4>2
      <4> QED
        BY <2>3, <3>10, <4>3, DataVacuous
    <3> QED
      BY <3>7, <3>8, <3>9, <3>10
  <2> QED
    BY <2>4, <2>5
<1>12. CASE RecvData
  <2>1. PICK rl \in RecvResults(extra) : Recv(extra, rl)
    BY <1>12 DEF RecvData
  <2>2. pc = "data" /\ pc' = "drain" /\ check_conn_is_valid
    BY <1>12, <1>a DEF RecvData
  <2>3. /\ OwnAnswer' /\ remain' = Less(remain, rl)
        /\ sync' => sync /\ rl = extra
    BY <1>d, <2>1, <2>2
  <2>4. sync' => remain' <= 0
    <3>1. ASSUME sync'
          PROVE  extra = remain /\ remain \in Nat \ {0} /\ rl = remain
      BY <1>a, <1>b, <2>2, <2>3, <3>1 DEF DataPlace
    <3> QED
      BY <1>e, <2>3, <3>1
  <2> QED
    BY <2>2, <2>3, <2>4, DataVacuous
<1>13. CASE RecvRest
  <2>1. PICK rl \in RecvResults(remain) : Recv(remain, rl)
    BY <1>13 DEF RecvRest
  <2>2. pc = "rest" /\ pc' = "drain" /\ check_conn_is_valid
    BY <1>13, <1>a DEF RecvRest
  <2>3. /\ OwnAnswer' /\ remain' = Less(remain, rl) /\ (sync' => rl = remain)
    BY <1>d, <2>1, <2>2
  <2>4. sync' => remain' <= 0
    <3>1. CASE remain > 0
      BY <1>b, <1>e, <2>3, <3>1
    <3>2. CASE remain <= 0
      <4>1. rl = 0
        BY <2>1, <3>2 DEF RecvResults
      <4> QED
        BY <1>b, <2>3, <3>2, <4>1 DEF Less
    <3> QED
      BY <1>b, <3>1, <3>2
  <2> QED
    BY <2>2, <2>3, <2>4, DataVacuous
<1>14. CASE Drain
  <2>1. PICK rl : Recv(1, rl)
    BY <1>14 DEF Drain
  <2>2. pc = "drain" /\ pc' = pc /\ remain > 0 /\ check_conn_is_valid
        /\ code' = code
    BY <1>14 DEF Drain
  <2>3. OwnAnswer' /\ op' = op /\ (sync' => sync)
    BY <1>d, <2>1, <2>2
  <2>4. sync => code # 0 \/ BodyOf(op) = melSetData
    BY <1>a, <1>b, <2>2 DEF DataPlace
  <2> QED
    BY <2>2, <2>3, <2>4, DataVacuous
<1>15. CASE Return
  <2>1. pc' = "idle"
    BY <1>15 DEF Return
  <2> QED
    BY <2>1, DataVacuous DEF OwnAnswer
<1>16. CASE Answer
  <2>1. /\ answered < requests /\ ~eof /\ reply' \in Replies[op]
        /\ UNCHANGED <<op, pc, socket, connected>>
    BY <1>16 DEF Answer, client
  <2>2. check_conn_is_valid' = check_conn_is_valid
    BY <2>1 DEF check_conn_is_valid
  <2>3. check_conn_is_valid => pc' \in {"idle", "header"}
    BY <1>a, <1>b, <2>1 DEF StreamInv
  <2>4. OwnAnswer'
    BY <2>1 DEF OwnAnswer
  <2> QED
    BY <2>2, <2>3, <2>4 DEF DataInv, DataPlace
<1>17. CASE Deliver
  BY <1>17, <1>a DEF Deliver, client, DataInv, DataPlace, OwnAnswer, BodyLeft,
                     check_conn_is_valid
<1>18. CASE Close
  BY <1>18, <1>a DEF Close, client, DataInv, DataPlace, OwnAnswer, BodyLeft,
                     check_conn_is_valid
<1>19. CASE UNCHANGED vars
  BY <1>19, <1>a DEF vars, client, stream, DataInv, DataPlace, OwnAnswer,
                     BodyLeft, check_conn_is_valid
<1> QED
  BY <1>1, <1>2, <1>3, <1>4, <1>5, <1>6, <1>7, <1>8, <1>9, <1>10, <1>11,
     <1>12, <1>13, <1>14, <1>15, <1>16, <1>17, <1>18, <1>19
     DEF Next, Application, Reading, Device

\* Whatever is split inside a reply, late, broken off or no reply at all: a
\* call loses data of an answer that fits the operation only by a read of its
\* own that did not get what it asked for.
THEOREM DataWholeCorrect ==
    ASSUME Fitting
    PROVE  Spec => []DataWhole
<1>1. Init => BaseInv /\ DataInv
  BY TypeInit, StreamInit, LostInit, DataInit DEF BaseInv
<1>2. BaseInv /\ DataInv /\ [Next]_vars => (BaseInv /\ DataInv)'
  BY BaseStep, DataStep DEF Fitting
<1>3. BaseInv /\ DataInv => DataWhole
  BY DEF BaseInv, LostInv, DataInv, DataPlace, DataWhole
<1> QED
  BY <1>1, <1>2, <1>3, PTL DEF Spec
=============================================================================
