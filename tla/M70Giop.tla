------------------------------ MODULE M70Giop ------------------------------
(***************************************************************************)
(* The GIOP transaction of m70_giop.c over one TCP connection (socket.c).  *)
(*                                                                         *)
(* The application thread calls one mel* operation at a time.  The call    *)
(* sends a request, reads the GIOP header, the reply header, an exception  *)
(* or a body, and drains what is left, one recv() per step.  The device,   *)
(* external to the repository, answers the requests of a connection in     *)
(* order.  The byte stream between them is kept as counters:               *)
(*   coming   sent by the device, not yet in the receive buffer            *)
(*   avail    in the receive buffer, not yet read                          *)
(*   own      unread bytes that belong to the latest reply                 *)
(* so that avail + coming - own bytes are left over from earlier replies.  *)
(***************************************************************************)
EXTENDS Integers, Sequences

CONSTANTS
    GiopHdr,    \* sizeof(giop_header)
    ReplyHdr,   \* sizeof(response_pack_header)
    Word,       \* sizeof(uint32): exceptionLen, handles, return values
    Long,       \* sizeof(long), 4 or 8 by platform
    Pointer,    \* sizeof(long*), what melFsWriteFile reads into a long
    ErrPack,    \* sizeof(mel_error_code)
    DataHdr,    \* sizeof(get_data_response_header)
    AxesHdr,    \* sizeof(get_data_float_bin_response_header)
    StatHdr,    \* sizeof(FS_stat_file_response_header)
    Ops,        \* the operations the application uses
    Replies,    \* the replies the device may give to each of them
    Junk,       \* what a misread length field may hold
    SplitAt,    \* reads that may find only part of their bytes in the buffer
    StallAt,    \* reads at which the device may be silent for over 5 s
    MayClose,   \* whether the device may close the connection
    MaxRequests,\* bound: requests sent over one connection
    RemainCap   \* bound: a failed recv() counts remain up only to here

(***************************************************************************)
(* What each operation reads after a reply without error: fixed-size       *)
(* fields in order; `gates', the fields whose value 0 ends the reading;    *)
(* and a tail: nothing, everything that remains ("rest"), or as many bytes *)
(* as the last field announced ("data"; "headed" if anything remains).     *)
(* `refused' is what the operation returns on an invalid connection.       *)
(***************************************************************************)
Body(fields, gates, tail, refused) ==
    [fields |-> fields, gates |-> gates, tail |-> tail, refused |-> refused]

melGetData             == Body(<<DataHdr>>, {}, "headed", -1)
melGetDataAxes         == Body(<<AxesHdr>>, {}, "headed", -1)
melSetData             == Body(<<>>, {}, "none", 1)
melGetCurrentAlarmMsg  == Body(<<>>, {}, "rest", 1)
melGetCurrentPrgBlock  == Body(<<>>, {}, "rest", 1)
melFsOpenFile          == Body(<<Long, Word>>, {}, "none", 1)
melFsReadFile          == Body(<<Long, Long>>, {2}, "data", 1)
melFsCloseFile         == Body(<<>>, {}, "none", 1)
melFsCreateFile        == Body(<<Word, Word>>, {}, "none", 1)
melRemoveFile          == Body(<<>>, {}, "none", 1)
melFsWriteFile         == Body(<<Long, Pointer>>, {}, "none", 1)
melFSStatFile          == Body(<<StatHdr>>, {}, "headed", 1)
melFsOpenDirectory     == Body(<<Word, Word>>, {}, "none", 1)
melFsCloseDirectory    == Body(<<>>, {}, "none", 1)
melFsReadDirectory     == Body(<<Long, Long, Long, Long>>, {2, 4}, "data", 1)
CancelModal2           == Body(<<>>, {}, "none", 1)

BodyOf(o) ==
    CASE o = "melGetData"            -> melGetData
      [] o = "melGetDataAxes"        -> melGetDataAxes
      [] o = "melSetData"            -> melSetData
      [] o = "melGetCurrentAlarmMsg" -> melGetCurrentAlarmMsg
      [] o = "melGetCurrentPrgBlock" -> melGetCurrentPrgBlock
      [] o = "melFsOpenFile"         -> melFsOpenFile
      [] o = "melFsReadFile"         -> melFsReadFile
      [] o = "melFsCloseFile"        -> melFsCloseFile
      [] o = "melFsCreateFile"       -> melFsCreateFile
      [] o = "melRemoveFile"         -> melRemoveFile
      [] o = "melFsWriteFile"        -> melFsWriteFile
      [] o = "melFSStatFile"         -> melFSStatFile
      [] o = "melFsOpenDirectory"    -> melFsOpenDirectory
      [] o = "melFsCloseDirectory"   -> melFsCloseDirectory
      [] o = "melFsReadDirectory"    -> melFsReadDirectory
      [] o = "CancelModal2"          -> CancelModal2

OpNames ==
    {"melGetData", "melGetDataAxes", "melSetData", "melGetCurrentAlarmMsg",
     "melGetCurrentPrgBlock", "melFsOpenFile", "melFsReadFile",
     "melFsCloseFile", "melFsCreateFile", "melRemoveFile", "melFsWriteFile",
     "melFSStatFile", "melFsOpenDirectory", "melFsCloseDirectory",
     "melFsReadDirectory", "CancelModal2"}

\* A return value: 0 success, -1 socket exception, 1 any other error code.
Codes == {-1, 0, 1}

(***************************************************************************)
(* A reply of the device: `kind' is its GIOP message type and is_error,    *)
(* `code' the error_code of an exception, `exc' the length of its text,    *)
(* `body' the bytes after the reply header, `data' the length they announce*)
(***************************************************************************)
ReplyRecords ==
    [kind : {"none", "ok", "error", "other"}, code : Codes,
     exc : Nat, body : Nat, data : Nat]

NoReply == [kind |-> "none", code |-> 0, exc |-> 0, body |-> 0, data |-> 0]

\* data_length in the reply's GIOP header, and the reply's bytes on the wire.
DataLength(r) ==
    CASE r.kind = "ok"    -> ReplyHdr + r.body
      [] r.kind = "error" -> ReplyHdr + Word + r.exc + ErrPack
      [] OTHER            -> r.body
WireLength(r) == GiopHdr + DataLength(r)

\* The reads of a call, by where they stand in m70_giop.c.
ReadPoints == {"header", "replyHeader", "excLength", "excText", "excPack",
               "excDrain", "field", "data", "rest", "drain"}

ASSUME SizeAssumption ==
    /\ {GiopHdr, ReplyHdr, Word, Long, Pointer, ErrPack, DataHdr, AxesHdr,
        StatHdr} \subseteq Nat \ {0}
    /\ Ops \subseteq OpNames
    /\ Replies \in [Ops -> SUBSET ReplyRecords]
    /\ Junk \subseteq Int
    /\ SplitAt \subseteq ReadPoints
    /\ StallAt \subseteq ReadPoints
    /\ MayClose \in BOOLEAN
    /\ MaxRequests \in Nat
    /\ RemainCap \in Nat

VARIABLES
    pc,         \* "idle" or the read the call is at
    op,         \* the operation of the current or last call
    fld,        \* index of the fixed field being read
    remain,     \* msg_length, *remain_length: bytes the reply still owes
    extra,      \* exceptionLen, dataLen, *read_size: an announced length
    code,       \* the call's code
    socket,     \* conn->socket > 0
    connected,  \* conn->connected
    result,     \* what the last call returned
    sync,       \* history: every read of this call got what it asked for
    coming, avail, own, fresh, eof,     \* the byte stream, see above; fresh:
                                        \* no byte of the latest reply is read
    requests, answered,                 \* sent and answered on this connection
    reply                               \* the latest reply of the device

client == <<pc, op, fld, remain, extra, code, socket, connected, result,
            sync>>
stream == <<coming, avail, own, fresh, eof, requests, answered, reply>>
vars   == <<client, stream>>

TypeOK ==
    /\ pc \in ReadPoints \union {"idle"}
    /\ op \in Ops /\ fld \in 1..4
    /\ remain \in Int /\ extra \in Int
    /\ code \in Codes /\ result \in Codes
    /\ socket \in BOOLEAN /\ connected \in BOOLEAN
    /\ sync \in BOOLEAN
    /\ coming \in Nat /\ avail \in Nat /\ own \in Nat
    /\ fresh \in BOOLEAN /\ eof \in BOOLEAN
    /\ requests \in Nat /\ answered \in Nat
    /\ reply \in ReplyRecords

\* Mutant: conn->connected is not looked at.
check_conn_is_valid_Socket == socket

check_conn_is_valid == socket /\ connected

Init ==
    /\ pc = "idle" /\ op \in Ops /\ fld = 1
    /\ remain = 0 /\ extra = 0 /\ code = 0 /\ result = 0
    /\ socket = FALSE /\ connected = FALSE /\ sync = TRUE
    /\ coming = 0 /\ avail = 0 /\ own = 0 /\ fresh = FALSE /\ eof = FALSE
    /\ requests = 0 /\ answered = 0 /\ reply = NoReply
-----------------------------------------------------------------------------
(***************************************************************************)
(* socket_recv_data_one_loop: one recv() of at most w bytes.  It returns   *)
(* what the buffer has, 0 at end of file, -1 when SO_RCVTIMEO expires or   *)
(* the peer that closed before answering resets the connection; EINTR      *)
(* starts it again.  A read outside SplitAt finds all its bytes, or all    *)
(* that will ever come, in the buffer.                                     *)
(***************************************************************************)
RecvResults(w) ==
    IF w <= 0 THEN {0} ELSE
      (IF avail >= w THEN {w} ELSE {})
      \union
      (IF avail \in 1..(w - 1) /\ (pc \in SplitAt \/ coming = 0)
         THEN {avail} ELSE {})
      \union
      (IF avail = 0 /\ coming = 0 /\ eof THEN {0} ELSE {})
      \union
      (IF avail = 0 /\ ~eof
            /\ (pc \in StallAt \/ (coming = 0 /\ answered = requests))
         THEN {-1} ELSE {})
      \union
      (IF avail = 0 /\ coming = 0 /\ eof /\ answered < requests
         THEN {-1} ELSE {})

\* The stream after a recv() that returned rl.
Consumed(rl) ==
    LET n == IF rl > 0 THEN rl ELSE 0
        stale == avail + coming - own
    IN  /\ avail' = avail - n
        /\ own' = IF n <= stale THEN own ELSE own - (n - stale)
        /\ fresh' = (fresh /\ n <= stale)
        /\ UNCHANGED <<coming, eof, requests, answered, reply>>

\* Mutant: what was read is not taken off.
Less_Same(r, rl) == r

\* remain - rl.  A failed recv() counts up, to RemainCap and no further.
Less(r, rl) == IF rl = -1 /\ r >= RemainCap THEN r ELSE r - rl

\* A length field read by a recv() of w bytes that returned rl.
Field(rl, w, value) == IF rl = w /\ sync THEN {value} ELSE Junk

\* Where a call goes on after mel_receive_response returned c.
AfterReceive(c) ==
    LET body == BodyOf(op) IN
    IF c # 0 THEN "drain"
    ELSE IF body.fields # <<>> THEN "field"
    ELSE IF body.tail = "rest" THEN "rest" ELSE "drain"
-----------------------------------------------------------------------------
(* The application's calls.                                                *)

\* m70_cnc_connect on an unused or dead connection, when the device accepts.
giop_connect ==
    /\ pc = "idle" /\ ~check_conn_is_valid
    /\ socket' = TRUE /\ connected' = TRUE
    /\ coming' = 0 /\ avail' = 0 /\ own' = 0 /\ fresh' = FALSE /\ eof' = FALSE
    /\ requests' = 0 /\ answered' = 0 /\ reply' = NoReply
    /\ UNCHANGED <<pc, op, fld, remain, extra, code, result, sync>>

\* m70_cnc_disconnect, which is a no-op on an invalid connection.
giop_disconnect ==
    /\ pc = "idle" /\ check_conn_is_valid
    /\ socket' = FALSE /\ connected' = FALSE
    /\ UNCHANGED <<pc, op, fld, remain, extra, code, result, sync,
                   stream>>

\* A mel* operation sends its request; the result of the send is ignored.
SendRequest(o) ==
    /\ pc = "idle" /\ check_conn_is_valid
    /\ requests < MaxRequests
    /\ requests' = requests + 1
    /\ op' = o /\ pc' = "header"
    /\ fld' = 1 /\ remain' = 0 /\ extra' = 0 /\ code' = 0
    /\ sync' = TRUE
    /\ UNCHANGED <<socket, connected, result, coming, avail, own, fresh, eof,
                   answered, reply>>

\* The operations that look at their arguments before they send anything.
ChecksArguments ==
    {"melFsOpenFile", "melFsReadFile", "melFsCreateFile", "melFsWriteFile",
     "melFSStatFile", "melFsOpenDirectory", "melFsReadDirectory"}

\* The operation returns at once, on an invalid connection or argument.
Refuse(o) ==
    /\ pc = "idle"
    /\ ~check_conn_is_valid \/ o \in ChecksArguments
    /\ result' = BodyOf(o).refused
    /\ UNCHANGED <<pc, op, fld, remain, extra, code, socket, connected, sync,
                   stream>>
-----------------------------------------------------------------------------
(* mel_receive_response, one action per recv().                            *)

\* The header at the front of the stream: the latest reply's, or rubbish.
Headers ==
    IF fresh /\ own = avail + coming
      THEN {[isReply |-> reply.kind # "other", length |-> DataLength(reply)]}
      ELSE [isReply : BOOLEAN, length : Junk]

\* Mutant: data_length taken to count the header itself.
HeaderRead_Inclusive(h) ==
    /\ remain' = h.length - GiopHdr
    /\ pc' = IF h.isReply /\ h.length >= GiopHdr
               THEN "replyHeader" ELSE "excDrain"

\* The header came whole: a reply longer than a header is read as a reply.
HeaderRead(h) ==
    /\ remain' = h.length
    /\ pc' = IF h.isReply /\ h.length >= GiopHdr
               THEN "replyHeader" ELSE "excDrain"

\* Mutants: the connection is kept; the code stays 0.
HeaderFailed_KeepsConn == UNCHANGED connected /\ code' = -1
HeaderFailed_NoCode    == connected' = FALSE /\ UNCHANGED code

\* The header did not come: the connection is given up.
HeaderFailed == connected' = FALSE /\ code' = -1

RecvHeader ==
    /\ pc = "header"
    /\ \E rl \in RecvResults(GiopHdr) :
         /\ Consumed(rl)
         /\ \/ /\ rl = GiopHdr
               /\ \E h \in Headers : HeaderRead(h)
               /\ sync' = (fresh /\ own = avail + coming)
               /\ UNCHANGED <<code, connected>>
            \/ /\ rl \in 0..(GiopHdr - 1)
               /\ pc' = AfterReceive(0)
               /\ sync' = FALSE
               /\ UNCHANGED <<remain, code, connected>>
            \/ /\ rl = -1
               /\ HeaderFailed
               /\ pc' = "drain"
               /\ sync' = FALSE
               /\ UNCHANGED remain
    /\ UNCHANGED <<op, fld, extra, socket, result>>

\* A recv() of w bytes inside a reply returned rl, which comes off remain.
Recv(w, rl) ==
    /\ Consumed(rl)
    /\ remain' = Less(remain, rl)
    /\ sync' = (sync /\ rl = w)
    /\ UNCHANGED <<op, socket, connected, result>>

\* Mutant: is_error is not looked at.
IsErrors_Never(rl) == {FALSE}

\* rpp.is_error # 0, of a reply header that was zeroed before it was read.
IsErrors(rl) ==
    IF rl <= 0 THEN {FALSE}
    ELSE IF ~sync THEN BOOLEAN
    ELSE IF rl = ReplyHdr THEN {reply.kind = "error"}
    ELSE {FALSE, reply.kind = "error"}

RecvReplyHeader ==
    /\ pc = "replyHeader"
    /\ \E rl \in RecvResults(ReplyHdr) :
         /\ Recv(ReplyHdr, rl)
         /\ \E is_error \in IsErrors(rl) :
              pc' = IF is_error THEN "excLength" ELSE AfterReceive(0)
    /\ UNCHANGED <<fld, extra, code>>

\* receive_error_data_response: the length of the exception's text ...
RecvExcLength ==
    /\ pc = "excLength"
    /\ \E rl \in RecvResults(Word) :
         /\ Recv(Word, rl)
         /\ extra' \in IF rl <= 0 THEN {0} ELSE Field(rl, Word, reply.exc)
    /\ pc' = "excText"
    /\ UNCHANGED <<fld, code>>

\* ... the text, which is skipped byte by byte ...
RecvExcText ==
    /\ pc = "excText"
    /\ IF extra > 0
         THEN /\ \E rl \in RecvResults(1) :
                   /\ Recv(1, rl)
                   /\ extra' = Less(extra, rl)
              /\ UNCHANGED pc
         ELSE /\ pc' = "excPack"
              /\ UNCHANGED <<op, remain, extra, sync, socket, connected, result,
                             stream>>
    /\ UNCHANGED <<fld, code>>

\* Mutant: the text's length returned for the code.
ErrorCode_Length(rl) == {reply.exc}

\* errorPack.error_code, of a struct nothing initialised.
ErrorCode(rl) == IF rl = ErrPack /\ sync THEN {reply.code} ELSE Codes

\* ... and the error code.
RecvExcPack ==
    /\ pc = "excPack"
    /\ \E rl \in RecvResults(ErrPack) :
         /\ Recv(ErrPack, rl)
         /\ code' \in ErrorCode(rl)
    /\ pc' = "excDrain"
    /\ UNCHANGED <<fld, extra>>

\* receive_remain_info_response at the end of mel_receive_response.
DrainException ==
    /\ pc = "excDrain"
    /\ IF remain > 0
         THEN /\ \E rl \in RecvResults(1) : Recv(1, rl)
              /\ UNCHANGED pc
         ELSE /\ pc' = AfterReceive(code)
              /\ UNCHANGED <<op, remain, sync, socket, connected, result, stream>>
    /\ UNCHANGED <<fld, extra, code>>
-----------------------------------------------------------------------------
(* The operation's own reads.                                              *)

\* Mutant: msg_length compared after the header was taken off it.
AfterField_Late(n, len) ==
    LET body == BodyOf(op) IN
    IF fld \in body.gates /\ n = 0 THEN "drain"
    ELSE IF fld < Len(body.fields) THEN "field"
    ELSE IF \/ body.tail = "data"
            \/ body.tail = "headed" /\ len - body.fields[1] > body.fields[1]
           THEN "data" ELSE "drain"

\* Where the reading goes on after field fld, when its value was n and
\* msg_length was len before it was read.
AfterField(n, len) ==
    LET body == BodyOf(op) IN
    IF fld \in body.gates /\ n = 0 THEN "drain"
    ELSE IF fld < Len(body.fields) THEN "field"
    ELSE IF body.tail = "data" \/ (body.tail = "headed" /\ len > body.fields[1])
           THEN "data" ELSE "drain"

RecvField ==
    /\ pc = "field"
    /\ LET body == BodyOf(op)
           w == body.fields[fld]
           announces == fld \in body.gates \/ body.tail = "headed"
       IN  \E rl \in RecvResults(w) :
             /\ Recv(w, rl)
             /\ extra' \in IF announces THEN Field(rl, w, reply.data)
                                        ELSE {extra}
    /\ pc' = AfterField(extra', remain)
    /\ fld' = IF pc' = "field" THEN fld + 1 ELSE fld
    /\ UNCHANGED code

\* The announced data, in one recv().
RecvData ==
    /\ pc = "data"
    /\ \E rl \in RecvResults(extra) : Recv(extra, rl)
    /\ pc' = "drain"
    /\ UNCHANGED <<fld, extra, code>>

\* receive_data_response of all that remains, in one recv().
RecvRest ==
    /\ pc = "rest"
    /\ \E rl \in RecvResults(remain) : Recv(remain, rl)
    /\ pc' = "drain"
    /\ UNCHANGED <<fld, extra, code>>

\* receive_remain_info_response at the end of the operation, and its return.
Drain ==
    /\ pc = "drain" /\ remain > 0
    /\ check_conn_is_valid
    /\ \E rl \in RecvResults(1) : Recv(1, rl)
    /\ UNCHANGED <<pc, fld, extra, code>>

Return ==
    /\ pc = "drain"
    /\ remain <= 0 \/ ~check_conn_is_valid
    /\ result' = code
    /\ pc' = "idle"
    /\ UNCHANGED <<op, fld, remain, extra, code, socket, connected, sync,
                   stream>>
-----------------------------------------------------------------------------
(* The device and the network (external).                                  *)

Answer ==
    /\ socket /\ ~eof /\ answered < requests
    /\ answered' = answered + 1
    /\ reply' \in Replies[op]
    /\ coming' = coming + WireLength(reply')
    /\ own' = WireLength(reply')
    /\ fresh' = TRUE
    /\ UNCHANGED <<client, avail, eof, requests>>

Deliver ==
    /\ socket
    /\ \E n \in 1..coming :
         /\ coming' = coming - n
         /\ avail' = avail + n
    /\ UNCHANGED <<client, own, fresh, eof, requests, answered, reply>>

\* The device closes its end; the last n bytes it owed are never sent.
Close ==
    /\ MayClose /\ socket /\ ~eof
    /\ eof' = TRUE
    /\ \E n \in 0..coming :
         /\ coming' = coming - n
         /\ own' = IF n <= own THEN own - n ELSE 0
    /\ UNCHANGED <<client, avail, fresh, requests, answered, reply>>

Application ==
    \/ giop_connect \/ giop_disconnect
    \/ \E o \in Ops : SendRequest(o) \/ Refuse(o)
Reading ==
    \/ RecvHeader \/ RecvReplyHeader
    \/ RecvExcLength \/ RecvExcText \/ RecvExcPack \/ DrainException
    \/ RecvField \/ RecvData \/ RecvRest \/ Drain \/ Return
Device == Answer \/ Deliver \/ Close

Next == Application \/ Reading \/ Device

Spec == Init /\ [][Next]_vars

\* A call that can go on does, and what the device has sent arrives.
FairSpec == Spec /\ WF_vars(Reading) /\ WF_vars(Deliver)
-----------------------------------------------------------------------------
(* Properties.                                                             *)

\* Between two calls on a valid connection the stream is at a message
\* boundary: no byte of any reply is unread or under way and every request
\* was answered, so that the next header read is the next reply's.  It rests
\* on the drains, the length accounting and `connected = false'.
Framing ==
    pc = "idle" /\ check_conn_is_valid =>
        avail = 0 /\ coming = 0 /\ (eof \/ answered = requests)

\* Inside a reply, msg_length never undercounts the bytes still owed: a
\* failed read may make it too large, nothing may make it too small.
RemainCoversReply ==
    pc \in ReadPoints \ {"header"} /\ check_conn_is_valid =>
        own = avail + coming /\ own <= remain

\* A header is only ever read from the reply to the request just sent: the
\* late answer to a request that timed out reaches no later call, although
\* the request ids of replies are not compared.
NoStaleReply ==
    [][pc = "header" /\ avail' < avail =>
          fresh /\ own = avail + coming /\ answered = requests]_vars

\* What an operation is about to return is what the device answered.
AnswerReported ==
    pc = "drain" /\ check_conn_is_valid => (code = 0 <=> reply.kind = "ok")

\* Data is lost only by a short, failed or misplaced read of the same call:
\* if every recv() of a call got what it asked for, nothing of a successful
\* reply is left for the final drain to throw away, whatever was split, late
\* or lost in the calls before (melSetData and its like store no data).
DataWhole ==
    pc = "drain" /\ sync /\ code = 0 /\ BodyOf(op) # melSetData => remain <= 0

\* Nothing is read from, or sent over, a connection that was found lost, for
\* as long as the application does not connect again.
LostConnectionUntouched ==
    [][~connected /\ ~connected' =>
          avail' >= avail /\ requests' = requests]_vars

\* A call that found the connection lost ends with -1.
LostCallFails ==
    pc # "idle" /\ ~check_conn_is_valid => code = -1 /\ remain <= 0

\* Every call returns.
CallReturns == pc # "idle" ~> pc = "idle"

\* The whole transaction implements GiopRpc.
Verdict(c) == CASE c = 0 -> "ok" [] c = -1 -> "lost" [] OTHER -> "error"

Rpc == INSTANCE GiopRpc WITH
    phase   <- IF pc = "idle" THEN "idle" ELSE "busy",
    up      <- check_conn_is_valid,
    verdict <- IF answered = requests THEN reply.kind ELSE "none",
    result  <- Verdict(result)

ImplementsRpc == Rpc!Spec

\* "Error status: 0 success; 1 user error; 2 system error"
\* (m70_ezsocket_private.h:92): no call returns success for a reply whose
\* error status is not 0.
ErrorStatusKept ==
    pc = "drain" /\ reply.kind = "error" /\ answered = requests => code # 0
=============================================================================
