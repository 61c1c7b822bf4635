------------------------------- MODULE MCGiop -------------------------------
(* Instances of M70Giop for TLC: small sizes and the device's replies.      *)
EXTENDS M70Giop

Ok(body, data) ==
    [kind |-> "ok", code |-> 0, exc |-> 0, body |-> body, data |-> data]
Error(exc) ==
    [kind |-> "error", code |-> 1, exc |-> exc, body |-> 0, data |-> 0]
Other(body) ==
    [kind |-> "other", code |-> 0, exc |-> 0, body |-> body, data |-> 0]

\* Well-formed successful replies to each operation.
OkReplies(o) ==
    CASE o \in {"melGetData"}     -> {Ok(DataHdr + n, n) : n \in 1..2}
      [] o = "melGetDataAxes"     -> {Ok(AxesHdr + n, n) : n \in 1..2}
      [] o = "melFSStatFile"      -> {Ok(StatHdr + 2, 2)}
      [] o \in {"melGetCurrentAlarmMsg", "melGetCurrentPrgBlock"}
                                  -> {Ok(n, n) : n \in 1..3}
      [] o \in {"melFsOpenFile"}  -> {Ok(Long + Word, 0)}
      [] o \in {"melFsCreateFile", "melFsOpenDirectory"} -> {Ok(2 * Word, 0)}
      [] o = "melFsWriteFile"     -> {Ok(Long + Pointer, 0)}
      [] o = "melFsReadFile"      -> {Ok(2 * Long + n, n) : n \in 0..2}
      [] o = "melFsReadDirectory" -> {Ok(2 * Long, 0), Ok(4 * Long + 2, 2)}
      [] OTHER                    -> {Ok(n, n) : n \in 0..1}

ErrorReplies == {Error(n) : n \in 0..2}

\* What a device that follows the protocol answers.
Answers == [o \in Ops |-> OkReplies(o) \union ErrorReplies]

\* The same, and messages that are not replies.
Messages == [o \in Ops |-> Answers[o] \union {Other(0), Other(1)}]

MCJunk == {-1, 0, 3}
=============================================================================
