------------------------------- MODULE M70Conn -------------------------------
(***************************************************************************)
(* Connections, descriptors and the last error: m70_cnc_connect and        *)
(* m70_cnc_disconnect (m70_ezsocket.c), giop_connect and giop_disconnect   *)
(* (m70_giop.c), the opening and closing of sockets (socket.c).            *)
(*                                                                         *)
(* The application holds a fixed set of m70_conn_t structures and may call *)
(* either function on any of them at any time.  A request over a valid     *)
(* connection is one step with the outcomes that the transaction of        *)
(* M70Giop has on a connection in that state.                              *)
(***************************************************************************)
EXTENDS M70Error

CONSTANTS
    Conns,      \* the application's m70_conn_t structures
    Fds         \* descriptors the process may use; 0 when stdin is closed

ASSUME ConnAssumption == Fds \subseteq Nat

VARIABLES
    conn,       \* conn[c]: the socket and connected of a structure
    link,       \* link[fd]: what is behind a descriptor
    errno,
    last,       \* g_last_error
    alive,      \* the thread goes on: not killed, in no request that hangs
    orphans     \* history: descriptors whose structure was overwritten

connVars == <<conn, link, errno, last, alive, orphans>>

\* free; a socket that never connected; an established connection; one the
\* device closed; one it reset because data was sent after that.
Links == {"free", "unconnected", "up", "closed", "reset"}
Errnos == {"none", "EMFILE", "ECONNREFUSED", "EBADF", "EAGAIN"}

ConnTypeOK ==
    /\ conn \in [Conns -> [socket : Fds \union {-1, 0}, connected : BOOLEAN]]
    /\ link \in [Fds -> Links]
    /\ errno \in Errnos
    /\ last \in [error_code : ExCodes, system_error_code : Errnos]
    /\ alive \in BOOLEAN
    /\ orphans \subseteq Fds

check_conn_is_valid(c) == conn[c].socket > 0 /\ conn[c].connected

\* m70_conn_t conn = {0}, before any socket was opened.
ConnInit ==
    /\ conn = [c \in Conns |-> [socket |-> 0, connected |-> FALSE]]
    /\ link = [fd \in Fds |-> "free"]
    /\ errno = "none" /\ last = m70_error_set(0, "none")
    /\ alive = TRUE /\ orphans = {}
-----------------------------------------------------------------------------
(***************************************************************************)
(* socket_open_tcp_client_socket.  Every way it may end is a record of the *)
(* socket it returns, the descriptors, errno and the last error.           *)
(***************************************************************************)
Free == {fd \in Fds : link[fd] = "free"}

\* The one socket() takes: the lowest.
Lowest == {fd \in Free : \A other \in Free : fd <= other}

\* Mutant: setsockopt() follows a failed socket() too.
NoSocket_GoesOn ==
    IF Free # {} THEN {} ELSE
      {[socket |-> -1, link |-> link, errno |-> "EBADF", last |-> last]}

\* socket() failed: nothing else is tried.
NoSocket ==
    IF Free # {} THEN {} ELSE
      {[socket |-> -1, link |-> link, errno |-> "EMFILE", last |-> last]}

Connected ==
    {[socket |-> fd, link |-> [link EXCEPT ![fd] = "up"],
      errno |-> errno, last |-> last] : fd \in Lowest}

\* Mutant: descriptor 0 aside, the socket is not closed either.
Refused_NotClosed ==
    {[socket |-> -1, link |-> [link EXCEPT ![fd] = "unconnected"],
      errno |-> "EBADF", last |-> m70_error_set(CONN_REFUSED, "ECONNREFUSED")] :
        fd \in Lowest}

\* connect() failed: the error is recorded, the socket closed (unless it is
\* 0), and the timeouts are then set on descriptor -1.
Refused ==
    {[socket |-> -1,
      link |-> IF fd > 0 THEN link ELSE [link EXCEPT ![fd] = "unconnected"],
      errno |-> "EBADF", last |-> m70_error_set(CONN_REFUSED, "ECONNREFUSED")] :
        fd \in Lowest}

socket_open_tcp_client_socket == NoSocket \union Connected \union Refused
-----------------------------------------------------------------------------
(* The application's calls.                                                *)

\* Nothing is opened for an empty address.
NoAddress == {[socket |-> 0, link |-> link, errno |-> errno, last |-> last]}

giop_connect == NoAddress \union socket_open_tcp_client_socket

\* A call that only records an error: m70_cnc_connect with a null pointer or
\* a port that is not positive, m70_cnc_read_status when it fails.
RecordedOnly == {CNC_INVALID_PARAM, CONN_INVALID, CNC_NOT_READY}

SetError(code) ==
    /\ last' = m70_error_set(code, errno)
    /\ UNCHANGED <<conn, link, errno, alive, orphans>>

m70_cnc_connect_Invalid == SetError(CNC_INVALID_PARAM)

\* The structure is zeroed before giop_connect could close what it held; a
\* socket of 0 counts as a failure.
m70_cnc_connect(c) ==
    \E o \in giop_connect :
        /\ conn' = [conn EXCEPT ![c] = [socket |-> o.socket,
                                        connected |-> o.socket > 0]]
        /\ link' = o.link
        /\ errno' = o.errno
        /\ last' = IF o.socket > 0 THEN o.last
                                   ELSE m70_error_set(CONN_FAILED, o.errno)
        /\ orphans' = IF conn[c].socket > 0 THEN orphans \union {conn[c].socket}
                                            ELSE orphans
        /\ UNCHANGED alive

\* Mutant: the structure keeps its socket.
giop_disconnect_Keeps(c) ==
    /\ link' = [link EXCEPT ![conn[c].socket] = "free"]
    /\ UNCHANGED conn

giop_disconnect(c) ==
    /\ link' = [link EXCEPT ![conn[c].socket] = "free"]
    /\ conn' = [conn EXCEPT ![c] = [socket |-> -1, connected |-> FALSE]]

\* An invalid connection is left as it is, its socket open.
m70_cnc_disconnect(c) ==
    /\ IF check_conn_is_valid(c)
         THEN giop_disconnect(c) /\ UNCHANGED last
         ELSE /\ last' = m70_error_set(CONN_INVALID, errno)
              /\ UNCHANGED <<conn, link>>
    /\ UNCHANGED <<errno, alive, orphans>>
-----------------------------------------------------------------------------
(* Requests (mel* operations), by outcome.                                 *)

\* The device answered, with success or with an error.
Answered(c) ==
    /\ check_conn_is_valid(c)
    /\ link[conn[c].socket] = "up"
    /\ UNCHANGED connVars

\* The header did not come in 5 s, or the connection broke.
Lost(c) ==
    /\ check_conn_is_valid(c)
    /\ link[conn[c].socket] \in {"up", "closed"}
    /\ conn' = [conn EXCEPT ![c].connected = FALSE]
    /\ errno' = "EAGAIN"
    /\ UNCHANGED <<link, last, alive, orphans>>

\* recv() finds the end of the stream, which counts as success; the device,
\* or its host, answers the request with a reset.
EndOfFile(c) ==
    /\ check_conn_is_valid(c)
    /\ link[conn[c].socket] \in {"closed", "reset"}
    /\ link' = [link EXCEPT ![conn[c].socket] = "reset"]
    /\ UNCHANGED <<conn, errno, last, alive, orphans>>

\* send() on a connection that was reset raises SIGPIPE.
Killed(c) ==
    /\ check_conn_is_valid(c)
    /\ link[conn[c].socket] = "reset"
    /\ alive' = FALSE
    /\ UNCHANGED <<conn, link, errno, last, orphans>>

\* A recv() inside the reply fails or finds its end: the drain waits for ever
\* for bytes that nobody owes, and the thread with it (MCGiopStall).
Hangs(c) ==
    /\ check_conn_is_valid(c)
    /\ link[conn[c].socket] \in {"up", "closed"}
    /\ alive' = FALSE
    /\ UNCHANGED <<conn, link, errno, last, orphans>>

Request(c) ==
    Answered(c) \/ Lost(c) \/ EndOfFile(c) \/ Killed(c) \/ Hangs(c)

\* The device (external) closes a connection.
DeviceCloses(fd) ==
    /\ link[fd] = "up"
    /\ link' = [link EXCEPT ![fd] = "closed"]
    /\ UNCHANGED <<conn, errno, last, alive, orphans>>

ConnNext ==
    /\ alive
    /\ \/ \E code \in RecordedOnly : SetError(code)
       \/ \E c \in Conns : \/ m70_cnc_connect(c) \/ m70_cnc_disconnect(c)
                           \/ Request(c)
       \/ \E fd \in Fds : DeviceCloses(fd)

ConnSpec == ConnInit /\ [][ConnNext]_connVars
-----------------------------------------------------------------------------
(* Properties.                                                             *)

\* A valid connection has a connected descriptor, and has it for itself: no
\* structure ever closes, or sends over, the socket of another, although
\* descriptors are used again as soon as they are closed.
OwnDescriptor ==
    \A c \in Conns : check_conn_is_valid(c) =>
        /\ link[conn[c].socket] \in {"up", "closed", "reset"}
        /\ \A d \in Conns \ {c} : conn[d].socket # conn[c].socket

\* Descriptors are lost in one way only (0 aside): by connecting over a
\* structure that still holds a socket, which m70_cnc_disconnect refuses to
\* close once the connection is lost.  A failed connect loses none.
OnlyOverwrittenLost ==
    orphans = {fd \in Fds \ {0} :
                  link[fd] # "free" /\ \A c \in Conns : conn[c].socket # fd}

\* When a connect fails after it asked for a socket, the last error tells
\* whether the process was out of descriptors (any other cause is lost: it
\* is overwritten by the failure of setsockopt on descriptor -1).
ConnectCause ==
    [][\A c \in Conns : m70_cnc_connect(c) /\ conn'[c].socket = -1 =>
          (last'.system_error_code = "EMFILE" <=> Free = {})]_connVars

\* The tables agree: the codes of a basic error survive the way to an
\* extended code and back, every connection and transmission error is a
\* network exception, and the last error has a description: but for
\* CONN_FAILED, the one code a failed connect leaves.
ErrorTablesAgree ==
    /\ \A code \in BasicCodes :
          m70_error_ex_to_code(m70_error_code_to_ex(code)) = code
    /\ \A ex \in (ConnCodes \union TransCodes) \ {CONN_FAILED} :
          m70_error_ex_to_code(ex) = 2
    /\ last.error_code # CONN_FAILED =>
          m70_error_get_description(last.error_code) # "Undefined error"
=============================================================================
