---------------------------- MODULE M70ConnProofs ----------------------------
(***************************************************************************)
(* Proofs about M70Conn for any structures and any descriptors.            *)
(***************************************************************************)
EXTENDS M70Conn, TLAPS

(***************************************************************************)
(* The inductive invariant: a socket a structure holds, be the connection  *)
(* valid or lost, is open and held by that structure alone.                *)
(***************************************************************************)
Held ==
    \A c \in Conns : conn[c].socket > 0 =>
        /\ link[conn[c].socket] # "free"
        /\ \A d \in Conns \ {c} : conn[d].socket # conn[c].socket

\* A structure marked connected holds a socket that did connect.
Marked ==
    \A c \in Conns : conn[c].connected =>
        /\ conn[c].socket > 0
        /\ link[conn[c].socket] # "unconnected"

Inv == ConnTypeOK /\ Held /\ Marked /\ OnlyOverwrittenLost

\* A socket is an integer: a descriptor, -1 or 0.
LEMMA SocketType ==
    ASSUME ConnTypeOK, NEW d \in Conns
    PROVE  conn[d].socket \in Fds \union {-1, 0} /\ conn[d].socket \in Int
<1>1. conn[d].socket \in Fds \union {-1, 0}
  BY DEF ConnTypeOK
<1>2. \A fd \in Fds \union {-1, 0} : fd \in Int
  BY ConnAssumption
<1> QED
  BY <1>1, <1>2

\* What m70_error_set stores is an error.
LEMMA ErrorType ==
    ASSUME NEW code \in {CONN_REFUSED, CONN_FAILED} \union RecordedOnly,
           NEW err \in Errnos
    PROVE  m70_error_set(code, err)
              \in [error_code : ExCodes, system_error_code : Errnos]
  BY DEF m70_error_set, RecordedOnly, CONN_REFUSED, CONN_INVALID, CONN_FAILED,
     CNC_INVALID_PARAM, CNC_NOT_READY, ExCodes, ConnCodes, OtherCodes

\* The ways in which giop_connect may end: with a new, connected descriptor
\* (which counts as a failure if it is 0), or without one.
LEMMA ConnectOutcome ==
    ASSUME ConnTypeOK, NEW o \in giop_connect
    PROVE  /\ o.errno \in Errnos
           /\ o.last \in [error_code : ExCodes, system_error_code : Errnos]
           /\ \/ o.socket \in {-1, 0} /\ o.link = link
              \/ /\ o.socket = -1 /\ 0 \in Fds /\ link[0] = "free"
                 /\ o.link = [link EXCEPT ![0] = "unconnected"]
              \/ /\ o.socket \in Fds /\ link[o.socket] = "free"
                 /\ o.link = [link EXCEPT ![o.socket] = "up"]
<1>1. CASE o \in NoAddress
  BY <1>1 DEF NoAddress, ConnTypeOK
<1>2. CASE o \in NoSocket
  BY <1>2 DEF NoSocket, ConnTypeOK, Errnos
<1>3. CASE o \in Connected
  <2>1. PICK fd \in Lowest :
          o = [socket |-> fd, link |-> [link EXCEPT ![fd] = "up"],
               errno |-> errno, last |-> last]
    BY <1>3 DEF Connected
  <2>2. fd \in Fds /\ link[fd] = "free"
    BY DEF Lowest, Free
  <2>3. /\ o.errno = errno /\ o.last = last /\ o.socket = fd
        /\ o.link = [link EXCEPT ![fd] = "up"]
    BY <2>1
  <2> QED
    BY <2>2, <2>3 DEF ConnTypeOK
<1>4. CASE o \in Refused
  <2>1. PICK fd \in Lowest :
          o = [socket |-> -1,
               link |-> IF fd > 0 THEN link
                                  ELSE [link EXCEPT ![fd] = "unconnected"],
               errno |-> "EBADF",
               last |-> m70_error_set(CONN_REFUSED, "ECONNREFUSED")]
    BY <1>4 DEF Refused
  <2>2. fd \in Fds /\ link[fd] = "free" /\ fd \in Nat
    BY ConnAssumption DEF Lowest, Free
  <2>3. o.last \in [error_code : ExCodes, system_error_code : Errnos]
    BY <2>1, ErrorType DEF Errnos
  <2>4. fd > 0 \/ fd = 0
    BY <2>2
  <2>5. o.errno \in Errnos
    BY <2>1 DEF Errnos
  <2> QED
    BY <2>1, <2>2, <2>3, <2>4, <2>5
<1> QED
  BY <1>1, <1>2, <1>3, <1>4 DEF giop_connect, socket_open_tcp_client_socket

LEMMA InitInv == ConnInit => Inv
<1> SUFFICES ASSUME ConnInit PROVE Inv
  OBVIOUS
<1>1. ConnTypeOK
  BY DEF ConnInit, ConnTypeOK, Links, Errnos, m70_error_set, ExCodes, BasicCodes
<1>2. Held /\ Marked
  BY DEF ConnInit, Held, Marked
<1>3. OnlyOverwrittenLost
  BY DEF ConnInit, OnlyOverwrittenLost
<1> QED
  BY <1>1, <1>2, <1>3 DEF Inv

(***************************************************************************)
(* Connecting.  The structure that connects holds the new descriptor, or   *)
(* none; the old one, if any, becomes an orphan.                           *)
(***************************************************************************)
LEMMA ConnectInv ==
    ASSUME Inv, NEW c \in Conns, m70_cnc_connect(c)
    PROVE  Inv'
<1>1. PICK o \in giop_connect :
        /\ conn' = [conn EXCEPT ![c] = [socket |-> o.socket,
                                        connected |-> o.socket > 0]]
        /\ link' = o.link
        /\ errno' = o.errno
        /\ last' = IF o.socket > 0 THEN o.last
                                   ELSE m70_error_set(CONN_FAILED, o.errno)
        /\ orphans' = IF conn[c].socket > 0 THEN orphans \union {conn[c].socket}
                                            ELSE orphans
        /\ UNCHANGED alive
  BY DEF m70_cnc_connect
<1>2. ConnTypeOK
  BY DEF Inv
<1>3. /\ o.errno \in Errnos
      /\ o.last \in [error_code : ExCodes, system_error_code : Errnos]
      /\ \/ o.socket \in {-1, 0} /\ o.link = link
         \/ /\ o.socket = -1 /\ 0 \in Fds /\ link[0] = "free"
            /\ o.link = [link EXCEPT ![0] = "unconnected"]
         \/ /\ o.socket \in Fds /\ link[o.socket] = "free"
            /\ o.link = [link EXCEPT ![o.socket] = "up"]
  BY <1>2, ConnectOutcome
<1>4. /\ o.socket \in Fds \union {-1, 0} /\ o.socket \in Int
      /\ (o.socket > 0) \in BOOLEAN
      /\ o.socket > 0 => o.socket \in Fds /\ link[o.socket] = "free"
                         /\ o.link = [link EXCEPT ![o.socket] = "up"]
      /\ o.link \in [Fds -> Links]
  <2>1. Fds \subseteq Nat /\ link \in [Fds -> Links]
    BY <1>2, ConnAssumption DEF ConnTypeOK
  <2>2. o.link \in [Fds -> Links]
    BY <1>3, <2>1 DEF Links
  <2>3. o.socket \in Fds \union {-1, 0} /\ o.socket \in Int
    <3>1. o.socket \in Fds \union {-1, 0}
      BY <1>3
    <3>2. \A fd \in Fds \union {-1, 0} : fd \in Int
      BY <2>1
    <3> QED
      BY <3>1, <3>2
  <2>4. o.socket > 0 => o.socket \notin {-1, 0}
    BY <2>3
  <2>5. o.socket > 0 => o.socket \in Fds /\ link[o.socket] = "free"
                        /\ o.link = [link EXCEPT ![o.socket] = "up"]
    BY <1>3, <2>4
  <2> QED
    BY <2>2, <2>3, <2>5
<1>5. \A d \in Conns : /\ conn[d].socket \in Fds \union {-1, 0}
                       /\ conn[d].socket \in Int
  BY <1>2, SocketType
<1>6. /\ conn'[c].socket = o.socket /\ conn'[c].connected = (o.socket > 0)
      /\ \A d \in Conns \ {c} : conn'[d] = conn[d]
  BY <1>1, <1>2 DEF ConnTypeOK
<1>7. ConnTypeOK'
  <2>1. conn' \in [Conns -> [socket : Fds \union {-1, 0}, connected : BOOLEAN]]
    <3>1. [socket |-> o.socket, connected |-> o.socket > 0]
             \in [socket : Fds \union {-1, 0}, connected : BOOLEAN]
      BY <1>4
    <3> QED
      BY <1>1, <1>2, <3>1 DEF ConnTypeOK
  <2>2. last' \in [error_code : ExCodes, system_error_code : Errnos]
    BY <1>1, <1>3, ErrorType
  <2>3. orphans' \subseteq Fds
    BY <1>1, <1>2, <1>5 DEF ConnTypeOK
  <2>4. alive' \in BOOLEAN
    BY <1>1, <1>2 DEF ConnTypeOK
  <2> QED
    BY <1>1, <1>3, <1>4, <2>1, <2>2, <2>3, <2>4 DEF ConnTypeOK
<1>8. \A fd \in Fds : link'[fd] = link[fd] \/ (link[fd] = "free" /\ link'[fd] # "free")
  BY <1>1, <1>2, <1>3 DEF ConnTypeOK
<1>9. Held'
  <2> SUFFICES ASSUME NEW d \in Conns, conn'[d].socket > 0
               PROVE  /\ link'[conn'[d].socket] # "free"
                      /\ \A e \in Conns \ {d} : conn'[e].socket # conn'[d].socket
    BY DEF Held
  <2>1. CASE d = c
    <3>1. o.socket \in Fds /\ link[o.socket] = "free" /\ link'[o.socket] = "up"
      BY <1>1, <1>2, <1>4, <1>6, <2>1 DEF ConnTypeOK
    <3>2. \A e \in Conns \ {c} : conn[e].socket # o.socket
      BY <1>4, <1>5, <1>6, <2>1, <3>1 DEF Inv, Held
    <3> QED
      BY <1>6, <2>1, <3>1, <3>2
  <2>2. CASE d # c
    <3>1. conn[d].socket > 0 /\ conn[d].socket \in Fds
      BY <1>5, <1>6, <2>2
    <3>2. /\ link[conn[d].socket] # "free"
          /\ \A e \in Conns \ {d} : conn[e].socket # conn[d].socket
      BY <3>1 DEF Inv, Held
    <3>3. o.socket # conn[d].socket
      BY <1>4, <3>1, <3>2
    <3> QED
      BY <1>6, <1>8, <2>2, <3>1, <3>2, <3>3
  <2> QED
    BY <2>1, <2>2
<1>10. Marked'
  <2> SUFFICES ASSUME NEW d \in Conns, conn'[d].connected
               PROVE  /\ conn'[d].socket > 0
                      /\ link'[conn'[d].socket] # "unconnected"
    BY DEF Marked
  <2>1. CASE d = c
    BY <1>1, <1>2, <1>4, <1>6, <2>1 DEF ConnTypeOK
  <2>2. CASE d # c
    <3>1. /\ conn[d].socket > 0 /\ link[conn[d].socket] # "unconnected"
          /\ link[conn[d].socket] # "free"
      BY <1>6, <2>2 DEF Inv, Marked, Held
    <3> QED
      BY <1>5, <1>6, <1>8, <2>2, <3>1
  <2> QED
    BY <2>1, <2>2
<1>11. OnlyOverwrittenLost'
  <2>1. \A fd \in Fds \ {0} : fd \in Nat /\ fd > 0
    BY ConnAssumption
  <2>2. \A fd \in Fds \ {0} :
          fd \in orphans <=> /\ link[fd] # "free"
                             /\ \A d \in Conns : conn[d].socket # fd
    BY DEF Inv, OnlyOverwrittenLost
  <2>3. orphans \subseteq Fds \ {0}
    BY DEF Inv, OnlyOverwrittenLost
  <2>4. ASSUME NEW fd \in Fds \ {0}
        PROVE  fd \in orphans' <=> /\ link'[fd] # "free"
                                   /\ \A d \in Conns : conn'[d].socket # fd
    <3>1. CASE fd = o.socket
      <4>1. fd > 0 /\ link[fd] = "free"
        BY <1>4, <2>1, <3>1
      <4>2. fd \notin orphans /\ conn[c].socket # fd
        BY <2>2, <4>1 DEF Inv, Held
      <4> QED
        BY <1>1, <1>6, <3>1, <4>2
    <3>2. CASE fd # o.socket
      <4>1. link'[fd] = link[fd]
        BY <1>1, <1>2, <1>3, <3>2 DEF ConnTypeOK
      <4>2. (\A d \in Conns : conn'[d].socket # fd)
               <=> (\A d \in Conns \ {c} : conn[d].socket # fd)
        BY <1>6, <3>2
      <4>3. CASE conn[c].socket = fd
        <5>1. fd > 0 /\ fd \in orphans'
          BY <1>1, <2>1, <4>3
        <5>2. /\ link[fd] # "free"
              /\ \A d \in Conns \ {c} : conn[d].socket # fd
          BY <4>3, <5>1 DEF Inv, Held
        <5> QED
          BY <4>1, <4>2, <5>1, <5>2
      <4>4. CASE conn[c].socket # fd
        <5>1. fd \in orphans' <=> fd \in orphans
          BY <1>1, <4>4
        <5> QED
          BY <2>2, <4>1, <4>2, <4>4, <5>1
      <4> QED
        BY <4>3, <4>4
    <3> QED
      BY <3>1, <3>2
  <2>5. orphans' \subseteq Fds \ {0}
    BY <1>1, <1>5, <2>3
  <2> QED
    BY <2>4, <2>5 DEF OnlyOverwrittenLost
<1> QED
  BY <1>7, <1>9, <1>10, <1>11 DEF Inv

(***************************************************************************)
(* Disconnecting.  Because the socket was the structure's own, freeing it  *)
(* takes it from no other.                                                 *)
(***************************************************************************)
LEMMA DisconnectInv ==
    ASSUME Inv, NEW c \in Conns, check_conn_is_valid(c), giop_disconnect(c),
           UNCHANGED <<errno, last, alive, orphans>>
    PROVE  Inv'
<1>1. ConnTypeOK
  BY DEF Inv
<1>2. \A d \in Conns : /\ conn[d].socket \in Fds \union {-1, 0}
                       /\ conn[d].socket \in Int
  BY <1>1, SocketType
<1>3. /\ conn[c].socket > 0 /\ conn[c].socket \in Fds
      /\ link[conn[c].socket] # "free"
      /\ \A d \in Conns \ {c} : conn[d].socket # conn[c].socket
  BY <1>2 DEF check_conn_is_valid, Inv, Held
<1>4. /\ conn'[c].socket = -1 /\ conn'[c].connected = FALSE
      /\ \A d \in Conns \ {c} : conn'[d] = conn[d]
      /\ link'[conn[c].socket] = "free"
      /\ \A fd \in Fds \ {conn[c].socket} : link'[fd] = link[fd]
  BY <1>1, <1>3 DEF giop_disconnect, ConnTypeOK
<1>5. ConnTypeOK'
  <2>1. conn' \in [Conns -> [socket : Fds \union {-1, 0}, connected : BOOLEAN]]
    BY <1>1 DEF giop_disconnect, ConnTypeOK
  <2>2. link' \in [Fds -> Links]
    BY <1>1 DEF giop_disconnect, ConnTypeOK, Links
  <2> QED
    BY <1>1, <2>1, <2>2 DEF ConnTypeOK
<1>6. Held'
  <2> SUFFICES ASSUME NEW d \in Conns, conn'[d].socket > 0
               PROVE  /\ link'[conn'[d].socket] # "free"
                      /\ \A e \in Conns \ {d} : conn'[e].socket # conn'[d].socket
    BY DEF Held
  <2>1. d # c
    BY <1>4
  <2>2. conn[d].socket > 0 /\ conn[d].socket \in Fds
    BY <1>2, <1>4, <2>1
  <2>3. /\ link[conn[d].socket] # "free"
        /\ \A e \in Conns \ {d} : conn[e].socket # conn[d].socket
    BY <2>2 DEF Inv, Held
  <2>4. -1 # conn[d].socket
    BY <1>2, <2>2
  <2> QED
    BY <1>3, <1>4, <2>1, <2>2, <2>3, <2>4
<1>7. Marked'
  <2> SUFFICES ASSUME NEW d \in Conns, conn'[d].connected
               PROVE  /\ conn'[d].socket > 0
                      /\ link'[conn'[d].socket] # "unconnected"
    BY DEF Marked
  <2>1. d # c
    BY <1>4
  <2>2. conn[d].socket > 0 /\ link[conn[d].socket] # "unconnected"
    BY <1>4, <2>1 DEF Inv, Marked
  <2> QED
    BY <1>2, <1>3, <1>4, <2>1, <2>2
<1>8. OnlyOverwrittenLost'
  <2>1. ASSUME NEW fd \in Fds \ {0}
        PROVE  fd \in orphans' <=> /\ link'[fd] # "free"
                                   /\ \A d \in Conns : conn'[d].socket # fd
    <3>1. fd \in Nat
      BY ConnAssumption
    <3>2. fd \in orphans <=> /\ link[fd] # "free"
                             /\ \A d \in Conns : conn[d].socket # fd
      BY DEF Inv, OnlyOverwrittenLost
    <3>3. CASE fd = conn[c].socket
      BY <1>4, <3>2, <3>3
    <3>4. CASE fd # conn[c].socket
      BY <1>4, <3>1, <3>2, <3>4
    <3> QED
      BY <3>3, <3>4
  <2>2. orphans' \subseteq Fds \ {0}
    BY DEF Inv, OnlyOverwrittenLost
  <2> QED
    BY <2>1, <2>2 DEF OnlyOverwrittenLost
<1> QED
  BY <1>5, <1>6, <1>7, <1>8 DEF Inv

(***************************************************************************)
(* Steps that move one open descriptor from one open state to another, and *)
(* no structure.                                                           *)
(***************************************************************************)
LEMMA LinkInv ==
    ASSUME Inv, NEW fd \in Fds, link[fd] \in {"up", "closed", "reset"},
           NEW l \in {"closed", "reset"}, link' = [link EXCEPT ![fd] = l],
           UNCHANGED <<conn, errno, last, alive, orphans>>
    PROVE  Inv'
<1>1. ConnTypeOK
  BY DEF Inv
<1>2. \A other \in Fds :
        /\ link'[other] = "free" <=> link[other] = "free"
        /\ link'[other] = "unconnected" <=> link[other] = "unconnected"
  BY <1>1 DEF ConnTypeOK
<1>3. \A d \in Conns : conn[d].socket > 0 => conn[d].socket \in Fds
  BY <1>1 DEF ConnTypeOK
<1>4. ConnTypeOK'
  <2>1. link' \in [Fds -> Links]
    BY <1>1 DEF ConnTypeOK, Links
  <2> QED
    BY <1>1, <2>1 DEF ConnTypeOK
<1>5. Held' /\ Marked'
  BY <1>2, <1>3 DEF Inv, Held, Marked
<1>6. OnlyOverwrittenLost'
  BY <1>2 DEF Inv, OnlyOverwrittenLost
<1> QED
  BY <1>4, <1>5, <1>6 DEF Inv

\* Steps that change no descriptor, and of the structures at most clear a
\* connected.
LEMMA MarkInv ==
    ASSUME Inv, NEW c \in Conns, UNCHANGED <<link, orphans>>,
           \/ UNCHANGED conn
           \/ conn' = [conn EXCEPT ![c].connected = FALSE],
           errno' \in Errnos,
           last' \in [error_code : ExCodes, system_error_code : Errnos],
           alive' \in BOOLEAN
    PROVE  Inv'
<1>1. ConnTypeOK
  BY DEF Inv
<1>2. conn' \in [Conns -> [socket : Fds \union {-1, 0}, connected : BOOLEAN]]
  BY <1>1 DEF ConnTypeOK
<1>3. \A d \in Conns : /\ conn'[d].socket = conn[d].socket
                       /\ conn'[d].connected => conn[d].connected
  BY <1>1 DEF ConnTypeOK
<1>4. ConnTypeOK'
  BY <1>1, <1>2 DEF ConnTypeOK
<1>5. Held' /\ Marked'
  BY <1>3 DEF Inv, Held, Marked
<1>6. OnlyOverwrittenLost'
  BY <1>3 DEF Inv, OnlyOverwrittenLost
<1> QED
  BY <1>4, <1>5, <1>6 DEF Inv

\* One case per action.
LEMMA NextInv == Inv /\ [ConnNext]_connVars => Inv'
<1> SUFFICES ASSUME Inv, [ConnNext]_connVars PROVE Inv'
  OBVIOUS
<1>1. ConnTypeOK
  BY DEF Inv
<1>2. /\ errno \in Errnos /\ alive \in BOOLEAN
      /\ last \in [error_code : ExCodes, system_error_code : Errnos]
  BY <1>1 DEF ConnTypeOK
<1>3. CASE \E code \in RecordedOnly : SetError(code)
  <2>1. PICK code \in RecordedOnly : SetError(code)
    BY <1>3
  <2>2. last' \in [error_code : ExCodes, system_error_code : Errnos]
    BY <1>2, <2>1, ErrorType DEF SetError
  <2>3. ConnTypeOK'
    BY <1>1, <2>1, <2>2 DEF SetError, ConnTypeOK
  <2>4. Held' /\ Marked' /\ OnlyOverwrittenLost'
    BY <2>1 DEF SetError, Inv, Held, Marked, OnlyOverwrittenLost
  <2> QED
    BY <2>3, <2>4 DEF Inv
<1>4. CASE \E c \in Conns : m70_cnc_connect(c)
  BY <1>4, ConnectInv
<1>5. CASE \E c \in Conns : m70_cnc_disconnect(c)
  <2>1. PICK c \in Conns : m70_cnc_disconnect(c)
    BY <1>5
  <2>2. CASE check_conn_is_valid(c)
    BY <2>1, <2>2, DisconnectInv DEF m70_cnc_disconnect
  <2>3. CASE ~check_conn_is_valid(c)
    <3>1. /\ last' = m70_error_set(CONN_INVALID, errno)
          /\ UNCHANGED <<conn, link, errno, alive, orphans>>
      BY <2>1, <2>3 DEF m70_cnc_disconnect
    <3>2. last' \in [error_code : ExCodes, system_error_code : Errnos]
      BY <1>2, <3>1, ErrorType DEF RecordedOnly
    <3> QED
      BY <1>2, <3>1, <3>2, MarkInv
  <2> QED
    BY <2>2, <2>3
<1>6. CASE \E c \in Conns : Request(c)
  <2>1. PICK c \in Conns : Request(c)
    BY <1>6
  <2>2. CASE Answered(c)
    BY <1>2, <2>2, MarkInv DEF Answered, connVars
  <2>3. CASE Lost(c)
    <3>1. errno' \in Errnos
      BY <2>3 DEF Lost, Errnos
    <3> QED
      BY <1>2, <2>3, <3>1, MarkInv DEF Lost
  <2>4. CASE EndOfFile(c)
    <3>1. conn[c].socket \in Fds
      BY <1>1, <2>4 DEF EndOfFile, check_conn_is_valid, ConnTypeOK
    <3> QED
      BY <2>4, <3>1, LinkInv DEF EndOfFile
  <2>5. CASE Killed(c)
    BY <1>2, <2>5, MarkInv DEF Killed
  <2>6. CASE Hangs(c)
    BY <1>2, <2>6, MarkInv DEF Hangs
  <2> QED
    BY <2>1, <2>2, <2>3, <2>4, <2>5, <2>6 DEF Request
<1>7. CASE \E fd \in Fds : DeviceCloses(fd)
  BY <1>7, LinkInv DEF DeviceCloses
<1>8. CASE UNCHANGED connVars
  <2>1. ConnTypeOK' /\ Held' /\ Marked' /\ OnlyOverwrittenLost'
    BY <1>1, <1>8 DEF Inv, connVars, ConnTypeOK, Held, Marked,
       OnlyOverwrittenLost
  <2> QED
    BY <2>1 DEF Inv
<1> QED
  BY <1>3, <1>4, <1>5, <1>6, <1>7, <1>8 DEF ConnNext

THEOREM ConnInvariant == ConnSpec => []Inv
  BY InitInv, NextInv, PTL DEF ConnSpec

\* The variables keep their types: a structure's socket is -1, 0 or one of
\* the process's descriptors.
THEOREM ConnTypeCorrect == ConnSpec => []ConnTypeOK
<1>1. Inv => ConnTypeOK
  BY DEF Inv
<1> QED
  BY <1>1, ConnInvariant, PTL

\* A valid connection has a connected descriptor, and has it for itself.
THEOREM OwnDescriptorCorrect == ConnSpec => []OwnDescriptor
<1>1. Inv => OwnDescriptor
  <2> SUFFICES ASSUME Inv, NEW c \in Conns, check_conn_is_valid(c)
               PROVE  /\ link[conn[c].socket] \in {"up", "closed", "reset"}
                      /\ \A d \in Conns \ {c} : conn[d].socket # conn[c].socket
    BY DEF OwnDescriptor
  <2>1. conn[c].socket > 0 /\ conn[c].connected
    BY DEF check_conn_is_valid
  <2>2. conn[c].socket \in Fds /\ link[conn[c].socket] \in Links
    BY <2>1 DEF Inv, ConnTypeOK
  <2>3. link[conn[c].socket] # "free" /\ link[conn[c].socket] # "unconnected"
    BY <2>1 DEF Inv, Held, Marked
  <2> QED
    BY <2>1, <2>2, <2>3 DEF Links, Inv, Held
<1> QED
  BY <1>1, ConnInvariant, PTL

\* Descriptors are lost by connecting over a structure that holds one, and
\* in no other way, 0 aside.
THEOREM OnlyOverwrittenLostCorrect == ConnSpec => []OnlyOverwrittenLost
<1>1. Inv => OnlyOverwrittenLost
  BY DEF Inv
<1> QED
  BY <1>1, ConnInvariant, PTL

\* After a connect that failed, EMFILE is recorded exactly if the process
\* was out of descriptors.
THEOREM ConnectCauseCorrect == ConnSpec => ConnectCause
<1>1. ASSUME Inv, NEW c \in Conns, m70_cnc_connect(c), conn'[c].socket = -1
      PROVE  last'.system_error_code = "EMFILE" <=> Free = {}
  <2>1. PICK o \in giop_connect :
          /\ conn' = [conn EXCEPT ![c] = [socket |-> o.socket,
                                          connected |-> o.socket > 0]]
          /\ last' = IF o.socket > 0 THEN o.last
                                     ELSE m70_error_set(CONN_FAILED, o.errno)
    BY <1>1 DEF m70_cnc_connect
  <2>2. o.socket = -1
    BY <1>1, <2>1 DEF Inv, ConnTypeOK
  <2>3. last'.system_error_code = o.errno
    BY <2>1, <2>2 DEF m70_error_set
  <2>4. o \notin NoAddress
    BY <2>2 DEF NoAddress
  <2>5. o \notin Connected
    <3> SUFFICES ASSUME NEW fd \in Lowest, o.socket = fd PROVE FALSE
      BY DEF Connected
    <3> QED
      BY <2>2, ConnAssumption DEF Lowest, Free
  <2>6. CASE o \in NoSocket
    BY <2>3, <2>6 DEF NoSocket
  <2>7. CASE o \in Refused
    BY <2>3, <2>7 DEF Refused, Lowest
  <2> QED
    BY <2>4, <2>5, <2>6, <2>7 DEF giop_connect, socket_open_tcp_client_socket
<1>2. Inv => [\A c \in Conns : m70_cnc_connect(c) /\ conn'[c].socket = -1 =>
               (last'.system_error_code = "EMFILE" <=> Free = {})]_connVars
  BY <1>1
<1> QED
  BY <1>2, ConnInvariant, PTL DEF ConnectCause

\* The tables of codes agree, and the last error is described, unless it is
\* the CONN_FAILED of a failed connect.
THEOREM ErrorTablesAgreeCorrect == ConnSpec => []ErrorTablesAgree
<1>1. \A code \in BasicCodes :
         m70_error_ex_to_code(m70_error_code_to_ex(code)) = code
  BY DEF BasicCodes, m70_error_ex_to_code, m70_error_code_to_ex, ConnCodes,
     TransCodes, CONN_FAILED
<1>2. \A ex \in (ConnCodes \union TransCodes) \ {CONN_FAILED} :
         m70_error_ex_to_code(ex) = 2
  BY DEF m70_error_ex_to_code, ConnCodes, TransCodes, CONN_FAILED
<1>3. ConnTypeOK => (last.error_code # CONN_FAILED =>
         m70_error_get_description(last.error_code) # "Undefined error")
  BY DEF ConnTypeOK, m70_error_get_description, Described
<1>4. ConnTypeOK => ErrorTablesAgree
  BY <1>1, <1>2, <1>3 DEF ErrorTablesAgree
<1> QED
  BY <1>4, ConnTypeCorrect, PTL
=============================================================================
