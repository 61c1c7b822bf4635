---------------------------- MODULE M70PollProofs ----------------------------
(***************************************************************************)
(* Proofs about M70Poll for every TEST_COUNT, device and set of            *)
(* descriptors.                                                            *)
(***************************************************************************)
EXTENDS M70Poll, M70ReadProofs

\* The groups are sequences of functions.
LEMMA GroupShape ==
    /\ Len(Group) \in Nat \ {0}
    /\ \A k \in 1..Len(Group) : Group[k] \in Fns
<1>1. CASE pc = "basic"
  <2>1. Group = read_basic_info
    BY <1>1 DEF Group
  <2>2. Len(read_basic_info) = 27
    BY DEF read_basic_info
  <2> QED
    BY <2>1, <2>2, CallsAssumption
<1>2. CASE pc # "basic"
  <2> DEFINE five == [k \in 1..5 |-> "all_axis_position"]
             one == <<"axis_name">>
  <2>1. Group = one \o five
    BY <1>2 DEF Group, read_axis_position_info
  <2>2. one \in Seq({"axis_name"}) /\ Len(one) = 1 /\ one[1] = "axis_name"
    OBVIOUS
  <2>3. five \in [1..5 -> {"all_axis_position"}]
    OBVIOUS
  <2>4. five \in Seq({"all_axis_position"}) /\ Len(five) = 5
    BY <2>3
  <2>5. /\ Len(one \o five) = 6
        /\ \A k \in 1..6 : (one \o five)[k] \in {"axis_name", "all_axis_position"}
    BY <2>2, <2>3, <2>4
  <2> QED
    BY <2>1, <2>5, CallsAssumption
<1> QED
  BY <1>1, <1>2

\* So there is a first call in every state.
NotEmpty == Len(Group) \in Nat \ {0}

LEMMA GroupNotEmpty == NotEmpty
  BY GroupShape DEF NotEmpty

(***************************************************************************)
(* Where the program is: its calls are those of its group, and outside the *)
(* groups none is in progress.  failed grows by one for a group at most.   *)
(***************************************************************************)
Here ==
    /\ pc \in Places /\ i \in 0..TEST_COUNT /\ log \in {"off", "on"}
    /\ call \in 1..Len(Group)
    /\ ~Reading => at = "idle" /\ call = 1
    /\ at # "idle" => fn = Group[call] /\ cur = conn0
    /\ status \in {NotEnded, 0, 1, -1} /\ (status # NotEnded => pc = "exit")
    /\ pc \in {"log", "connect", "basic", "axes", "sleep"} => i < TEST_COUNT
    /\ lateGroups \in Nat /\ failed \in Nat
    /\ failed <= 2 * i + (CASE pc = "axes" -> 1 [] pc = "sleep" -> 2 [] OTHER -> 0)

\* The last call of a group found the connection lost: it returns as soon as
\* it is made, and FAILED.
InLateGroup == Reading /\ MayBeLast /\ at = "returned" /\ ret # OK

LateInv ==
    lateGroups <= failed \/ (InLateGroup /\ lateGroups <= failed + 1)

LEMMA ConnOnly == conn0 \in Conns /\ TEST_COUNT \in Nat \ {0}
  BY PollAssumption

\* A request is a step inside the call.
LEMMA RequestShape ==
    ASSUME Requesting
    PROVE  /\ at \notin {"idle", "returned"} /\ at' # "idle"
           /\ UNCHANGED <<fn, cur>>
<1> USE DEF GoTo, Returns, Ask
<1>1. ASSUME NEW r \in ResultKinds,
             StatusMode(r) \/ StatusAuto(r) \/ StatusRun(r) \/ Single(r)
      PROVE  /\ at \notin {"idle", "returned"} /\ at' # "idle"
             /\ UNCHANGED <<fn, cur>>
  BY <1>1 DEF StatusMode, StatusAuto, StatusRun, Single
<1>2. ASSUME NEW r \in ResultKinds,
             OverrideMethod(r) \/ OverrideCode(r) \/ OverrideRegister(r)
      PROVE  /\ at \notin {"idle", "returned"} /\ at' # "idle"
             /\ UNCHANGED <<fn, cur>>
  BY <1>2 DEF OverrideMethod, OverrideCode, OverrideRegister
<1>3. ASSUME NEW r \in ResultKinds,
             PairFirst(r) \/ PairSecond(r) \/ ListCount(r) \/ ListAxis(r)
      PROVE  /\ at \notin {"idle", "returned"} /\ at' # "idle"
             /\ UNCHANGED <<fn, cur>>
  BY <1>3 DEF PairFirst, PairSecond, ListCount, ListAxis, AxisOrReturn
<1>4. CASE StatusNotReady
  BY <1>4 DEF StatusNotReady
<1> QED
  BY <1>1, <1>2, <1>3, <1>4 DEF Requesting

LEMMA PollInitInv == PollInit => Here /\ LateInv
<1> SUFFICES ASSUME PollInit PROVE Here /\ LateInv
  OBVIOUS
<1>1. /\ pc = "log" /\ i = 0 /\ call = 1 /\ failed = 0 /\ log = "off"
      /\ status = NotEnded /\ lateGroups = 0 /\ at = "idle"
  BY DEF PollInit, Init, NoCall
<1> QED
  BY <1>1, GroupShape, ConnOnly DEF Here, LateInv, Places, Reading

LEMMA PollStep == Here /\ LateInv /\ [PollNext]_allVars => Here' /\ LateInv'
<1> SUFFICES ASSUME Here, LateInv, [PollNext]_allVars
             PROVE  Here' /\ LateInv'
  OBVIOUS
<1>a. /\ TEST_COUNT \in Nat \ {0} /\ i \in Nat /\ lateGroups \in Nat
      /\ failed \in Nat /\ Len(Group) \in Nat \ {0} /\ call \in Nat
  BY ConnOnly, GroupShape DEF Here
<1>b. Len(Group') \in Nat \ {0}
  <2>1. NotEmpty'
    BY GroupNotEmpty, PTL
  <2> QED
    BY <2>1 DEF NotEmpty
<1>1. CASE UNCHANGED allVars
  BY <1>1 DEF allVars, vars, connVars, callVars, pollVars, Here, LateInv, Group,
     InLateGroup, MayBeLast, Reading
<1>2. CASE LogInit
  BY <1>2, <1>a, <1>b DEF LogInit, Exit, vars, connVars, callVars, Here, LateInv,
     Places, Group, InLateGroup, Reading
<1>3. CASE Connect
  BY <1>3, <1>a, <1>b DEF Connect, Exit, callVars, Here, LateInv, Places, Group,
     InLateGroup, Reading
<1>4. CASE BeginsCall
  <2>1. /\ Reading /\ alive /\ at = "idle" /\ cur' = conn0 /\ fn' = Group[call]
        /\ UNCHANGED <<pc, i, call, failed, log, status>>
    BY <1>4 DEF BeginsCall, CallBegins, CallRefused, Call
  <2>2. Here'
    BY <1>4, <1>a, <2>1 DEF BeginsCall, Here, Group, Reading
  <2>3. CASE CallBegins(conn0, Group[call])
    BY <1>4, <1>a, <2>1, <2>2, <2>3
       DEF BeginsCall, CallBegins, LateInv, InLateGroup
  <2>4. CASE CallRefused(conn0, Group[call])
    <3>1. at' = "returned" /\ ret' # OK
      BY <2>4 DEF CallRefused, Returns, OK, FAILED
    <3>2. CASE lateGroups' = lateGroups
      BY <2>1, <2>2, <3>2 DEF LateInv, InLateGroup
    <3>3. CASE lateGroups' # lateGroups
      <4>1. MayBeLast /\ lateGroups' = lateGroups + 1
        BY <1>4, <3>3 DEF BeginsCall
      <4>2. lateGroups <= failed
        BY <2>1 DEF LateInv, InLateGroup
      <4>3. InLateGroup'
        BY <2>1, <3>1, <4>1 DEF InLateGroup, MayBeLast, Group, Reading
      <4> QED
        BY <1>a, <2>1, <2>2, <4>1, <4>2, <4>3 DEF LateInv
    <3> QED
      BY <3>2, <3>3
  <2> QED
    BY <1>4, <2>2, <2>3, <2>4 DEF BeginsCall
<1>5. CASE InCall
  <2>1. UNCHANGED pollVars
    BY <1>5 DEF InCall
  <2>2. /\ at \notin {"idle", "returned"} /\ at' # "idle"
        /\ UNCHANGED <<fn, cur>>
    BY <1>5, RequestShape DEF InCall, StopsInCall, callVars, DeviceChanges
  <2>3. Here'
    BY <2>1, <2>2 DEF pollVars, Here, Group, Reading
  <2>4. lateGroups <= failed
    BY <2>2 DEF LateInv, InLateGroup
  <2> QED
    BY <2>1, <2>3, <2>4 DEF LateInv, pollVars
<1>6. CASE DeviceHangsUp
  BY <1>6 DEF DeviceHangsUp, Closes, DeviceCloses, pollVars, callVars, Here,
     LateInv, Group, InLateGroup, MayBeLast, Reading
<1>7. CASE EndsCall
  <2>1. /\ Reading /\ at = "returned" /\ at' = "idle"
        /\ UNCHANGED <<conn, i, log, status, lateGroups>>
    BY <1>7 DEF EndsCall, CallEnds, connVars
  <2>2. CASE Ended
    <3>1. /\ call' = 1 /\ failed' = Counted
          /\ \/ pc = "basic" /\ pc' = "axes"
             \/ pc = "axes" /\ pc' = "sleep"
      BY <1>7, <2>1, <2>2 DEF EndsCall, Reading
    <3>2. failed' \in {failed, failed + 1} /\ (ret # OK => failed' = failed + 1)
      BY <3>1 DEF Counted
    <3>3. Here'
      BY <1>a, <1>b, <2>1, <3>1, <3>2 DEF Here, Places, Reading
    <3>4. lateGroups' <= failed'
      BY <1>a, <2>1, <3>2 DEF LateInv, InLateGroup
    <3> QED
      BY <3>3, <3>4 DEF LateInv
  <2>3. CASE ~Ended
    <3>1. call' = call + 1 /\ UNCHANGED <<failed, pc>>
      BY <1>7, <2>3 DEF EndsCall, NextCall
    <3>2. call # Len(Group)
      BY <2>3 DEF Ended
    <3>3. Here'
      BY <1>a, <2>1, <3>1, <3>2 DEF Here, Group, Reading
    <3>4. LateInv'
      BY <2>1, <2>3, <3>1 DEF LateInv, InLateGroup, MayBeLast, Ended
    <3> QED
      BY <3>3, <3>4
  <2> QED
    BY <2>2, <2>3
<1>8. CASE Sleep
  <2>1. /\ pc = "sleep" /\ i' = i + 1
        /\ pc' = IF i + 1 < TEST_COUNT THEN "basic" ELSE "disconnect"
        /\ UNCHANGED <<at, fn, cur, call, failed, log, status, lateGroups>>
    BY <1>8 DEF Sleep, NextIteration, vars, callVars
  <2> QED
    BY <1>a, <1>b, <2>1 DEF Here, LateInv, Places, InLateGroup, Reading
<1>9. CASE Disconnect
  BY <1>9, <1>a DEF Disconnect, callVars, Here, LateInv, Places, Group,
     InLateGroup, Reading
<1>10. CASE CloseLog
  BY <1>10, <1>a DEF CloseLog, Exit, vars, callVars, Here, LateInv, Places,
     Group, InLateGroup, Reading
<1> QED
  BY <1>1, <1>2, <1>3, <1>4, <1>5, <1>6, <1>7, <1>8, <1>9, <1>10
     DEF PollNext, Main, InCall

LEMMA PollInvariant == PollSpec => [](Here /\ LateInv)
  BY PollInitInv, PollStep, PTL DEF PollSpec

\* The calls of the program follow each other as the groups list them, and
\* none is made outside a group, for every number of iterations.
THEOREM PollTypeCorrect == PollSpec => []PollTypeOK
<1>1. Here => PollTypeOK
  BY DEF Here, PollTypeOK
<1> QED
  BY <1>1, PollInvariant, PTL

\* "All Failed count" is at least the number of groups whose last call found
\* the connection lost, wherever in or before the group that happened, and at
\* most that of all groups, for every TEST_COUNT.
THEOREM LossCountedCorrect == PollSpec => []LossCounted
<1>1. Here /\ LateInv => LossCounted
  BY DEF Here, LateInv, InLateGroup, LossCounted, Reading
<1> QED
  BY <1>1, PollInvariant, PTL
-----------------------------------------------------------------------------
(***************************************************************************)
(* The program is an application of M70Read, and so of M70Conn.            *)
(***************************************************************************)
LEMMA PollIsRead == Here /\ [PollNext]_allVars => [Next]_vars
<1> SUFFICES ASSUME Here, [PollNext]_allVars
             PROVE  [Next]_vars
  OBVIOUS
<1>1. CASE UNCHANGED allVars \/ LogInit \/ Sleep \/ CloseLog
  BY <1>1 DEF allVars, LogInit, Sleep, CloseLog
<1>2. CASE Connect \/ Disconnect
  <2>1. at = "idle" /\ alive /\ UNCHANGED callVars
    BY <1>2 DEF Connect, Disconnect, Here, Reading
  <2>2. ConnCalls
    BY <1>2, <2>1, ConnOnly
       DEF ConnCalls, Connect, Disconnect, Disconnected
  <2> QED
    BY <2>2 DEF Next
<1>3. CASE BeginsCall
  <2>1. Group[call] \in Fns
    BY GroupShape DEF Here
  <2>2. CallBegins(conn0, Group[call]) \/ CallRefused(conn0, Group[call])
    BY <1>3 DEF BeginsCall
  <2> QED
    BY <2>1, <2>2, ConnOnly DEF Next
<1>4. CASE InCall
  BY <1>4 DEF InCall, Next
<1>5. CASE DeviceHangsUp
  BY <1>5 DEF DeviceHangsUp, Next
<1>6. CASE EndsCall
  BY <1>6 DEF EndsCall, Next
<1> QED
  BY <1>1, <1>2, <1>3, <1>4, <1>5, <1>6 DEF PollNext, Main, InCall

\* Every behaviour of main.c is one of the reading functions' callers: what
\* is proved of M70Read and of M70Conn holds of the program.
THEOREM PollImplementsRead == PollSpec => Spec
<1>1. PollInit => Init
  BY DEF PollInit
<1> QED
  BY <1>1, PollIsRead, PollInvariant, PTL DEF PollSpec, Spec

(***************************************************************************)
(* The program connects once, so its structure is never overwritten, and   *)
(* after the disconnect it is not marked connected.                        *)
(***************************************************************************)
Clean ==
    /\ orphans = {}
    /\ pc \in {"log", "connect"} => conn[conn0].socket <= 0
    /\ pc = "close" => ~conn[conn0].connected
    /\ pc = "exit" => \/ status = 0 /\ ~conn[conn0].connected
                      \/ conn[conn0].socket <= 0

\* A call of the reading API overwrites no structure.
LEMMA RequestKeeps ==
    ASSUME Requesting
    PROVE  UNCHANGED orphans
<1>1. ASSUME NEW place, NEW r, Ask(place, r)
      PROVE  UNCHANGED orphans
  BY <1>1 DEF Ask, melGetData, Answered, Lost, EndOfFile, connVars
<1>2. CASE StatusNotReady
  BY <1>2 DEF StatusNotReady, SetError
<1>3. CASE \E r \in ResultKinds :
             \/ StatusMode(r) \/ StatusAuto(r) \/ StatusRun(r) \/ Single(r)
             \/ OverrideMethod(r) \/ OverrideCode(r) \/ OverrideRegister(r)
             \/ PairFirst(r) \/ PairSecond(r) \/ ListCount(r) \/ ListAxis(r)
  <2>1. \E place, r : Ask(place, r)
    BY <1>3, Zenon DEF StatusMode, StatusAuto, StatusRun, Single, OverrideMethod,
                OverrideCode, OverrideRegister, PairFirst, PairSecond,
                ListCount, ListAxis
  <2> QED
    BY <1>1, <2>1
<1> QED
  BY <1>2, <1>3 DEF Requesting

LEMMA CleanStep ==
    Here /\ Inv /\ Inv' /\ Clean /\ [PollNext]_allVars => Clean'
<1> SUFFICES ASSUME Here, Inv, Inv', Clean, [PollNext]_allVars
             PROVE  Clean'
  OBVIOUS
<1>a. /\ conn[conn0] \in [socket : Fds \union {-1, 0}, connected : BOOLEAN]
      /\ conn[conn0].socket \in Int /\ conn'[conn0].socket \in Int
      /\ DOMAIN conn = Conns
  <2>1. ConnTypeOK /\ ConnTypeOK'
    BY DEF Inv
  <2>2. /\ conn \in [Conns -> [socket : Fds \union {-1, 0}, connected : BOOLEAN]]
        /\ conn' \in [Conns -> [socket : Fds \union {-1, 0}, connected : BOOLEAN]]
    BY <2>1 DEF ConnTypeOK
  <2>3. \A fd \in Fds \union {-1, 0} : fd \in Int
    BY ConnAssumption
  <2> QED
    BY <2>2, <2>3, ConnOnly
<1>1. CASE UNCHANGED allVars
  BY <1>1 DEF allVars, vars, connVars, pollVars, Clean
<1>2. CASE LogInit
  BY <1>2 DEF LogInit, Exit, vars, connVars, Clean
<1>3. CASE Connect
  <2>1. /\ pc = "connect" /\ conn[conn0].socket <= 0 /\ orphans = {}
        /\ pc' = "basic" \/ (pc' = "exit" /\ ~check_conn_is_valid(conn0)')
    BY <1>3 DEF Connect, Clean, Exit
  <2>2. CASE m70_cnc_connect_Invalid
    BY <2>1, <2>2 DEF m70_cnc_connect_Invalid, SetError, Clean
  <2>3. CASE m70_cnc_connect(conn0)
    <3>1. orphans' = {}
      BY <1>a, <2>1, <2>3 DEF m70_cnc_connect
    <3>2. conn'[conn0].socket > 0 => conn'[conn0].connected
      <4>1. PICK o \in giop_connect :
               conn' = [conn EXCEPT ![conn0] = [socket |-> o.socket,
                                                connected |-> o.socket > 0]]
        BY <2>3 DEF m70_cnc_connect
      <4>2. conn'[conn0] = [socket |-> o.socket, connected |-> o.socket > 0]
        BY <1>a, <4>1, ConnOnly
      <4>3. conn'[conn0].socket = o.socket
        BY <4>2
      <4>4. ASSUME o.socket > 0
            PROVE  conn'[conn0] = [socket |-> o.socket, connected |-> TRUE]
        BY <4>2, <4>4, Zenon
      <4> QED
        BY <4>3, <4>4
    <3>3. ~check_conn_is_valid(conn0)' => conn'[conn0].socket <= 0
      BY <1>a, <3>2 DEF check_conn_is_valid
    <3> QED
      BY <2>1, <3>1, <3>3 DEF Clean
  <2> QED
    BY <1>3, <2>2, <2>3 DEF Connect
<1>4. CASE BeginsCall
  BY <1>4 DEF BeginsCall, CallBegins, CallRefused, SetError, connVars, Reading,
     Clean
<1>5. CASE InCall
  <2>1. pc' = pc /\ Reading
    BY <1>5, RequestShape
       DEF InCall, pollVars, StopsInCall, DeviceChanges, Here
  <2>2. UNCHANGED orphans
    BY <1>5, RequestKeeps DEF InCall, StopsInCall, Killed, Hangs, DeviceChanges,
                              connVars
  <2> QED
    BY <2>1, <2>2 DEF Reading, Clean
<1>6. CASE DeviceHangsUp
  BY <1>6 DEF DeviceHangsUp, Closes, DeviceCloses, pollVars, Clean
<1>7. CASE EndsCall
  BY <1>7 DEF EndsCall, CallEnds, connVars, Reading, Clean
<1>8. CASE Sleep
  BY <1>8 DEF Sleep, vars, connVars, Clean
<1>9. CASE Disconnect
  <2>1. pc' = "close" /\ m70_cnc_disconnect(conn0) /\ orphans' = orphans
    BY <1>9 DEF Disconnect, Disconnected, m70_cnc_disconnect
  <2>2. CASE check_conn_is_valid(conn0)
    <3>1. conn' = [conn EXCEPT ![conn0] = [socket |-> -1, connected |-> FALSE]]
      BY <2>1, <2>2 DEF m70_cnc_disconnect, giop_disconnect
    <3>2. ~conn'[conn0].connected
      BY <1>a, <3>1, ConnOnly
    <3> QED
      BY <2>1, <3>2 DEF Clean
  <2>3. CASE ~check_conn_is_valid(conn0)
    <3>1. conn' = conn
      BY <2>1, <2>3 DEF m70_cnc_disconnect
    <3>2. ~conn[conn0].connected
      BY <2>3, ConnOnly DEF Inv, Marked, check_conn_is_valid
    <3> QED
      BY <2>1, <3>1, <3>2 DEF Clean
  <2> QED
    BY <2>2, <2>3
<1>10. CASE CloseLog
  BY <1>10 DEF CloseLog, Exit, vars, connVars, Clean
<1> QED
  BY <1>1, <1>2, <1>3, <1>4, <1>5, <1>6, <1>7, <1>8, <1>9, <1>10
     DEF PollNext, Main, InCall

\* Whichever way the program ends by itself, the only socket it may leave
\* open (0 aside) is that of a connection it lost, which m70_cnc_disconnect
\* refused to close.
THEOREM CleanEndCorrect == PollSpec => []CleanEnd
<1>1. PollInit => Clean
  BY ConnOnly DEF PollInit, Init, ConnInit, Clean
<1>2. PollSpec => []Inv
  BY PollImplementsRead, ReadsAreConn, ConnInvariant, PTL
<1>3. PollSpec => []Clean
  BY <1>1, <1>2, CleanStep, PollInvariant, PTL DEF PollSpec
<1>4. Inv /\ Clean => CleanEnd
  <2> SUFFICES ASSUME Inv, Clean, pc = "exit",
                      NEW fd \in Fds \ {0}, link[fd] # "free"
               PROVE  /\ conn[conn0] = [socket |-> fd, connected |-> FALSE]
                      /\ status = 0
    BY DEF CleanEnd
  <2>1. conn[conn0].socket = fd
    BY PollAssumption DEF Inv, OnlyOverwrittenLost, Clean
  <2>2. fd \in Nat /\ fd # 0
    BY ConnAssumption
  <2>3. status = 0 /\ ~conn[conn0].connected
    BY <2>1, <2>2 DEF Clean
  <2>4. conn[conn0] \in [socket : Fds \union {-1, 0}, connected : BOOLEAN]
    BY ConnOnly DEF Inv, ConnTypeOK
  <2> QED
    BY <2>1, <2>3, <2>4
<1> QED
  BY <1>2, <1>3, <1>4, PTL
=============================================================================
