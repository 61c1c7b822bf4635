------------------------------ MODULE M70Poll ------------------------------
(***************************************************************************)
(* The demonstration program, main.c: it opens the log, connects, reads    *)
(* two groups of data TEST_COUNT times, disconnects and closes the log.    *)
(* Its calls are those of M70Read, of which it is one application.         *)
(***************************************************************************)
EXTENDS M70Read, Sequences

CONSTANTS
    conn0,          \* the program's m70_conn_t
    TEST_COUNT

ASSUME PollAssumption ==
    /\ Conns = {conn0}
    /\ TEST_COUNT \in Nat \ {0}

VARIABLES
    pc,         \* where main is
    i,          \* the iteration
    call,       \* the call of its group that is made, or comes next
    failed,     \* failed_count of main
    log,        \* the log: "off", "on"
    status,     \* history: the exit status, or NotEnded
    lateGroups  \* history: groups whose last call found the connection lost

pollVars == <<pc, i, call, failed, log, status, lateGroups>>
allVars == <<vars, pollVars>>

NotEnded == -2      \* status before the program ends

Places == {"log", "connect", "basic", "axes", "sleep", "disconnect", "close",
           "exit"}

\* The calls of the two groups, in order.
read_basic_info ==
    <<"nc_version", "nc_name_version", "plc_version", "nc_type",
      "system_count", "nc_axis_count", "spindle_axis_count", "all_axis_count",
      "status", "main_program_name", "main_program_name", "sub_program_name",
      "program_block", "current_tool_no", "counter", "alarm",
      "spindle_override", "spindle_load", "spindle_speed",
      "feed_override", "feed_speed", "power_on_time", "auto_operation_time",
      "auto_startup_time", "cycle_time", "cutting_time", "system_datetime">>

\* The names of the axes, then five kinds of position.
read_axis_position_info ==
    <<"axis_name">> \o [k \in 1..5 |-> "all_axis_position"]

ASSUME CallsAssumption ==
    {"axis_name", "all_axis_position"}
      \union {read_basic_info[k] : k \in 1..27} \subseteq Fns

Group == IF pc = "basic" THEN read_basic_info ELSE read_axis_position_info

PollInit ==
    /\ Init
    /\ pc = "log" /\ i = 0 /\ call = 1 /\ failed = 0
    /\ log = "off" /\ status = NotEnded /\ lateGroups = 0

Exit(code) == pc' = "exit" /\ status' = code
Reading == pc \in {"basic", "axes"}
-----------------------------------------------------------------------------
\* log_system_init_example ends the process when the log cannot be opened.
LogInit ==
    /\ alive /\ pc = "log"
    /\ \/ pc' = "connect" /\ log' = "on" /\ UNCHANGED status
       \/ Exit(1) /\ UNCHANGED log
    /\ UNCHANGED <<vars, i, call, failed, lateGroups>>

\* A failure ends the program without closing the log.
Connect ==
    /\ alive /\ pc = "connect"
    /\ m70_cnc_connect(conn0) \/ m70_cnc_connect_Invalid
    /\ IF check_conn_is_valid(conn0)' THEN pc' = "basic" /\ UNCHANGED status
                                      ELSE Exit(-1)
    /\ UNCHANGED <<callVars, i, call, failed, log, lateGroups>>

\* The last call of a group, or one that is the last if it fails.
MayBeLast == call = Len(Group) \/ (pc = "axes" /\ call = 1)

BeginsCall ==
    /\ Reading
    /\ CallBegins(conn0, Group[call]) \/ CallRefused(conn0, Group[call])
    /\ lateGroups' = IF MayBeLast /\ ~check_conn_is_valid(conn0)
                       THEN lateGroups + 1 ELSE lateGroups
    /\ UNCHANGED <<pc, i, call, failed, log, status>>

\* Inside a call.
InCall == (Requesting \/ StopsInCall \/ DeviceChanges) /\ UNCHANGED pollVars

\* The device may close the connection at any time.
DeviceHangsUp == Closes /\ UNCHANGED pollVars

\* Mutant: off by one.
Ended_TooLate == call > Len(Group)

\* A group ends after its last call, or without names of the axes.
Ended == call = Len(Group) \/ (pc = "axes" /\ call = 1 /\ ret # OK)

\* Mutant: only the basic group is counted.
Counted_Basic == IF ret # OK /\ pc = "basic" THEN failed + 1 ELSE failed

\* A group returns what its last call did: its own count is not used.
Counted == IF ret # OK THEN failed + 1 ELSE failed

\* Mutant: the loop over the kinds of position does not count.
NextCall_Same == IF pc = "axes" /\ call > 1 THEN call ELSE call + 1

\* The calls follow each other; those of the axes after the first are a loop.
NextCall == call + 1

EndsCall ==
    /\ Reading /\ CallEnds
    /\ IF Ended
         THEN /\ call' = 1 /\ failed' = Counted
              /\ pc' = IF pc = "basic" THEN "axes" ELSE "sleep"
         ELSE call' = NextCall /\ UNCHANGED <<failed, pc>>
    /\ UNCHANGED <<i, log, status, lateGroups>>

NextIteration == i + 1

Sleep ==
    /\ alive /\ pc = "sleep"
    /\ i' = NextIteration
    /\ pc' = IF NextIteration < TEST_COUNT THEN "basic" ELSE "disconnect"
    /\ UNCHANGED <<vars, call, failed, log, status, lateGroups>>

\* Mutant: the structure is cleared by hand.
Disconnected_Cleared ==
    /\ conn' = [conn EXCEPT ![conn0] = [socket |-> 0, connected |-> FALSE]]
    /\ UNCHANGED <<link, errno, last, alive, orphans>>

Disconnected == m70_cnc_disconnect(conn0)

Disconnect ==
    /\ alive /\ pc = "disconnect"
    /\ Disconnected
    /\ pc' = "close"
    /\ UNCHANGED <<callVars, i, call, failed, log, status, lateGroups>>

CloseLog ==
    /\ alive /\ pc = "close"
    /\ log' = "off"
    /\ Exit(0)
    /\ UNCHANGED <<vars, i, call, failed, lateGroups>>

Main == LogInit \/ Connect \/ BeginsCall \/ EndsCall \/ Sleep \/ Disconnect
          \/ CloseLog \/ (Requesting /\ UNCHANGED pollVars)

PollNext == Main \/ InCall \/ DeviceHangsUp

PollSpec == PollInit /\ [][PollNext]_allVars

\* The thread of main runs, as long as it is not killed and hangs in no
\* request.
PollFairSpec == PollSpec /\ WF_allVars(Main)
-----------------------------------------------------------------------------
(* Properties.                                                             *)

\* A call is in progress only inside a group, and is the group's next; the
\* loop is bounded.
PollTypeOK ==
    /\ pc \in Places /\ i \in 0..TEST_COUNT /\ log \in {"off", "on"}
    /\ call \in 1..Len(Group)
    /\ at # "idle" => Reading /\ fn = Group[call] /\ cur = conn0
    /\ status \in {NotEnded, 0, 1, -1} /\ (status # NotEnded => pc = "exit")

\* A connection that is lost is never used nor replaced: each group in which
\* it is lost before the last call, in the middle of it too, and each one
\* after that is counted as failed, so "All Failed count" is at least their
\* number, and never more than that of the groups.
LossCounted ==
    /\ pc \in {"sleep", "disconnect", "close"} => failed >= lateGroups
    /\ failed <= 2 * (i + 1)

\* When the program ends by itself, the only socket it leaves open is that
\* of a connection that was lost.
CleanEnd ==
    pc = "exit" => \A fd \in Fds \ {0} : link[fd] # "free" =>
        /\ conn[conn0] = [socket |-> fd, connected |-> FALSE]
        /\ status = 0

\* Once the connection is lost, wherever in a group that is, the program
\* comes to its end: nothing more is asked, so that no request can hang or
\* kill it, and its calls and loops come to an end without an answer.
ProgramEnds == Reading /\ ~check_conn_is_valid(conn0) ~> pc = "exit"
=============================================================================
