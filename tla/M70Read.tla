------------------------------ MODULE M70Read ------------------------------
(***************************************************************************)
(* The reading functions m70_cnc_read_* of m70_ezsocket.c, over M70Conn.   *)
(*                                                                         *)
(* A function makes one or more requests, one after the other, and the     *)
(* device and the connection may change between two of them.  A step is    *)
(* one request with what the function does before the next, so a call is   *)
(* CallBegins, its requests, CallEnds; at is the request it is at.  The    *)
(* connection is that of M70Conn, and every step is one of M70Conn's or    *)
(* leaves it alone.                                                        *)
(***************************************************************************)
EXTENDS M70Conn

CONSTANTS
    Fns,        \* the functions called
    Modes, Runs,        \* what registers of the device may hold
    Codes, Counts, Numbers, AxisIndexes,
    DayLen, LastDate,   \* the device's clock: instants in a day, last date
    MaxChanges  \* bound: changes of the device during a call

\* The number of axes is a byte.
ASSUME ReadAssumption ==
    /\ DayLen \in Nat \ {0} /\ LastDate \in Nat
    /\ Counts \subseteq Nat /\ MaxChanges \in Nat

VARIABLES
    at,         \* "idle", "returned", or the request the call is at
    cur, fn,    \* the connection and the function of the call
    axis,       \* the axis of the call, or of its next request
    dev,        \* device: the registers the function reads
    got,        \* what earlier requests of the call returned
    out,        \* the caller's output parameters
    ret,        \* the code returned
    changes,    \* changes of the device during the call
    seen,       \* history: the states of dev during the call
    results     \* history: the results of the call's requests

callVars == <<at, cur, fn, axis, dev, got, out, ret, changes, seen, results>>
vars == <<connVars, callVars>>

OK == 0
FAILED == 1
Caller == -99       \* an output the function has not written
Running == -1       \* ret before a call returned
None == "none"

\* m70_device_status_e, m70_run_mode_e, m70_run_status_e
STOP == 1
RUN == 2
IDLE == 3
OFFLINE == 4
DEBUG == 5
MEM == 0
DNC == 1
LNK == 2
LIN == 16
RST == 0
EMG == 1

(* Functions with one request, by how they treat their output.             *)
read_data_count == {"system_count", "nc_axis_count", "all_axis_count",
                    "spindle_axis_count", "plc_axis_count"}
ProgramNames == {"main_program_name", "sub_program_name", "program_file_info"}
Versions == {"nc_version", "nc_name_version", "plc_version"}
Blocks == {"program_block", "alarm"}
Times == {"power_on_time", "auto_operation_time", "auto_startup_time",
          "cycle_time", "cutting_time"}
Numbered == {"counter", "nc_type", "current_tool_no", "feed_speed"}
OfAxis == {"svo_load", "axis_position", "spindle_speed", "spindle_load"}

\* *out = 0 before the request.
Cleared == Times \union Numbered \union (OfAxis \ {"svo_load"}) \union {"is_alarm"}
Singles == read_data_count \union ProgramNames \union Versions \union Blocks
             \union Times \union Numbered \union OfAxis \union {"is_alarm"}
Overrides == {"spindle_override", "feed_override"}
Pairs == {"system_datetime", "external_accumulative_time"}
Lists == {"axis_name", "all_axis_position"}
-----------------------------------------------------------------------------
(* The device (external): the registers a function reads.                  *)

DeviceStates(f) ==
    CASE f = "status" -> [mode : Modes, auto : {0, 1}, run : Runs]
      [] f \in Pairs -> [first : 0 .. LastDate, second : 0 .. DayLen - 1]
      [] f \in Overrides -> [method : {0, 1}, code : Codes, register : Numbers]
      [] f \in Lists -> [count : Counts]
      [] f = "is_alarm" -> [value : {0, 1}]
      [] f \in OfAxis -> [value : {0}]
      [] OTHER -> [value : Numbers]

AxisFlags == <<1, 2, 4, 8, 16, 32, 64, 128>>

\* The number of the axis with that flag; the registers of an axis hold it.
AxisOf(flag) == CHOOSE i \in 1..8 : AxisFlags[i] = flag

\* A clock goes on; anything else may become anything.
NextStates(f, s) ==
    IF f # "system_datetime" THEN DeviceStates(f) \ {s}
    ELSE IF s.second < DayLen - 1 THEN {[s EXCEPT !.second = @ + 1]}
    ELSE IF s.first < LastDate THEN {[first |-> s.first + 1, second |-> 0]}
    ELSE {}
-----------------------------------------------------------------------------
(* Conversions.                                                            *)

\* Mutant: the eighth axis is forgotten.
get_axis_real_no_Seven(i) == IF i \in 1..7 THEN AxisFlags[i] ELSE 1

get_axis_real_no(i) == IF i \in 1..8 THEN AxisFlags[i] ELSE 1

\* The load of the first axis is read, whichever was asked for.
AxisFlag(f, i) == IF f = "svo_load" THEN get_axis_real_no(1)
                                    ELSE get_axis_real_no(i)

OverrideOfCode(f, code) ==
    CASE f = "feed_override" -> (15 - (code % 16)) * 10
      [] code = 7 -> 50   [] code = 3 -> 60   [] code = 2 -> 70
      [] code = 6 -> 80   [] code = 4 -> 90   [] code = 1 -> 110
      [] code = 5 -> 120  [] OTHER -> 100

\* What a function makes of the number it read.
Shown(f, i, n) ==
    CASE f = "nc_type" -> IF n = 1 THEN 1 ELSE 0
      [] f \in OfAxis -> AxisOf(AxisFlag(f, i))
      [] OTHER -> n
-----------------------------------------------------------------------------
(***************************************************************************)
(* A request: answered with data or with an error; the connection is lost; *)
(* success without data, at the end of the stream or of an error reply in  *)
(* two segments (MCGiopErrorLost); refused on an invalid connection.  One  *)
(* that does not return has no result: see StopsInCall.                    *)
(***************************************************************************)
ResultKinds == {"ok", "error", "lost", "empty", "invalid"}

\* Mutant: the socket of a lost connection is forgotten.
melGetData_Forgets(c, r) ==
    \/ r = "ok" /\ Answered(c)
    \/ r = "lost" /\ Lost(c)
    \/ /\ r = "invalid" /\ check_conn_is_valid(c)
       /\ conn' = [conn EXCEPT ![c] = [socket |-> -1, connected |-> FALSE]]
       /\ UNCHANGED <<link, errno, last, alive, orphans>>

melGetData(c, r) ==
    \/ r \in {"ok", "error"} /\ Answered(c)
    \/ r = "lost" /\ Lost(c)
    \/ r = "empty" /\ (EndOfFile(c) \/ Answered(c))
    \/ r = "invalid" /\ ~check_conn_is_valid(c) /\ UNCHANGED connVars

\* Mutant: any answer counts.
Succeeded_Any(r) == r \in {"ok", "error", "empty"}

Succeeded(r) == r \in {"ok", "empty"}

\* The local variable a successful request leaves: its initial value if no
\* data came.
Read(r, register, initial) == IF r = "ok" THEN register ELSE initial

Ask(place, r) ==
    /\ alive /\ at = place
    /\ melGetData(cur, r)
    /\ results' = results \union {r}
    /\ UNCHANGED <<cur, fn, dev, changes, seen>>

\* Mutant: ret is set before the last request.
GoTo_Early(place) == at' = place /\ ret' = OK

\* The call goes on at another request, or returns.
GoTo(place) == at' = place /\ UNCHANGED ret
Returns(code) == at' = "returned" /\ ret' = code
-----------------------------------------------------------------------------
(* Beginning and end of a call.                                            *)

NoCall ==
    /\ at = "idle" /\ cur = None /\ fn = None /\ axis = 0 /\ dev = None
    /\ got = None /\ out = None /\ ret = Running
    /\ changes = 0 /\ seen = {} /\ results = {}

\* The outputs as the function leaves them before its first request.
Untouched(f) ==
    CASE f = "status" -> [status |-> Caller, mode |-> Caller, run |-> Caller]
      [] f \in Pairs -> [first |-> Caller, second |-> Caller]
      [] f \in Lists -> [count |-> Caller, entries |-> [i \in {} |-> Caller]]
      [] OTHER -> [value |-> Caller]

AtFirst(f) ==
    CASE f = "status" -> [status |-> OFFLINE, mode |-> MEM, run |-> RST]
      [] f \in Pairs -> [first |-> 0, second |-> 0]
      [] f \in Cleared -> [value |-> 0]
      [] OTHER -> Untouched(f)

FirstRequest(f) ==
    CASE f = "status" -> "mode"
      [] f \in Pairs -> "first"
      [] f \in Overrides -> "method"
      [] f \in Lists -> "count"
      [] OTHER -> "single"

\* The sub program has no path: m70_cnc_read_sub_program_name asks nothing.
NoRequest == {"sub_program_path"}

Call(c, f) ==
    /\ alive /\ at = "idle"
    /\ cur' = c /\ fn' = f /\ got' = None /\ results' = {} /\ changes' = 0
    /\ dev' \in DeviceStates(f) /\ seen' = {dev'}
    /\ axis' \in IF f \in OfAxis THEN AxisIndexes ELSE {1}

CallBegins(c, f) ==
    /\ Call(c, f)
    /\ check_conn_is_valid(c) /\ f \notin NoRequest
    /\ out' = AtFirst(f)
    /\ GoTo(FirstRequest(f))
    /\ UNCHANGED connVars

\* Nothing is written, and only m70_cnc_read_status records an error.
CallRefused(c, f) ==
    /\ Call(c, f)
    /\ ~check_conn_is_valid(c) \/ f \in NoRequest
    /\ out' = Untouched(f)
    /\ Returns(FAILED)
    /\ IF f = "status" THEN SetError(CONN_INVALID) ELSE UNCHANGED connVars

\* The caller takes the outputs.
CallEnds ==
    /\ alive /\ at = "returned"
    /\ at' = "idle" /\ cur' = None /\ fn' = None /\ axis' = 0 /\ dev' = None
    /\ got' = None /\ out' = None /\ ret' = Running
    /\ changes' = 0 /\ seen' = {} /\ results' = {}
    /\ UNCHANGED connVars
-----------------------------------------------------------------------------
(* m70_cnc_read_status                                                     *)

StatusMode(r) ==
    /\ Ask("mode", r)
    /\ IF Succeeded(r)
         THEN LET mode == Read(r, dev.mode, 0) IN
              /\ out' = [out EXCEPT !.mode = mode,
                            !.status = IF mode \in LNK..LIN THEN DEBUG ELSE IDLE]
              /\ GoTo(IF mode \in {MEM, DNC} THEN "auto" ELSE "run")
         ELSE GoTo("not ready") /\ UNCHANGED out
    /\ UNCHANGED <<axis, got>>

StatusNotReady ==
    /\ alive /\ at = "not ready"
    /\ SetError(CNC_NOT_READY)
    /\ Returns(FAILED)
    /\ UNCHANGED <<cur, fn, axis, dev, got, out, changes, seen, results>>

StatusAuto(r) ==
    /\ Ask("auto", r)
    /\ out' = IF Succeeded(r) /\ Read(r, dev.auto, 0) = 1
                THEN [out EXCEPT !.status = RUN] ELSE out
    /\ GoTo("run")
    /\ UNCHANGED <<axis, got>>

\* Mutant: an emergency stop does not change the status.
Emergency_Ignored(run, status) == status

Emergency(run, status) == IF run = EMG THEN STOP ELSE status

\* OK, even if this request and the one before it failed.
StatusRun(r) ==
    /\ Ask("run", r)
    /\ out' = IF Succeeded(r)
                THEN LET run == Read(r, dev.run, 0) IN
                     [out EXCEPT !.run = run, !.status = Emergency(run, @)]
                ELSE out
    /\ Returns(OK)
    /\ UNCHANGED <<axis, got>>
-----------------------------------------------------------------------------
(* Functions with one request.                                             *)

\* Without data: texts and blocks are left as they are, the load of a
\* servo axis and the alarm are uninitialised, the rest is 0.
WithoutData(f) ==
    CASE f \in Versions \union Blocks -> {Caller}
      [] f = "svo_load" -> Numbers
      [] f = "is_alarm" -> {0, 1}
      [] OTHER -> {0}

\* m70_cnc_read_is_alarm never sets ret.
Single(r) ==
    /\ Ask("single", r)
    /\ IF Succeeded(r)
         THEN \E n \in Read(r, {Shown(fn, axis, dev.value)}, WithoutData(fn)) :
                out' = [value |-> n]
         ELSE UNCHANGED out
    /\ Returns(IF Succeeded(r) /\ fn # "is_alarm" THEN OK ELSE FAILED)
    /\ UNCHANGED <<axis, got>>
-----------------------------------------------------------------------------
(* m70_cnc_read_spindle_override, m70_cnc_read_feed_override: how the      *)
(* override is set, then its code or its register.                         *)

OverrideMethod(r) ==
    /\ Ask("method", r)
    /\ IF Succeeded(r)
         THEN /\ GoTo(IF Read(r, dev.method, 0) = 0 THEN "code" ELSE "register")
              /\ UNCHANGED out
         ELSE Returns(FAILED) /\ out' = [value |-> 0]
    /\ UNCHANGED <<axis, got>>

\* Mutant: the method, read into the same variable, is taken for the code.
CodeRead_Method(r) == 0

CodeRead(r) == Read(r, dev.code, 0)

OverrideCode(r) ==
    /\ Ask("code", r)
    /\ IF Succeeded(r)
         THEN /\ out' = [value |-> OverrideOfCode(fn, CodeRead(r))]
              /\ Returns(OK)
         ELSE Returns(FAILED) /\ out' = [value |-> 0]
    /\ UNCHANGED <<axis, got>>

\* The ret that is set is a variable of the block.
OverrideRegister(r) ==
    /\ Ask("register", r)
    /\ out' = [value |-> IF Succeeded(r) THEN Read(r, dev.register, 0) ELSE 0]
    /\ Returns(FAILED)
    /\ UNCHANGED <<axis, got>>
-----------------------------------------------------------------------------
(* m70_cnc_read_system_datetime, m70_cnc_read_external_accumulative_time   *)

\* Mutant: the time, then the date.
PairOrder_Swapped == <<"second", "first">>

PairOrder == <<"first", "second">>

PairFirst(r) ==
    /\ Ask("first", r)
    /\ IF Succeeded(r) THEN got' = Read(r, dev[PairOrder[1]], 0) /\ GoTo("second")
                       ELSE Returns(FAILED) /\ UNCHANGED got
    /\ UNCHANGED <<axis, out>>

\* Mutant: the first value is written although the second is missing.
PairWritten_Early(first, second, r) ==
    [out EXCEPT ![PairOrder[1]] = first,
                ![PairOrder[2]] = IF Succeeded(r) THEN second ELSE @]

PairWritten(first, second, r) ==
    IF Succeeded(r)
      THEN [out EXCEPT ![PairOrder[1]] = first, ![PairOrder[2]] = second]
      ELSE out

PairSecond(r) ==
    /\ Ask("second", r)
    /\ out' = PairWritten(got, Read(r, dev[PairOrder[2]], 0), r)
    /\ Returns(IF Succeeded(r) THEN OK ELSE FAILED)
    /\ UNCHANGED <<axis, got>>
-----------------------------------------------------------------------------
(* m70_cnc_read_axis_name, m70_cnc_read_all_axis_position: the number of   *)
(* axes, then a request for each; 0 stands for an entry without name or    *)
(* position.                                                               *)

AxisOrReturn(i, count) == IF i <= count THEN GoTo("axis") ELSE Returns(OK)

ListCount(r) ==
    /\ Ask("count", r)
    /\ IF Succeeded(r)
         THEN LET count == Read(r, dev.count, 0) IN
              /\ out' = [count |-> count, entries |-> [i \in 1..count |-> Caller]]
              /\ AxisOrReturn(1, count)
         ELSE Returns(FAILED) /\ UNCHANGED out
    /\ UNCHANGED <<axis, got>>

NextAxis == axis + 1

\* The result of the request is not looked at.
ListAxis(r) ==
    /\ Ask("axis", r)
    /\ out' = [out EXCEPT !.entries[axis] =
                 Read(r, AxisOf(get_axis_real_no(axis)), 0)]
    /\ axis' = NextAxis
    /\ AxisOrReturn(NextAxis, out.count)
    /\ UNCHANGED got
-----------------------------------------------------------------------------
Requesting ==
    \/ \E r \in ResultKinds :
          \/ StatusMode(r) \/ StatusAuto(r) \/ StatusRun(r) \/ Single(r)
          \/ OverrideMethod(r) \/ OverrideCode(r) \/ OverrideRegister(r)
          \/ PairFirst(r) \/ PairSecond(r) \/ ListCount(r) \/ ListAxis(r)
    \/ StatusNotReady

\* SIGPIPE, or a request that never returns: nothing comes after it.
StopsInCall ==
    /\ alive /\ at \notin {"idle", "returned", "not ready"}
    /\ Killed(cur) \/ Hangs(cur)
    /\ UNCHANGED callVars

\* The registers change while a call is in progress.
DeviceChanges ==
    /\ alive /\ at \notin {"idle", "returned"} /\ changes < MaxChanges
    /\ dev' \in NextStates(fn, dev)
    /\ seen' = seen \union {dev'} /\ changes' = changes + 1
    /\ UNCHANGED <<connVars, at, cur, fn, axis, got, out, ret, results>>

\* Between two calls: the other calls of the application.
ConnCalls ==
    /\ alive /\ at = "idle"
    /\ \/ \E c \in Conns : m70_cnc_connect(c) \/ m70_cnc_disconnect(c)
       \/ m70_cnc_connect_Invalid
    /\ UNCHANGED callVars

Closes ==
    /\ alive
    /\ \E fd \in Fds : DeviceCloses(fd)
    /\ UNCHANGED callVars

Init == ConnInit /\ NoCall

Next ==
    \/ \E c \in Conns, f \in Fns : CallBegins(c, f) \/ CallRefused(c, f)
    \/ Requesting
    \/ CallEnds
    \/ StopsInCall
    \/ DeviceChanges
    \/ ConnCalls
    \/ Closes

Spec == Init /\ [][Next]_vars
-----------------------------------------------------------------------------
(* Properties.                                                             *)

Returned == at = "returned"

\* Every request was answered, with data.
AllRead == results = {"ok"}

ReadTypeOK ==
    /\ ConnTypeOK
    /\ at \in {"idle", "returned", "mode", "auto", "run", "not ready", "single",
               "method", "code", "register", "first", "second", "count", "axis"}
    /\ ret \in {Running, OK, FAILED} /\ (ret # Running <=> Returned)
    /\ at # "idle" =>
         /\ cur \in Conns /\ fn \in Fns
         /\ DOMAIN out = DOMAIN Untouched(fn)
         /\ dev \in seen /\ seen \subseteq DeviceStates(fn)
         /\ changes \in 0..MaxChanges
         /\ results \subseteq ResultKinds

\* The status is put together from three registers read at three times:
\* yet a mode or run state that is reported was the device's during the
\* call, RUN says that automatic operation was on in a mode that has it, and
\* STOP that an emergency stop was seen; one that lasts is never missed.
StatusTrue ==
    Returned /\ fn = "status" /\ ret = OK /\ "empty" \notin results =>
        /\ out.mode \in {s.mode : s \in seen}
        /\ out.run \in {s.run : s \in seen} \/ (~AllRead /\ out.run = RST)
        /\ out.status = RUN =>
              out.mode \in {MEM, DNC} /\ \E s \in seen : s.auto = 1
        /\ out.status = STOP <=> out.run = EMG
        /\ AllRead /\ (\A s \in seen : s.run = EMG) => out.status = STOP

\* Date and time are two requests, and midnight may come between them: the
\* instant returned is never later than now, and less than a day before the
\* call began.
Stamp(s) == s.first * DayLen + s.second

ClockNeverAhead ==
    Returned /\ fn = "system_datetime" /\ ret = OK /\ "empty" \notin results =>
        /\ Stamp(out) <= Stamp(dev)
        /\ \A s \in seen : (\A t \in seen : Stamp(s) <= Stamp(t)) =>
              Stamp(out) > Stamp(s) - DayLen

\* A pair is written as a whole or not at all, and so is any other output:
\* a function that returns FAILED leaves what it had before its request.
NothingHalfWritten ==
    Returned /\ ret = FAILED /\ ~AllRead /\ "empty" \notin results =>
        \/ out \in {AtFirst(fn), Untouched(fn)}
        \/ fn \in Overrides /\ out.value = 0

\* Position and name number i are those of axis i, up to the eighth, for
\* the lists and for the functions that take an axis; an entry is missing
\* only if a request failed.
AxesAligned ==
    /\ Returned /\ ret = OK /\ fn \in Lists =>
          \A i \in 1..out.count : i <= 8 =>
             out.entries[i] = i \/ (out.entries[i] = 0 /\ ~AllRead)
    /\ Returned /\ AllRead /\ fn \in OfAxis \ {"svo_load"} /\ axis \in 1..8 =>
          out.value = axis

\* When all requests of a call were answered, an output is made of what the
\* device held during the call, whichever of its branches the call took and
\* whatever code it returned.
OutputsRead ==
    Returned /\ AllRead =>
        /\ fn \in Singles \ OfAxis =>
              out.value \in {Shown(fn, axis, s.value) : s \in seen}
        /\ fn \in Overrides =>
              \E s \in seen : out.value =
                 IF ret = OK THEN OverrideOfCode(fn, s.code) ELSE s.register

\* OK means that every request the outputs depend on was answered with
\* success; the status and the lists may lack what later requests read.
OkMeansAnswered ==
    Returned /\ ret = OK =>
        /\ results \intersect {"ok", "empty"} # {}
        /\ fn \notin Lists \union {"status"} => results \subseteq {"ok", "empty"}

\* FAILED means an error: a call whose requests were all answered with
\* success does not return it.  (typedef.h:19 "M70_ERROR_CODE_FAILED = 1,
\* // Error")
FailedMeansFailed == Returned /\ AllRead => ret = OK
=============================================================================
