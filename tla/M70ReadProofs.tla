---------------------------- MODULE M70ReadProofs ----------------------------
(***************************************************************************)
(* Proofs about M70Read for any application, device and number of changes: *)
(* that reading leaves the connections to M70Conn, and that date and time  *)
(* fit together.                                                           *)
(***************************************************************************)
EXTENDS M70Read, M70ConnProofs

(***************************************************************************)
(* Reading implements M70Conn.  Every request is one over a connection of  *)
(* the application, by a living process.                                   *)
(***************************************************************************)
OfConn == at # "idle" => cur \in Conns

\* The connection's part of a step of a call.
Quiet == [ConnNext]_connVars

LEMMA AskQuiet ==
    ASSUME OfConn, NEW place, place # "idle", NEW r, Ask(place, r)
    PROVE  Quiet /\ cur' \in Conns
<1>1. alive /\ cur \in Conns /\ cur' = cur /\ melGetData(cur, r)
  BY DEF Ask, OfConn
<1>2. Request(cur) \/ UNCHANGED connVars
  BY <1>1 DEF melGetData, Request
<1>3. Request(cur) => ConnNext
  BY <1>1 DEF ConnNext
<1> QED
  BY <1>1, <1>2, <1>3 DEF Quiet

LEMMA ErrorQuiet ==
    ASSUME alive, NEW code \in RecordedOnly, SetError(code)
    PROVE  Quiet
  BY DEF Quiet, ConnNext

LEMMA OfConnStep == OfConn /\ [Next]_vars => OfConn' /\ Quiet
<1> SUFFICES ASSUME OfConn, [Next]_vars
             PROVE  OfConn' /\ Quiet
  OBVIOUS
<1>1. CASE UNCHANGED vars
  BY <1>1 DEF vars, callVars, OfConn, Quiet
<1>2. ASSUME NEW c \in Conns, NEW f \in Fns, CallBegins(c, f)
      PROVE  OfConn' /\ Quiet
  BY <1>2 DEF CallBegins, Call, OfConn, Quiet
<1>3. ASSUME NEW c \in Conns, NEW f \in Fns, CallRefused(c, f)
      PROVE  OfConn' /\ Quiet
  <2>1. cur' \in Conns /\ alive
    BY <1>3 DEF CallRefused, Call
  <2>2. CASE f = "status"
    BY <1>3, <2>1, <2>2, ErrorQuiet DEF CallRefused, RecordedOnly, OfConn
  <2>3. CASE f # "status"
    BY <1>3, <2>1, <2>3 DEF CallRefused, Quiet, OfConn
  <2> QED
    BY <2>2, <2>3
<1>4. ASSUME NEW r \in ResultKinds,
             \/ StatusMode(r) \/ StatusAuto(r) \/ StatusRun(r) \/ Single(r)
             \/ OverrideMethod(r) \/ OverrideCode(r) \/ OverrideRegister(r)
             \/ PairFirst(r) \/ PairSecond(r) \/ ListCount(r) \/ ListAxis(r)
      PROVE  OfConn' /\ Quiet
  <2>1. \E place \in {"mode", "auto", "run", "single", "method", "code",
                      "register", "first", "second", "count", "axis"} :
           Ask(place, r)
    BY <1>4, Zenon DEF StatusMode, StatusAuto, StatusRun, Single, OverrideMethod,
                OverrideCode, OverrideRegister, PairFirst, PairSecond,
                ListCount, ListAxis
  <2> QED
    BY <2>1, AskQuiet DEF OfConn
<1>5. CASE StatusNotReady
  <2>1. alive /\ SetError(CNC_NOT_READY) /\ cur' = cur /\ at # "idle"
    BY <1>5 DEF StatusNotReady
  <2> QED
    BY <2>1, ErrorQuiet DEF RecordedOnly, OfConn
<1>6. CASE CallEnds
  BY <1>6 DEF CallEnds, OfConn, Quiet
<1>7. CASE StopsInCall
  <2>1. /\ alive /\ at # "idle" /\ UNCHANGED callVars
        /\ Killed(cur) \/ Hangs(cur)
    BY <1>7 DEF StopsInCall
  <2>2. cur \in Conns /\ OfConn'
    BY <2>1 DEF OfConn, callVars
  <2> QED
    BY <2>1, <2>2 DEF Quiet, ConnNext, Request
<1>8. CASE DeviceChanges
  BY <1>8 DEF DeviceChanges, OfConn, Quiet
<1>9. CASE ConnCalls
  <2>1. alive /\ OfConn'
    BY <1>9 DEF ConnCalls, OfConn, callVars
  <2>2. CASE m70_cnc_connect_Invalid
    BY <2>1, <2>2, ErrorQuiet DEF m70_cnc_connect_Invalid, RecordedOnly
  <2>3. CASE \E c \in Conns : m70_cnc_connect(c) \/ m70_cnc_disconnect(c)
    BY <2>1, <2>3, Zenon DEF Quiet, ConnNext
  <2> QED
    BY <1>9, <2>2, <2>3 DEF ConnCalls
<1>10. CASE Closes
  BY <1>10, Zenon DEF Closes, OfConn, Quiet, ConnNext, callVars
<1> QED
  BY <1>1, <1>2, <1>3, <1>4, <1>5, <1>6, <1>7, <1>8, <1>9, <1>10
     DEF Next, Requesting

LEMMA OfConnCorrect == Spec => []OfConn
<1>1. Init => OfConn
  BY DEF Init, NoCall, OfConn
<1> QED
  BY <1>1, OfConnStep, PTL DEF Spec

\* Whatever functions are called and however their requests end, what they
\* do to structures, descriptors and the last error is what M70Conn allows.
THEOREM ReadsAreConn == Spec => ConnSpec
<1>1. Init => ConnInit
  BY DEF Init
<1>2. OfConn /\ [Next]_vars => [ConnNext]_connVars
  BY OfConnStep DEF Quiet
<1> QED
  BY <1>1, <1>2, OfConnCorrect, PTL DEF Spec, ConnSpec

\* So no reading function closes, or sends over, another's socket.
THEOREM ReadersOwnDescriptor == Spec => []OwnDescriptor
  BY ReadsAreConn, OwnDescriptorCorrect, PTL
-----------------------------------------------------------------------------
(***************************************************************************)
(* Date and time.  The device's clock only goes on: of the instants of a   *)
(* call the present one is the latest, in date and as a whole.  The date   *)
(* that was read is that of one of them.                                   *)
(***************************************************************************)
Instants == [first : 0 .. LastDate, second : 0 .. DayLen - 1]

Dating == fn = "system_datetime" /\ at # "idle"

ClockInv ==
    Dating =>
      /\ at \in {"first", "second", "returned"}
      /\ at \in {"first", "second"} => out = [first |-> 0, second |-> 0]
      /\ dev \in seen /\ seen \subseteq Instants
      /\ \A s \in seen : s.first <= dev.first /\ Stamp(s) <= Stamp(dev)
      /\ at = "second" /\ "empty" \notin results =>
           \E s \in seen : got = s.first
      /\ ClockNeverAhead

LEMMA ClockStates == DeviceStates("system_datetime") = Instants
  BY DEF DeviceStates, Pairs, Overrides, Lists, OfAxis, Instants

\* Stamps are integers, as is every part of one.
LEMMA StampType ==
    ASSUME NEW s \in Instants
    PROVE  /\ s.first \in Nat /\ s.second \in Nat /\ s.second < DayLen
           /\ s.first * DayLen \in Nat
           /\ Stamp(s) = s.first * DayLen + s.second
           /\ Stamp(s) \in Nat
<1>1. /\ s.first \in Nat /\ s.second \in Nat /\ s.second < DayLen
      /\ DayLen \in Nat
  BY ReadAssumption DEF Instants
<1>2. s.first * DayLen \in Nat
  BY <1>1
<1> QED
  BY <1>1, <1>2 DEF Stamp

LEMMA TimesMonotonic ==
    ASSUME NEW a \in Nat, NEW b \in Nat, NEW n \in Nat, a <= b
    PROVE  a * n <= b * n
  BY SMT

\* The clock goes on.
LEMMA ClockGoesOn ==
    ASSUME NEW s \in Instants, NEW t \in NextStates("system_datetime", s)
    PROVE  t \in Instants /\ s.first <= t.first /\ Stamp(s) <= Stamp(t)
<1>1. CASE s.second < DayLen - 1
  <2>1. t = [s EXCEPT !.second = @ + 1]
    BY <1>1 DEF NextStates
  <2>2. t \in Instants /\ t.first = s.first /\ t.second = s.second + 1
    BY <1>1, <2>1, StampType, ReadAssumption DEF Instants
  <2> QED
    BY <2>2, StampType
<1>2. CASE ~(s.second < DayLen - 1)
  <2>1. s.first < LastDate /\ t = [first |-> s.first + 1, second |-> 0]
    BY <1>2 DEF NextStates
  <2>2. t \in Instants /\ t.first = s.first + 1 /\ t.second = 0
    BY <2>1, StampType, ReadAssumption DEF Instants
  <2>3. t.first * DayLen = s.first * DayLen + DayLen
    BY <2>2, StampType, ReadAssumption
  <2> QED
    BY <2>2, <2>3, StampType, ReadAssumption
<1> QED
  BY <1>1, <1>2

\* A date of the call with the present time is not in the future, and less
\* than a day before any instant the call began at.
LEMMA DateWithTime ==
    ASSUME NEW S \in SUBSET Instants, NEW now \in S, NEW past \in S,
           \A s \in S : s.first <= now.first
    PROVE  LET o == [first |-> past.first, second |-> now.second] IN
           /\ Stamp(o) <= Stamp(now)
           /\ \A s \in S : Stamp(s) <= Stamp(past) => Stamp(o) > Stamp(s) - DayLen
<1> DEFINE o == [first |-> past.first, second |-> now.second]
<1>1. now \in Instants /\ past \in Instants /\ o \in Instants
  BY DEF Instants
<1>2. Stamp(o) = past.first * DayLen + now.second
  BY <1>1, StampType
<1>3. past.first * DayLen <= now.first * DayLen
  BY <1>1, StampType, TimesMonotonic, ReadAssumption
<1>4. Stamp(o) <= Stamp(now)
  BY <1>1, <1>2, <1>3, StampType
<1>5. ASSUME NEW s \in S, Stamp(s) <= Stamp(past)
      PROVE  Stamp(o) > Stamp(s) - DayLen
  <2>1. s \in Instants
    OBVIOUS
  <2> QED
    BY <1>1, <1>2, <1>5, <2>1, StampType, ReadAssumption
<1> QED
  BY <1>4, <1>5

LEMMA ClockStep == ClockInv /\ [Next]_vars => ClockInv'
<1> SUFFICES ASSUME ClockInv, [Next]_vars, Dating'
             PROVE  ClockInv'
  BY DEF ClockInv
<1>1. CASE UNCHANGED callVars
  BY <1>1 DEF callVars, ClockInv, Dating, ClockNeverAhead, Returned, Stamp
<1>2. ASSUME NEW c \in Conns, NEW f \in Fns, CallBegins(c, f)
      PROVE  ClockInv'
  <2>1. /\ f = "system_datetime" /\ dev' \in Instants /\ seen' = {dev'}
        /\ results' = {} /\ at' = "first" /\ out' = [first |-> 0, second |-> 0]
    BY <1>2, ClockStates
       DEF CallBegins, Call, Dating, AtFirst, FirstRequest, GoTo,
           Pairs, Overrides, Lists, Cleared, Times, Numbered, OfAxis
  <2>2. Stamp(dev') <= Stamp(dev') /\ dev'.first <= dev'.first
    BY <2>1, StampType
  <2> QED
    BY <2>1, <2>2 DEF ClockInv, ClockNeverAhead, Returned
<1>3. ASSUME NEW c \in Conns, NEW f \in Fns, CallRefused(c, f)
      PROVE  ClockInv'
  <2>1. /\ f = "system_datetime" /\ dev' \in Instants /\ seen' = {dev'}
        /\ at' = "returned" /\ ret' = FAILED
    BY <1>3, ClockStates DEF CallRefused, Call, Dating, Returns
  <2>2. Stamp(dev') <= Stamp(dev') /\ dev'.first <= dev'.first
    BY <2>1, StampType
  <2> QED
    BY <2>1, <2>2 DEF ClockInv, ClockNeverAhead, Returned, OK, FAILED
<1>4. ASSUME NEW r \in ResultKinds, PairFirst(r)
      PROVE  ClockInv'
  <2>1. /\ at = "first" /\ results' = results \union {r}
        /\ UNCHANGED <<dev, seen, fn, out>>
    BY <1>4 DEF PairFirst, Ask
  <2>2. Dating
    BY <2>1 DEF Dating
  <2>3. CASE Succeeded(r)
    <3>1. at' = "second" /\ got' = Read(r, dev.first, 0)
      BY <1>4, <2>3 DEF PairFirst, GoTo, PairOrder
    <3>2. "empty" \notin results' => got' = dev.first
      BY <2>1, <2>3, <3>1 DEF Succeeded, Read
    <3> QED
      BY <2>1, <2>2, <3>1, <3>2 DEF ClockInv, ClockNeverAhead, Returned, Stamp
  <2>4. CASE ~Succeeded(r)
    <3>1. at' = "returned" /\ ret' = FAILED
      BY <1>4, <2>4 DEF PairFirst, Returns
    <3> QED
      BY <2>1, <2>2, <3>1
         DEF ClockInv, ClockNeverAhead, Returned, Stamp, OK, FAILED
  <2> QED
    BY <2>3, <2>4
<1>5. ASSUME NEW r \in ResultKinds, PairSecond(r)
      PROVE  ClockInv'
  <2>1. /\ at = "second" /\ at' = "returned" /\ results' = results \union {r}
        /\ UNCHANGED <<dev, seen, fn>>
        /\ out' = PairWritten(got, Read(r, dev.second, 0), r)
        /\ ret' = IF Succeeded(r) THEN OK ELSE FAILED
    BY <1>5 DEF PairSecond, Ask, Returns, PairOrder
  <2>2. /\ Dating
        /\ out = [first |-> 0, second |-> 0]
        /\ dev \in seen /\ seen \subseteq Instants
        /\ \A s \in seen : s.first <= dev.first /\ Stamp(s) <= Stamp(dev)
        /\ "empty" \notin results => \E s \in seen : got = s.first
    BY <2>1 DEF ClockInv, Dating
  <2>3. ASSUME ret' = OK, "empty" \notin results'
        PROVE  /\ Stamp(out') <= Stamp(dev')
               /\ \A s \in seen' : (\A t \in seen' : Stamp(s) <= Stamp(t)) =>
                     Stamp(out') > Stamp(s) - DayLen
    <3>1. r = "ok" /\ "empty" \notin results
      BY <2>1, <2>3 DEF Succeeded, OK, FAILED
    <3>2. PICK past \in seen : got = past.first
      BY <2>2, <3>1
    <3>3. out' = [first |-> past.first, second |-> dev.second]
      BY <2>1, <2>2, <3>1, <3>2 DEF PairWritten, Succeeded, Read, PairOrder
    <3> QED
      BY <2>1, <2>2, <3>3, DateWithTime
  <2> QED
    BY <2>1, <2>2, <2>3 DEF ClockInv, ClockNeverAhead, Returned, Stamp
<1>6. CASE DeviceChanges
  <2>1. /\ at \notin {"idle", "returned"} /\ dev' \in NextStates(fn, dev)
        /\ seen' = seen \union {dev'}
        /\ UNCHANGED <<at, fn, got, out, ret, results>>
    BY <1>6 DEF DeviceChanges
  <2>2. /\ Dating /\ dev \in seen /\ seen \subseteq Instants
        /\ \A s \in seen : s.first <= dev.first /\ Stamp(s) <= Stamp(dev)
    BY <2>1 DEF ClockInv, Dating
  <2>3. dev' \in Instants /\ dev.first <= dev'.first /\ Stamp(dev) <= Stamp(dev')
    BY <2>1, <2>2, ClockGoesOn DEF Dating
  <2>4. \A s \in seen' : s.first <= dev'.first /\ Stamp(s) <= Stamp(dev')
    BY <2>1, <2>2, <2>3, StampType
  <2> QED
    BY <2>1, <2>2, <2>3, <2>4 DEF ClockInv, ClockNeverAhead, Returned, Stamp
\* The other requests are those of other functions.
<1>7. ASSUME NEW r \in ResultKinds,
             \/ StatusMode(r) \/ StatusAuto(r) \/ StatusRun(r) \/ Single(r)
             \/ OverrideMethod(r) \/ OverrideCode(r) \/ OverrideRegister(r)
             \/ ListCount(r) \/ ListAxis(r)
      PROVE  FALSE
  <2>1. /\ at \in {"mode", "auto", "run", "single", "method", "code",
                   "register", "count", "axis"}
        /\ fn' = fn
    BY <1>7, Zenon DEF StatusMode, StatusAuto, StatusRun, Single, OverrideMethod,
                OverrideCode, OverrideRegister, ListCount, ListAxis, Ask
  <2> QED
    BY <2>1 DEF Dating, ClockInv
<1>8. CASE StatusNotReady
  BY <1>8 DEF StatusNotReady, Dating, ClockInv
<1>9. CASE CallEnds
  BY <1>9 DEF CallEnds, Dating
<1> QED
  BY <1>1, <1>2, <1>3, <1>4, <1>5, <1>6, <1>7, <1>8, <1>9
     DEF Next, Requesting, vars, StopsInCall, ConnCalls, Closes

\* The instant m70_cnc_read_system_datetime puts together is never ahead of
\* the device's clock and less than a day behind, for days of any length.
THEOREM ClockNeverAheadCorrect == Spec => []ClockNeverAhead
<1>1. Init => ClockInv
  BY DEF Init, NoCall, ClockInv, Dating
<1>2. ClockInv => ClockNeverAhead
  BY DEF ClockInv, Dating, ClockNeverAhead, Returned
<1> QED
  BY <1>1, <1>2, ClockStep, PTL DEF Spec
-----------------------------------------------------------------------------
(***************************************************************************)
(* The status.  Between the requests of m70_cnc_read_status the output     *)
(* holds what was read so far: a mode of the call, no run state yet, and   *)
(* RUN only on the way through the request of "auto".                      *)
(***************************************************************************)
Asking == fn = "status" /\ at # "idle"

StatusFields == {"status", "mode", "run"}

SoFar ==
    /\ out.mode \in {s.mode : s \in seen}
    /\ out.run = RST
    /\ out.status \in {IDLE, DEBUG, RUN}
    /\ at = "auto" => out.mode \in {MEM, DNC} /\ out.status # RUN
    /\ out.status = RUN =>
          out.mode \in {MEM, DNC} /\ \E s \in seen : s.auto = 1

StatusInv ==
    Asking =>
      /\ at \in {"mode", "auto", "run", "not ready", "returned"}
      /\ dev \in seen
      /\ at \in {"mode", "auto", "run"} =>
           out = [k \in StatusFields |-> out[k]]
      /\ at = "mode" => out.run = RST
      /\ at \in {"auto", "run"} /\ "empty" \notin results => SoFar
      /\ StatusTrue

LEMMA StatusNumbers ==
    /\ STOP = 1 /\ RUN = 2 /\ IDLE = 3 /\ OFFLINE = 4 /\ DEBUG = 5
    /\ MEM = 0 /\ DNC = 1 /\ LNK = 2 /\ LIN = 16 /\ RST = 0 /\ EMG = 1
    /\ OK # FAILED
  BY DEF STOP, RUN, IDLE, OFFLINE, DEBUG, MEM, DNC, LNK, LIN, RST, EMG, OK, FAILED

LEMMA StatusStep == StatusInv /\ [Next]_vars => StatusInv'
<1> SUFFICES ASSUME StatusInv, [Next]_vars, Asking'
             PROVE  StatusInv'
  BY DEF StatusInv
<1>1. CASE UNCHANGED callVars
  BY <1>1 DEF callVars, StatusInv, Asking, SoFar, StatusTrue, Returned, AllRead
<1>2. ASSUME NEW c \in Conns, NEW f \in Fns, CallBegins(c, f)
      PROVE  StatusInv'
  <2>1. f = "status" /\ dev' \in seen'
    BY <1>2 DEF CallBegins, Call, Asking
  <2>2. at' = "mode"
    BY <1>2, <2>1 DEF CallBegins, FirstRequest, GoTo, Pairs, Overrides, Lists
  <2>3. out' = [status |-> OFFLINE, mode |-> MEM, run |-> RST]
    BY <1>2, <2>1 DEF CallBegins, AtFirst, Pairs, Cleared, Times, Numbered, OfAxis
  <2>4. out' = [k \in StatusFields |-> out'[k]]
    BY <2>3 DEF StatusFields
  <2> QED
    BY <2>1, <2>2, <2>3, <2>4 DEF StatusInv, StatusTrue, Returned
<1>3. ASSUME NEW c \in Conns, NEW f \in Fns, CallRefused(c, f)
      PROVE  StatusInv'
  <2>1. dev' \in seen' /\ at' = "returned" /\ ret' = FAILED
    BY <1>3 DEF CallRefused, Call, Returns
  <2> QED
    BY <2>1, StatusNumbers DEF StatusInv, StatusTrue
<1>4. ASSUME NEW r \in ResultKinds, StatusMode(r)
      PROVE  StatusInv'
  <2>1. /\ at = "mode" /\ results' = results \union {r}
        /\ UNCHANGED <<dev, seen, fn>>
    BY <1>4 DEF StatusMode, Ask
  <2>2. /\ Asking /\ dev \in seen /\ out = [k \in StatusFields |-> out[k]]
        /\ out.run = RST
    BY <2>1 DEF StatusInv, Asking
  <2>3. CASE Succeeded(r)
    <3> DEFINE mode == Read(r, dev.mode, 0)
               status == IF mode \in LNK..LIN THEN DEBUG ELSE IDLE
    <3>1. /\ out' = [out EXCEPT !.mode = mode, !.status = status]
          /\ at' = IF mode \in {MEM, DNC} THEN "auto" ELSE "run"
      BY <1>4, <2>3 DEF StatusMode, GoTo
    <3>2. /\ out'.mode = mode /\ out'.status = status /\ out'.run = RST
          /\ out' = [k \in StatusFields |-> out'[k]]
      BY <2>2, <3>1 DEF StatusFields
    <3>3. "empty" \notin results' => mode \in {s.mode : s \in seen'}
      BY <2>1, <2>2, <2>3 DEF Succeeded, Read
    <3>4. "empty" \notin results' => SoFar'
      BY <3>1, <3>2, <3>3, StatusNumbers DEF SoFar
    <3> QED
      BY <2>1, <2>2, <3>1, <3>2, <3>4 DEF StatusInv, StatusTrue, Returned
  <2>4. CASE ~Succeeded(r)
    <3>1. at' = "not ready"
      BY <1>4, <2>4 DEF StatusMode, GoTo
    <3> QED
      BY <2>1, <2>2, <3>1 DEF StatusInv, StatusTrue, Returned
  <2> QED
    BY <2>3, <2>4
<1>5. CASE StatusNotReady
  <2>1. /\ at = "not ready" /\ at' = "returned" /\ ret' = FAILED
        /\ UNCHANGED <<dev, seen, fn>>
    BY <1>5 DEF StatusNotReady, Returns
  <2> QED
    BY <2>1, StatusNumbers DEF StatusInv, StatusTrue, Asking
<1>6. ASSUME NEW r \in ResultKinds, StatusAuto(r)
      PROVE  StatusInv'
  <2>1. /\ at = "auto" /\ at' = "run" /\ results' = results \union {r}
        /\ UNCHANGED <<dev, seen, fn>>
        /\ out' = IF Succeeded(r) /\ Read(r, dev.auto, 0) = 1
                    THEN [out EXCEPT !.status = RUN] ELSE out
    BY <1>6 DEF StatusAuto, Ask, GoTo
  <2>2. /\ Asking /\ dev \in seen /\ out = [k \in StatusFields |-> out[k]]
        /\ "empty" \notin results => SoFar
    BY <2>1 DEF StatusInv, Asking
  <2>3. /\ out'.mode = out.mode /\ out'.run = out.run
        /\ out' = [k \in StatusFields |-> out'[k]]
        /\ \/ out'.status = out.status
           \/ out'.status = RUN /\ Succeeded(r) /\ Read(r, dev.auto, 0) = 1
    BY <2>1, <2>2 DEF StatusFields
  <2>4. "empty" \notin results' => SoFar'
    <3>1. r = "empty" \/ (Succeeded(r) => r = "ok")
      BY DEF Succeeded
    <3> QED
      BY <2>1, <2>2, <2>3, <3>1 DEF SoFar, Read
  <2> QED
    BY <2>1, <2>2, <2>3, <2>4 DEF StatusInv, StatusTrue, Returned
<1>7. ASSUME NEW r \in ResultKinds, StatusRun(r)
      PROVE  StatusInv'
  <2>1. /\ at = "run" /\ at' = "returned" /\ results' = results \union {r}
        /\ UNCHANGED <<dev, seen, fn>>
    BY <1>7 DEF StatusRun, Ask, Returns
  <2>2. /\ Asking /\ dev \in seen /\ out = [k \in StatusFields |-> out[k]]
        /\ "empty" \notin results => SoFar
    BY <2>1 DEF StatusInv, Asking
  <2>3. ASSUME "empty" \notin results', r = "ok"
        PROVE  StatusTrue'
    <3>1. out' = [out EXCEPT !.run = dev.run,
                            !.status = Emergency(dev.run, @)]
      BY <1>7, <2>3 DEF StatusRun, Succeeded, Read
    <3>2. /\ out'.mode = out.mode /\ out'.run = dev.run
          /\ out'.status = IF dev.run = EMG THEN STOP ELSE out.status
      BY <2>2, <3>1 DEF StatusFields, Emergency
    <3>3. SoFar
      BY <2>1, <2>2, <2>3
    <3> QED
      BY <2>1, <2>2, <3>2, <3>3, StatusNumbers DEF StatusTrue, SoFar
  <2>4. ASSUME "empty" \notin results', r # "ok"
        PROVE  StatusTrue'
    <3>1. out' = out
      BY <1>7, <2>1, <2>4 DEF StatusRun, Succeeded
    <3>2. SoFar /\ ~AllRead'
      BY <2>1, <2>2, <2>4 DEF AllRead
    <3> QED
      BY <2>1, <2>2, <3>1, <3>2, StatusNumbers DEF StatusTrue, SoFar
  <2> QED
    BY <2>1, <2>2, <2>3, <2>4 DEF StatusInv, StatusTrue
<1>8. CASE DeviceChanges
  <2>1. /\ at \notin {"idle", "returned"} /\ dev' \in seen'
        /\ seen \subseteq seen'
        /\ UNCHANGED <<at, fn, out, ret, results>>
    BY <1>8 DEF DeviceChanges
  <2>2. StatusInv /\ Asking
    BY <2>1 DEF Asking
  <2>3. SoFar => SoFar'
    BY <2>1 DEF SoFar
  <2> QED
    BY <2>1, <2>2, <2>3 DEF StatusInv, StatusTrue, Returned
\* The other requests are those of other functions.
<1>9. ASSUME NEW r \in ResultKinds,
             \/ Single(r) \/ OverrideMethod(r) \/ OverrideCode(r)
             \/ OverrideRegister(r) \/ PairFirst(r) \/ PairSecond(r)
             \/ ListCount(r) \/ ListAxis(r)
      PROVE  FALSE
  <2>1. /\ at \in {"single", "method", "code", "register", "first", "second",
                   "count", "axis"}
        /\ fn' = fn
    BY <1>9, Zenon DEF Single, OverrideMethod, OverrideCode, OverrideRegister,
                PairFirst, PairSecond, ListCount, ListAxis, Ask
  <2> QED
    BY <2>1 DEF Asking, StatusInv
<1>10. CASE CallEnds
  BY <1>10 DEF CallEnds, Asking
<1> QED
  BY <1>1, <1>2, <1>3, <1>4, <1>5, <1>6, <1>7, <1>8, <1>9, <1>10
     DEF Next, Requesting, vars, StopsInCall, ConnCalls, Closes

\* The status that m70_cnc_read_status puts together of three registers is
\* true of the call, for all modes, run states and changes of the device.
THEOREM StatusTrueCorrect == Spec => []StatusTrue
<1>1. Init => StatusInv
  BY DEF Init, NoCall, StatusInv, Asking
<1>2. StatusInv => StatusTrue
  BY DEF StatusInv, Asking, StatusTrue, Returned
<1> QED
  BY <1>1, <1>2, StatusStep, PTL DEF Spec
-----------------------------------------------------------------------------
(***************************************************************************)
(* What OK means.  A function that goes on after a failed request is at a  *)
(* place of m70_cnc_read_status or of a list, past one that succeeded.     *)
(***************************************************************************)
Good == {"ok", "empty"}

SomeGood == \E g \in results : g \in Good
AllGood == results \subseteq Good

OkInv ==
    /\ at \in {"mode", "auto", "run", "not ready"} => fn = "status"
    /\ at \in {"count", "axis"} => fn \in Lists
    /\ at \notin {"idle", "returned"} /\ fn \notin Lists \union {"status"} => AllGood
    /\ at \in {"auto", "run", "axis"} => SomeGood
    /\ at = "returned" /\ ret = OK =>
         SomeGood /\ (fn \notin Lists \union {"status"} => AllGood)

LEMMA OkStep == OkInv /\ [Next]_vars => OkInv'
<1> SUFFICES ASSUME OkInv, [Next]_vars
             PROVE  OkInv'
  OBVIOUS
<1> USE DEF OkInv, SomeGood, AllGood, Good, Returns, GoTo
<1>1. CASE UNCHANGED callVars
  BY <1>1 DEF callVars
<1>2. ASSUME NEW c \in Conns, NEW f \in Fns, CallBegins(c, f)
      PROVE  OkInv'
  <2>1. fn' = f /\ results' = {} /\ at' = FirstRequest(f)
    BY <1>2 DEF CallBegins, Call
  <2>2. /\ FirstRequest(f) = "mode" => f = "status"
        /\ FirstRequest(f) = "count" => f \in Lists
        /\ FirstRequest(f) \in {"mode", "first", "method", "count", "single"}
    BY DEF FirstRequest
  <2> QED
    BY <2>1, <2>2
<1>3. ASSUME NEW c \in Conns, NEW f \in Fns, CallRefused(c, f)
      PROVE  OkInv'
  BY <1>3, StatusNumbers DEF CallRefused
<1>4. ASSUME NEW r \in ResultKinds,
             StatusMode(r) \/ StatusAuto(r) \/ StatusRun(r)
      PROVE  OkInv'
  <2>1. /\ at \in {"mode", "auto", "run"} /\ fn' = fn
        /\ results' = results \union {r}
    BY <1>4, Zenon DEF StatusMode, StatusAuto, StatusRun, Ask
  <2>2. \/ at' = "not ready"
        \/ at' \in {"auto", "run"} /\ at = "mode" /\ r \in Good
        \/ at' \in {"run", "returned"} /\ at \in {"auto", "run"}
    BY <1>4 DEF StatusMode, StatusAuto, StatusRun, Ask, Succeeded
  <2> QED
    BY <2>1, <2>2
<1>5. CASE StatusNotReady
  BY <1>5, StatusNumbers DEF StatusNotReady
<1>6. ASSUME NEW r \in ResultKinds,
             \/ Single(r) \/ OverrideMethod(r) \/ OverrideCode(r)
             \/ OverrideRegister(r) \/ PairFirst(r) \/ PairSecond(r)
      PROVE  OkInv'
  <2>1. /\ at \in {"single", "method", "code", "register", "first", "second"}
        /\ fn' = fn /\ results' = results \union {r}
    BY <1>6, Zenon DEF Single, OverrideMethod, OverrideCode, OverrideRegister,
                PairFirst, PairSecond, Ask
  <2>2. \/ at' = "returned" /\ ret' = FAILED
        \/ at' \in {"code", "register", "second", "returned"} /\ r \in Good
    BY <1>6 DEF Single, OverrideMethod, OverrideCode, OverrideRegister,
                PairFirst, PairSecond, Ask, Succeeded
  <2> QED
    BY <2>1, <2>2, StatusNumbers
<1>7. ASSUME NEW r \in ResultKinds, ListCount(r) \/ ListAxis(r)
      PROVE  OkInv'
  <2>1. /\ at \in {"count", "axis"} /\ fn' = fn
        /\ results' = results \union {r}
    BY <1>7, Zenon DEF ListCount, ListAxis, Ask
  <2>2. \/ at' = "returned" /\ ret' = FAILED
        \/ at' \in {"axis", "returned"} /\ (at = "axis" \/ r \in Good)
    BY <1>7 DEF ListCount, ListAxis, Ask, AxisOrReturn, Succeeded
  <2> QED
    BY <2>1, <2>2, StatusNumbers
<1>8. CASE CallEnds
  BY <1>8 DEF CallEnds
<1>9. CASE DeviceChanges
  BY <1>9 DEF DeviceChanges
<1> QED
  BY <1>1, <1>2, <1>3, <1>4, <1>5, <1>6, <1>7, <1>8, <1>9
     DEF Next, Requesting, vars, StopsInCall, ConnCalls, Closes

\* A function that returns OK made a request that succeeded, and but for the
\* status and the lists all its requests did.
THEOREM OkMeansAnsweredCorrect == Spec => []OkMeansAnswered
<1>1. Init => OkInv
  BY DEF Init, NoCall, OkInv
<1>2. OkInv => OkMeansAnswered
  BY DEF OkInv, OkMeansAnswered, Returned, SomeGood, AllGood, Good
<1> QED
  BY <1>1, <1>2, OkStep, PTL DEF Spec
-----------------------------------------------------------------------------
(***************************************************************************)
(* The state of a call.  A call is at a request of its function, its       *)
(* outputs are those of the function, and the device is in one of the      *)
(* states it was in during the call, all of them states of the registers   *)
(* the function reads.                                                     *)
(***************************************************************************)
RequestsOf(f) ==
    CASE f = "status" -> {"mode", "auto", "run", "not ready"}
      [] f \in Pairs -> {"first", "second"}
      [] f \in Overrides -> {"method", "code", "register"}
      [] f \in Lists -> {"count", "axis"}
      [] OTHER -> {"single"}

OutputsOf(f) ==
    CASE f = "status" -> StatusFields
      [] f \in Pairs -> {"first", "second"}
      [] f \in Lists -> {"count", "entries"}
      [] OTHER -> {"value"}

InCallInv ==
    /\ cur \in Conns /\ fn \in Fns
    /\ at \in RequestsOf(fn) \union {"returned"}
    /\ out = [k \in OutputsOf(fn) |-> out[k]]
    /\ dev \in seen /\ seen \subseteq DeviceStates(fn)
    /\ changes \in 0..MaxChanges
    /\ results \subseteq ResultKinds

CallTypeInv ==
    /\ ret \in {Running, OK, FAILED} /\ (ret # Running <=> at = "returned")
    /\ at # "idle" => InCallInv

LEMMA Codes3 == OK # Running /\ FAILED # Running /\ OK # FAILED
  BY DEF OK, FAILED, Running

\* A place belongs to functions of one kind.
LEMMA PlaceOf ==
    ASSUME NEW f, NEW place \in RequestsOf(f)
    PROVE  /\ place \in {"mode", "auto", "run", "not ready", "single", "method",
                         "code", "register", "first", "second", "count", "axis"}
           /\ place \in {"mode", "auto", "run", "not ready"} <=> f = "status"
           /\ place \in {"first", "second"} <=> f \in Pairs
           /\ place \in {"method", "code", "register"} <=> f \in Overrides
           /\ place \in {"count", "axis"} <=> f \in Lists
           /\ place = "single" =>
                 f # "status" /\ f \notin Pairs \union Overrides \union Lists
  BY DEF RequestsOf, Pairs, Overrides, Lists

LEMMA FirstOf ==
    ASSUME NEW f
    PROVE  /\ FirstRequest(f) \in RequestsOf(f)
           /\ FirstRequest(f) \in {"mode", "first", "method", "count", "single"}
  BY DEF FirstRequest, RequestsOf, Pairs, Overrides, Lists

LEMMA OutputShape ==
    ASSUME NEW f
    PROVE  /\ DOMAIN Untouched(f) = OutputsOf(f)
           /\ Untouched(f) = [k \in OutputsOf(f) |-> Untouched(f)[k]]
           /\ AtFirst(f) = [k \in OutputsOf(f) |-> AtFirst(f)[k]]
<1>1. CASE f = "status"
  <2>1. /\ Untouched(f) = [status |-> Caller, mode |-> Caller, run |-> Caller]
        /\ AtFirst(f) = [status |-> OFFLINE, mode |-> MEM, run |-> RST]
        /\ OutputsOf(f) = {"status", "mode", "run"}
    BY <1>1 DEF Untouched, AtFirst, OutputsOf, StatusFields, Pairs, Lists, Cleared,
                Times, Numbered, OfAxis
  <2> QED
    BY <2>1
<1>2. CASE f \in Pairs
  <2>1. /\ Untouched(f) = [first |-> Caller, second |-> Caller]
        /\ AtFirst(f) = [first |-> 0, second |-> 0]
        /\ OutputsOf(f) = {"first", "second"}
    BY <1>2 DEF Untouched, AtFirst, OutputsOf, Pairs, Lists, Cleared,
                Times, Numbered, OfAxis
  <2> QED
    BY <2>1
<1>3. CASE f \in Lists
  BY <1>3 DEF Untouched, AtFirst, OutputsOf, Lists, Pairs, Cleared, Times,
              Numbered, OfAxis
<1>4. CASE f # "status" /\ f \notin Pairs /\ f \notin Lists
  BY <1>4 DEF Untouched, AtFirst, OutputsOf
<1> QED
  BY <1>1, <1>2, <1>3, <1>4

\* The registers stay those of the function.
LEMMA StatesClosed ==
    ASSUME NEW f, NEW s \in DeviceStates(f), NEW t \in NextStates(f, s)
    PROVE  t \in DeviceStates(f)
<1>1. CASE f = "system_datetime"
  BY <1>1, ClockStates, ClockGoesOn
<1>2. CASE f # "system_datetime"
  BY <1>2 DEF NextStates
<1> QED
  BY <1>1, <1>2

\* What every request leaves of the call, and what is left to show of it.
LEMMA Requested ==
    ASSUME CallTypeInv, NEW place, place \notin {"idle", "returned"},
           NEW r \in ResultKinds, Ask(place, r)
    PROVE  /\ at = place /\ place \in RequestsOf(fn) /\ InCallInv
           /\ results' = results \union {r}
           /\ UNCHANGED <<cur, fn, dev, changes, seen>>
           /\ /\ at' \in RequestsOf(fn) \union {"returned"}
              /\ out' = [k \in OutputsOf(fn) |-> out'[k]]
              => InCallInv'
<1>1. /\ at = place /\ results' = results \union {r}
      /\ UNCHANGED <<cur, fn, dev, changes, seen>>
  BY DEF Ask
<1>2. InCallInv
  BY <1>1 DEF CallTypeInv
<1> QED
  BY <1>1, <1>2 DEF InCallInv

LEMMA CallTypeStep == CallTypeInv /\ [Next]_vars => CallTypeInv'
<1> SUFFICES ASSUME CallTypeInv, [Next]_vars
             PROVE  CallTypeInv'
  OBVIOUS
<1>1. CASE UNCHANGED callVars
  BY <1>1 DEF callVars, CallTypeInv, InCallInv
<1>2. ASSUME NEW c \in Conns, NEW f \in Fns, CallBegins(c, f)
      PROVE  CallTypeInv'
  <2>1. /\ at = "idle" /\ cur' = c /\ fn' = f /\ results' = {} /\ changes' = 0
        /\ dev' \in DeviceStates(f) /\ seen' = {dev'}
        /\ out' = AtFirst(f) /\ at' = FirstRequest(f) /\ ret' = ret
    BY <1>2 DEF CallBegins, Call, GoTo
  <2>2. at' \in RequestsOf(f) /\ at' # "returned"
    BY <2>1, FirstOf
  <2> QED
    BY <2>1, <2>2, OutputShape, ReadAssumption DEF CallTypeInv, InCallInv
<1>3. ASSUME NEW c \in Conns, NEW f \in Fns, CallRefused(c, f)
      PROVE  CallTypeInv'
  <2>1. /\ cur' = c /\ fn' = f /\ results' = {} /\ changes' = 0
        /\ dev' \in DeviceStates(f) /\ seen' = {dev'}
        /\ out' = Untouched(f) /\ at' = "returned" /\ ret' = FAILED
    BY <1>3 DEF CallRefused, Call, Returns
  <2> QED
    BY <2>1, Codes3, OutputShape, ReadAssumption DEF CallTypeInv, InCallInv
<1>4. ASSUME NEW r \in ResultKinds,
             StatusMode(r) \/ StatusAuto(r) \/ StatusRun(r)
      PROVE  CallTypeInv'
  <2>1. PICK place \in {"mode", "auto", "run"} : Ask(place, r)
    BY <1>4, Zenon DEF StatusMode, StatusAuto, StatusRun
  <2>2. at = place /\ InCallInv /\ fn = "status"
    BY <2>1, Requested, PlaceOf
  <2>3. RequestsOf(fn) = {"mode", "auto", "run", "not ready"}
    BY <2>2 DEF RequestsOf, Pairs, Overrides, Lists
  <2>4. \/ at' \in RequestsOf(fn) /\ ret' = ret
        \/ at' = "returned" /\ ret' = OK
    BY <1>4, <2>3 DEF StatusMode, StatusAuto, StatusRun, GoTo, Returns
  <2>5. \/ out' = out
        \/ \E m, s : out' = [out EXCEPT !.mode = m, !.status = s]
        \/ \E s : out' = [out EXCEPT !.status = s]
        \/ \E n, s : out' = [out EXCEPT !.run = n, !.status = s]
    <3>1. CASE StatusMode(r)
      BY <3>1, Zenon DEF StatusMode
    <3>2. CASE StatusAuto(r)
      BY <3>2, Zenon DEF StatusAuto
    <3>3. CASE StatusRun(r) /\ Succeeded(r)
      <4>1. out' = [out EXCEPT !.run = Read(r, dev.run, 0),
                        !.status = Emergency(Read(r, dev.run, 0), @)]
        BY <3>3 DEF StatusRun
      <4> QED
        BY <4>1
    <3>4. CASE StatusRun(r) /\ ~Succeeded(r)
      BY <3>4 DEF StatusRun
    <3> QED
      BY <1>4, <3>1, <3>2, <3>3, <3>4
  <2>6. out' = [k \in OutputsOf(fn) |-> out'[k]]
    <3>1. out = [k \in OutputsOf(fn) |-> out[k]]
      BY <2>2 DEF InCallInv
    <3> QED
      BY <2>5, <3>1
  <2>7. InCallInv'
    BY <2>1, <2>2, <2>4, <2>6, Requested
  <2> QED
    BY <2>2, <2>3, <2>4, <2>7, Codes3 DEF CallTypeInv
<1>5. CASE StatusNotReady
  <2>1. /\ at = "not ready" /\ at' = "returned" /\ ret' = FAILED
        /\ UNCHANGED <<cur, fn, dev, out, changes, seen, results>>
    BY <1>5 DEF StatusNotReady, Returns
  <2> QED
    BY <2>1, Codes3 DEF CallTypeInv, InCallInv
<1>6. ASSUME NEW r \in ResultKinds, Single(r)
      PROVE  CallTypeInv'
  <2>1. Ask("single", r)
    BY <1>6 DEF Single
  <2>2. /\ InCallInv /\ "single" \in RequestsOf(fn)
        /\ at' = "returned" /\ ret' \in {OK, FAILED}
    BY <1>6, <2>1, Requested DEF Single, Returns
  <2>3. OutputsOf(fn) = {"value"}
    BY <2>2, PlaceOf DEF OutputsOf
  <2>4. out' = [k \in OutputsOf(fn) |-> out'[k]]
    <3>1. CASE Succeeded(r)
      <4>1. PICK n : out' = [value |-> n]
        BY <1>6, <3>1 DEF Single
      <4> QED
        BY <2>3, <4>1
    <3>2. CASE ~Succeeded(r)
      BY <1>6, <2>2, <3>2 DEF Single, InCallInv
    <3> QED
      BY <3>1, <3>2
  <2> QED
    BY <2>1, <2>2, <2>4, Requested, Codes3 DEF CallTypeInv
<1>7. ASSUME NEW r \in ResultKinds,
             OverrideMethod(r) \/ OverrideCode(r) \/ OverrideRegister(r)
      PROVE  CallTypeInv'
  <2>1. PICK place \in {"method", "code", "register"} : Ask(place, r)
    BY <1>7, Zenon DEF OverrideMethod, OverrideCode, OverrideRegister
  <2>2. at = place /\ InCallInv /\ fn \in Overrides
    BY <2>1, Requested, PlaceOf
  <2>3. /\ RequestsOf(fn) = {"method", "code", "register"}
        /\ OutputsOf(fn) = {"value"}
    BY <2>2 DEF RequestsOf, OutputsOf, Pairs, Overrides, Lists
  <2>4. \/ at' \in RequestsOf(fn) /\ ret' = ret
        \/ at' = "returned" /\ ret' \in {OK, FAILED}
    BY <1>7, <2>3
       DEF OverrideMethod, OverrideCode, OverrideRegister, GoTo, Returns
  <2>5. out' = out \/ \E n : out' = [value |-> n]
    BY <1>7 DEF OverrideMethod, OverrideCode, OverrideRegister
  <2>6. out' = [k \in OutputsOf(fn) |-> out'[k]]
    BY <2>2, <2>3, <2>5 DEF InCallInv
  <2>7. InCallInv'
    BY <2>1, <2>4, <2>6, Requested
  <2> QED
    BY <2>2, <2>3, <2>4, <2>7, Codes3 DEF CallTypeInv
<1>8. ASSUME NEW r \in ResultKinds, PairFirst(r) \/ PairSecond(r)
      PROVE  CallTypeInv'
  <2>1. PICK place \in {"first", "second"} : Ask(place, r)
    BY <1>8, Zenon DEF PairFirst, PairSecond
  <2>2. at = place /\ InCallInv /\ fn \in Pairs
    BY <2>1, Requested, PlaceOf
  <2>3. /\ RequestsOf(fn) = {"first", "second"}
        /\ OutputsOf(fn) = {"first", "second"}
    BY <2>2 DEF RequestsOf, OutputsOf, Pairs, Overrides, Lists
  <2>4. \/ at' \in RequestsOf(fn) /\ ret' = ret
        \/ at' = "returned" /\ ret' \in {OK, FAILED}
    BY <1>8, <2>3 DEF PairFirst, PairSecond, GoTo, Returns
  <2>5. out' = [k \in OutputsOf(fn) |-> out'[k]]
    BY <1>8, <2>2, <2>3
       DEF PairFirst, PairSecond, PairWritten, PairOrder, InCallInv
  <2>6. InCallInv'
    BY <2>1, <2>4, <2>5, Requested
  <2> QED
    BY <2>2, <2>3, <2>4, <2>6, Codes3 DEF CallTypeInv
<1>9. ASSUME NEW r \in ResultKinds, ListCount(r) \/ ListAxis(r)
      PROVE  CallTypeInv'
  <2>1. PICK place \in {"count", "axis"} : Ask(place, r)
    BY <1>9, Zenon DEF ListCount, ListAxis
  <2>2. at = place /\ InCallInv /\ fn \in Lists
    BY <2>1, Requested, PlaceOf
  <2>3. /\ RequestsOf(fn) = {"count", "axis"}
        /\ OutputsOf(fn) = {"count", "entries"}
    BY <2>2 DEF RequestsOf, OutputsOf, Pairs, Overrides, Lists
  <2>4. \/ at' \in RequestsOf(fn) /\ ret' = ret
        \/ at' = "returned" /\ ret' \in {OK, FAILED}
    BY <1>9, <2>3 DEF ListCount, ListAxis, AxisOrReturn, GoTo, Returns
  <2>5. \/ out' = out
        \/ \E n, e : out' = [count |-> n, entries |-> e]
        \/ \E e : out' = [out EXCEPT !.entries = e]
    BY <1>9 DEF ListCount, ListAxis
  <2>6. out' = [k \in OutputsOf(fn) |-> out'[k]]
    BY <2>2, <2>3, <2>5 DEF InCallInv
  <2>7. InCallInv'
    BY <2>1, <2>4, <2>6, Requested
  <2> QED
    BY <2>2, <2>3, <2>4, <2>7, Codes3 DEF CallTypeInv
<1>10. CASE CallEnds
  BY <1>10, Codes3 DEF CallEnds, CallTypeInv
<1>11. CASE DeviceChanges
  <2>1. /\ at \notin {"idle", "returned"} /\ changes < MaxChanges
        /\ dev' \in NextStates(fn, dev) /\ seen' = seen \union {dev'}
        /\ changes' = changes + 1 /\ UNCHANGED <<at, cur, fn, out, ret, results>>
    BY <1>11 DEF DeviceChanges
  <2>2. InCallInv
    BY <2>1 DEF CallTypeInv
  <2>3. dev' \in DeviceStates(fn)
    BY <2>1, <2>2, StatesClosed DEF InCallInv
  <2>4. changes' \in 0..MaxChanges
    BY <2>1, <2>2, ReadAssumption DEF InCallInv
  <2> QED
    BY <2>1, <2>2, <2>3, <2>4 DEF CallTypeInv, InCallInv
<1> QED
  BY <1>1, <1>2, <1>3, <1>4, <1>5, <1>6, <1>7, <1>8, <1>9, <1>10, <1>11
     DEF Next, Requesting, vars, StopsInCall, ConnCalls, Closes

LEMMA CallTypeCorrect == Spec => []CallTypeInv
<1>1. Init => CallTypeInv
  BY Codes3 DEF Init, NoCall, CallTypeInv
<1> QED
  BY <1>1, CallTypeStep, PTL DEF Spec

\* Whatever is called and whatever the device does, every place has a code
\* to go on with, every output is one of the function called, and what the
\* history variables hold is of this call.
THEOREM ReadTypeCorrect == Spec => []ReadTypeOK
<1>1. CallTypeInv /\ ConnTypeOK => ReadTypeOK
  <2> SUFFICES ASSUME CallTypeInv, ConnTypeOK
               PROVE  ReadTypeOK
    OBVIOUS
  <2>1. at = "idle" \/ at = "returned" \/ at \in RequestsOf(fn)
    BY DEF CallTypeInv, InCallInv
  <2>2. at # "idle" => DOMAIN out = DOMAIN Untouched(fn)
    BY OutputShape DEF CallTypeInv, InCallInv
  <2> QED
    BY <2>1, <2>2, PlaceOf DEF CallTypeInv, InCallInv, ReadTypeOK, Returned
<1> QED
  BY <1>1, CallTypeCorrect, ReadsAreConn, ConnTypeCorrect, PTL
-----------------------------------------------------------------------------
(***************************************************************************)
(* The outputs.  But for the status and the lists, an output is as the     *)
(* function set it before its first request until the call returns, and    *)
(* a second request follows a success only.                                *)
(***************************************************************************)
OutputsInv ==
    /\ at \notin {"idle", "returned", "auto", "run", "axis"} => out = AtFirst(fn)
    /\ at \in {"single", "method", "first", "count"} => results = {}
    /\ at \in {"code", "register", "second"} => results \subseteq {"ok", "empty"}
    /\ NothingHalfWritten
    /\ OutputsRead

\* A step that does not return has nothing to show of what is returned.
LEMMA NotReturned ==
    ~Returned => NothingHalfWritten /\ OutputsRead /\ AxesAligned
  BY DEF NothingHalfWritten, OutputsRead, AxesAligned

LEMMA OnlyOk ==
    ASSUME NEW r, results' = results \union {r}
    PROVE  /\ AllRead' => r = "ok"
           /\ results \subseteq {"ok", "empty"} /\ "empty" \notin results'
                 /\ ~AllRead' => r # "ok"
  BY DEF AllRead

LEMMA OutputsStep ==
    CallTypeInv /\ CallTypeInv' /\ OutputsInv /\ [Next]_vars => OutputsInv'
<1> SUFFICES ASSUME CallTypeInv, CallTypeInv', OutputsInv, [Next]_vars
             PROVE  OutputsInv'
  OBVIOUS
<1>1. CASE UNCHANGED callVars
  BY <1>1 DEF callVars, OutputsInv, NothingHalfWritten, OutputsRead, Returned, AllRead
<1>2. ASSUME NEW c \in Conns, NEW f \in Fns, CallBegins(c, f)
      PROVE  OutputsInv'
  <2>1. /\ fn' = f /\ results' = {} /\ out' = AtFirst(f) /\ at' = FirstRequest(f)
    BY <1>2 DEF CallBegins, Call, GoTo
  <2> QED
    BY <2>1, FirstOf DEF OutputsInv, NothingHalfWritten, OutputsRead, Returned
<1>3. ASSUME NEW c \in Conns, NEW f \in Fns, CallRefused(c, f)
      PROVE  OutputsInv'
  <2>1. /\ fn' = f /\ results' = {} /\ out' = Untouched(f) /\ at' = "returned"
    BY <1>3 DEF CallRefused, Call, Returns
  <2> QED
    BY <2>1 DEF OutputsInv, NothingHalfWritten, OutputsRead, AllRead
<1>4. ASSUME NEW r \in ResultKinds,
             StatusMode(r) \/ StatusAuto(r) \/ StatusRun(r)
      PROVE  OutputsInv'
  <2>1. PICK place \in {"mode", "auto", "run"} : Ask(place, r)
    BY <1>4, Zenon DEF StatusMode, StatusAuto, StatusRun
  <2>2. at = place /\ InCallInv /\ fn = "status" /\ fn' = "status"
    BY <2>1, Requested, PlaceOf
  <2>3. \/ at' = "not ready" /\ out' = out /\ at = "mode"
        \/ at' \in {"auto", "run"}
        \/ at' = "returned" /\ ret' = OK
    BY <1>4, <2>1, <2>2
       DEF StatusMode, StatusAuto, StatusRun, GoTo, Returns, Ask
  <2> QED
    BY <2>2, <2>3, Codes3
       DEF OutputsInv, NothingHalfWritten, OutputsRead, Returned, Singles,
           read_data_count, ProgramNames, Versions, Blocks, Times, Numbered,
           OfAxis, Overrides
<1>5. CASE StatusNotReady
  <2>1. /\ at = "not ready" /\ at' = "returned" /\ UNCHANGED <<fn, out>>
    BY <1>5 DEF StatusNotReady, Returns
  <2>2. fn = "status"
    BY <2>1, PlaceOf DEF CallTypeInv, InCallInv
  <2> QED
    BY <2>1, <2>2
       DEF OutputsInv, NothingHalfWritten, OutputsRead, Returned, Singles,
           read_data_count, ProgramNames, Versions, Blocks, Times, Numbered,
           OfAxis, Overrides
<1>6. ASSUME NEW r \in ResultKinds, Single(r)
      PROVE  OutputsInv'
  <2>1. Ask("single", r)
    BY <1>6 DEF Single
  <2>2. /\ at = "single" /\ InCallInv /\ "single" \in RequestsOf(fn)
        /\ results' = results \union {r}
        /\ UNCHANGED <<fn, dev, seen>> /\ at' = "returned"
    BY <1>6, <2>1, Requested DEF Single, Returns
  <2>3. out = AtFirst(fn) /\ results = {} /\ dev \in seen /\ fn \notin Overrides
    BY <2>2, PlaceOf DEF OutputsInv, InCallInv
  <2>4. CASE r = "ok"
    <3>1. out' = [value |-> Shown(fn, axis, dev.value)] /\ axis' = axis
      BY <1>6, <2>4 DEF Single, Succeeded, Read
    <3> QED
      BY <2>2, <2>3, <2>4, <3>1
         DEF OutputsInv, NothingHalfWritten, OutputsRead, AllRead
  <2>5. CASE r # "ok"
    <3>1. r = "empty" \/ out' = out
      BY <1>6, <2>5 DEF Single, Succeeded
    <3> QED
      BY <2>2, <2>3, <2>5, <3>1
         DEF OutputsInv, NothingHalfWritten, OutputsRead, AllRead
  <2> QED
    BY <2>4, <2>5
<1>7. ASSUME NEW r \in ResultKinds,
             OverrideMethod(r) \/ OverrideCode(r) \/ OverrideRegister(r)
      PROVE  OutputsInv'
  <2>1. PICK place \in {"method", "code", "register"} : Ask(place, r)
    BY <1>7, Zenon DEF OverrideMethod, OverrideCode, OverrideRegister
  <2>2. /\ at = place /\ InCallInv /\ fn \in Overrides
        /\ results' = results \union {r} /\ UNCHANGED <<fn, dev, seen>>
    BY <2>1, Requested, PlaceOf
  <2>3. fn \notin Singles /\ dev \in seen
    BY <2>2 DEF Singles, read_data_count, ProgramNames, Versions, Blocks, Times,
                Numbered, OfAxis, Overrides, InCallInv
  <2>4. CASE at' # "returned"
    <3>1. /\ at = "method" /\ Succeeded(r) /\ out' = out
          /\ at' \in {"code", "register"}
      BY <1>7, <2>4 DEF OverrideMethod, OverrideCode, OverrideRegister, Returns,
                        GoTo, Ask
    <3> QED
      BY <2>2, <3>1 DEF OutputsInv, NothingHalfWritten, OutputsRead, Returned,
                        Succeeded
  <2>5. CASE at' = "returned"
    <3>1. \/ at = "method" /\ ~Succeeded(r) /\ out' = [value |-> 0]
          \/ /\ at = "code" /\ Succeeded(r) /\ ret' = OK
             /\ out' = [value |-> OverrideOfCode(fn, Read(r, dev.code, 0))]
          \/ at = "code" /\ ~Succeeded(r) /\ out' = [value |-> 0]
          \/ /\ at = "register" /\ ret' = FAILED
             /\ out' = [value |-> IF Succeeded(r) THEN Read(r, dev.register, 0)
                                                  ELSE 0]
      BY <1>7, <2>5 DEF OverrideMethod, OverrideCode, OverrideRegister, Returns,
                        GoTo, Ask, CodeRead
    <3>2. results = {} \/ results \subseteq {"ok", "empty"}
      BY <2>2 DEF OutputsInv
    <3>3. NothingHalfWritten'
      BY <2>2, <3>1, <3>2, OnlyOk, Codes3 DEF NothingHalfWritten, Read
    <3>4. OutputsRead'
      BY <2>2, <2>3, <3>1, OnlyOk, Codes3 DEF OutputsRead, Read, Succeeded
    <3> QED
      BY <2>5, <3>3, <3>4 DEF OutputsInv
  <2> QED
    BY <2>4, <2>5
<1>8. ASSUME NEW r \in ResultKinds, PairFirst(r) \/ PairSecond(r)
      PROVE  OutputsInv'
  <2>1. PICK place \in {"first", "second"} : Ask(place, r)
    BY <1>8, Zenon DEF PairFirst, PairSecond
  <2>2. /\ at = place /\ InCallInv /\ fn \in Pairs
        /\ results' = results \union {r} /\ UNCHANGED fn
    BY <2>1, Requested, PlaceOf
  <2>3. fn \notin Singles /\ fn \notin Overrides
    BY <2>2 DEF Singles, read_data_count, ProgramNames, Versions, Blocks, Times,
                Numbered, OfAxis, Overrides, Pairs
  <2>4. \/ at = "first" /\ at' = "second" /\ Succeeded(r) /\ out' = out
        \/ at' = "returned" /\ ret' = FAILED /\ out' = out
        \/ at' = "returned" /\ ret' = OK
    BY <1>8, <2>2
       DEF PairFirst, PairSecond, PairWritten, Returns, GoTo, Ask
  <2> QED
    BY <2>2, <2>3, <2>4, Codes3
       DEF OutputsInv, NothingHalfWritten, OutputsRead, Returned, Succeeded
<1>9. ASSUME NEW r \in ResultKinds, ListCount(r) \/ ListAxis(r)
      PROVE  OutputsInv'
  <2>1. PICK place \in {"count", "axis"} : Ask(place, r)
    BY <1>9, Zenon DEF ListCount, ListAxis
  <2>2. /\ at = place /\ InCallInv /\ fn \in Lists
        /\ results' = results \union {r} /\ UNCHANGED fn
    BY <2>1, Requested, PlaceOf
  <2>3. fn \notin Singles /\ fn \notin Overrides
    BY <2>2 DEF Singles, read_data_count, ProgramNames, Versions, Blocks, Times,
                Numbered, OfAxis, Overrides, Lists
  <2>4. \/ at' = "axis"
        \/ at' = "returned" /\ ret' = FAILED /\ out' = out /\ at = "count"
        \/ at' = "returned" /\ ret' = OK
    BY <1>9, <2>2 DEF ListCount, ListAxis, AxisOrReturn, Returns, GoTo, Ask
  <2> QED
    BY <2>2, <2>3, <2>4, Codes3
       DEF OutputsInv, NothingHalfWritten, OutputsRead, Returned
<1>10. CASE CallEnds
  BY <1>10 DEF CallEnds, OutputsInv, NothingHalfWritten, OutputsRead, Returned
<1>11. CASE DeviceChanges
  <2>1. /\ at \notin {"idle", "returned"} /\ UNCHANGED <<at, fn, out, results>>
    BY <1>11 DEF DeviceChanges
  <2> QED
    BY <2>1 DEF OutputsInv, NothingHalfWritten, OutputsRead, Returned
<1> QED
  BY <1>1, <1>2, <1>3, <1>4, <1>5, <1>6, <1>7, <1>8, <1>9, <1>10, <1>11
     DEF Next, Requesting, vars, StopsInCall, ConnCalls, Closes

LEMMA OutputsCorrect == Spec => []OutputsInv
<1>1. Init => OutputsInv
  BY DEF Init, NoCall, OutputsInv, NothingHalfWritten, OutputsRead, Returned
<1> QED
  BY <1>1, OutputsStep, CallTypeCorrect, PTL DEF Spec

\* A call that returns FAILED has changed none of the caller's outputs since
\* its first request, for whatever reason it failed: but for an override,
\* which is 0.
THEOREM NothingHalfWrittenCorrect == Spec => []NothingHalfWritten
<1>1. OutputsInv => NothingHalfWritten
  BY DEF OutputsInv
<1> QED
  BY <1>1, OutputsCorrect, PTL

\* What a call answers is what the device held at one time of the call,
\* however often its registers change.
THEOREM OutputsReadCorrect == Spec => []OutputsRead
<1>1. OutputsInv => OutputsRead
  BY DEF OutputsInv
<1> QED
  BY <1>1, OutputsCorrect, PTL
-----------------------------------------------------------------------------
(***************************************************************************)
(* The axes.  The flags of the first eight axes differ, so the flag sent   *)
(* for an axis is that axis'.  In a list the entries before the axis of    *)
(* the next request are those of their axes, and there are as many as the  *)
(* device answered.                                                        *)
(***************************************************************************)
LEMMA FlagOfAxis ==
    ASSUME NEW n \in 1..8
    PROVE  AxisOf(get_axis_real_no(n)) = n
<1>1. \A j, k \in 1..8 : AxisFlags[j] = AxisFlags[k] => j = k
  <2>1. /\ AxisFlags[1] = 1 /\ AxisFlags[2] = 2 /\ AxisFlags[3] = 4
        /\ AxisFlags[4] = 8 /\ AxisFlags[5] = 16 /\ AxisFlags[6] = 32
        /\ AxisFlags[7] = 64 /\ AxisFlags[8] = 128
    BY DEF AxisFlags
  <2>2. \A j \in 1..8 : j \in {1, 2, 3, 4, 5, 6, 7, 8}
    OBVIOUS
  <2> SUFFICES ASSUME NEW j \in 1..8, NEW k \in 1..8,
                      AxisFlags[j] = AxisFlags[k]
               PROVE  j = k
    OBVIOUS
  <2>3. j \in {1, 2, 3, 4, 5, 6, 7, 8} /\ k \in {1, 2, 3, 4, 5, 6, 7, 8}
    BY <2>2
  <2> QED
    BY <2>1, <2>3
<1>2. get_axis_real_no(n) = AxisFlags[n]
  BY DEF get_axis_real_no
<1> QED
  BY <1>1, <1>2 DEF AxisOf

\* Entry k is that of axis k; or it is missing, as a request failed.
Entry(entries, k) ==
    k <= 8 => entries[k] = k \/ (entries[k] = 0 /\ ~(results \subseteq {"ok"}))

LEMMA EntrySet ==
    ASSUME NEW n \in Nat, NEW i \in 1..n, NEW entry, NEW new,
           NEW old, old = [k \in 1..n |-> old[k]], new = [old EXCEPT ![i] = entry]
    PROVE  /\ new = [k \in 1..n |-> new[k]]
           /\ new[i] = entry
           /\ \A k \in 1..(i - 1) : new[k] = old[k]
<1>1. DOMAIN old = 1..n
  OBVIOUS
<1>2. DOMAIN new = 1..n /\ new = [k \in 1..n |-> new[k]]
  BY <1>1
<1>3. \A k \in 1..n : new[k] = IF k = i THEN entry ELSE old[k]
  BY <1>1
<1>4. \A k \in 1..(i - 1) : k \in 1..n /\ k # i
  OBVIOUS
<1> QED
  BY <1>2, <1>3, <1>4

AxesInv ==
    /\ at = "count" => axis = 1 /\ results = {}
    /\ at = "axis" =>
         /\ out.count \in Nat /\ axis \in 1..out.count
         /\ out.entries = [k \in 1..out.count |-> out.entries[k]]
         /\ \A k \in 1..(axis - 1) : Entry(out.entries, k)
    /\ AxesAligned

LEMMA AxesStep ==
    CallTypeInv /\ CallTypeInv' /\ OutputsInv /\ AxesInv /\ [Next]_vars => AxesInv'
<1> SUFFICES ASSUME CallTypeInv, CallTypeInv', OutputsInv, AxesInv, [Next]_vars
             PROVE  AxesInv'
  OBVIOUS
<1>1. CASE UNCHANGED callVars
  BY <1>1 DEF callVars, AxesInv, Entry, AxesAligned, Returned, AllRead
<1>2. ASSUME NEW c \in Conns, NEW f \in Fns, CallBegins(c, f)
      PROVE  AxesInv'
  <2>1. /\ results' = {} /\ at' = FirstRequest(f)
        /\ axis' \in IF f \in OfAxis THEN AxisIndexes ELSE {1}
    BY <1>2 DEF CallBegins, Call, GoTo
  <2>2. at' = "count" => axis' = 1
    BY <2>1, FirstOf, PlaceOf DEF Lists, OfAxis
  <2> QED
    BY <2>1, <2>2, FirstOf DEF AxesInv, AxesAligned, Returned
<1>3. ASSUME NEW c \in Conns, NEW f \in Fns, CallRefused(c, f)
      PROVE  AxesInv'
  <2>1. at' = "returned" /\ ret' = FAILED /\ results' = {}
    BY <1>3 DEF CallRefused, Call, Returns
  <2> QED
    BY <2>1, Codes3 DEF AxesInv, AxesAligned, AllRead
<1>4. ASSUME NEW r \in ResultKinds, Single(r)
      PROVE  AxesInv'
  <2>1. Ask("single", r)
    BY <1>4 DEF Single
  <2>2. /\ "single" \in RequestsOf(fn) /\ results' = results \union {r}
        /\ fn' = fn /\ at' = "returned" /\ axis' = axis
    BY <1>4, <2>1, Requested DEF Single, Returns
  <2>3. fn \notin Lists
    BY <2>2, PlaceOf
  <2>4. ASSUME AllRead', fn \in OfAxis \ {"svo_load"}, axis \in 1..8
        PROVE  out'.value = axis
    <3>1. r = "ok"
      BY <2>2, <2>4, OnlyOk
    <3>2. out' = [value |-> Shown(fn, axis, dev.value)]
      BY <1>4, <3>1 DEF Single, Succeeded, Read
    <3>3. Shown(fn, axis, dev.value) = AxisOf(get_axis_real_no(axis))
      BY <2>4 DEF Shown, AxisFlag, OfAxis
    <3> QED
      BY <2>4, <3>2, <3>3, FlagOfAxis
  <2> QED
    BY <2>2, <2>3, <2>4 DEF AxesInv, AxesAligned
<1>5. ASSUME NEW r \in ResultKinds, ListCount(r)
      PROVE  AxesInv'
  <2>1. Ask("count", r)
    BY <1>5 DEF ListCount
  <2>2. /\ at = "count" /\ InCallInv /\ fn \in Lists /\ fn' = fn
        /\ results = {} /\ axis = 1 /\ axis' = axis
    BY <1>5, <2>1, Requested, PlaceOf DEF ListCount, AxesInv
  <2>3. fn \notin OfAxis
    BY <2>2 DEF Lists, OfAxis
  <2>4. CASE ~Succeeded(r)
    BY <1>5, <2>2, <2>3, <2>4, Codes3
       DEF ListCount, Returns, AxesInv, AxesAligned
  <2>5. CASE Succeeded(r)
    <3> DEFINE count == Read(r, dev.count, 0)
    <3>1. dev.count \in Nat
      <4>1. DeviceStates(fn) = [count : Counts]
        BY <2>2 DEF DeviceStates, Lists, Pairs, Overrides, OfAxis
      <4> QED
        BY <2>2, <4>1, ReadAssumption DEF InCallInv
    <3>2. count \in Nat
      BY <3>1 DEF Read
    <3>3. /\ out' = [count |-> count, entries |-> [k \in 1..count |-> Caller]]
          /\ AxisOrReturn(1, count)
      BY <1>5, <2>5 DEF ListCount
    <3>4. CASE 1 <= count
      BY <2>2, <3>2, <3>3, <3>4
         DEF AxisOrReturn, GoTo, AxesInv, AxesAligned, Returned
    <3>5. CASE count = 0
      BY <2>2, <2>3, <3>3, <3>5
         DEF AxisOrReturn, Returns, AxesInv, AxesAligned
    <3> QED
      BY <3>2, <3>4, <3>5
  <2> QED
    BY <2>4, <2>5
<1>6. ASSUME NEW r \in ResultKinds, ListAxis(r)
      PROVE  AxesInv'
  <2>1. Ask("axis", r)
    BY <1>6 DEF ListAxis
  <2>2. /\ at = "axis" /\ InCallInv /\ fn \in Lists /\ fn' = fn
        /\ results' = results \union {r}
        /\ axis' = axis + 1 /\ AxisOrReturn(axis + 1, out.count)
    BY <1>6, <2>1, Requested, PlaceOf DEF ListAxis, NextAxis
  <2>3. /\ out.count \in Nat /\ axis \in 1..out.count
        /\ out.entries = [k \in 1..out.count |-> out.entries[k]]
        /\ \A k \in 1..(axis - 1) : Entry(out.entries, k)
        /\ out = [k \in {"count", "entries"} |-> out[k]]
        /\ fn \notin OfAxis
    BY <2>2 DEF AxesInv, InCallInv, OutputsOf, Lists, Pairs, OfAxis
  <2> DEFINE e == Read(r, AxisOf(get_axis_real_no(axis)), 0)
  <2>4. out' = [out EXCEPT !.entries[axis] = e]
    BY <1>6 DEF ListAxis
  <2> HIDE DEF e
  <2>5. /\ out'.count = out.count
        /\ out'.entries = [out.entries EXCEPT ![axis] = e]
    BY <2>3, <2>4
  <2>6. /\ out'.entries = [k \in 1..out.count |-> out'.entries[k]]
        /\ out'.entries[axis] = e
        /\ \A k \in 1..(axis - 1) : out'.entries[k] = out.entries[k]
    <3> DEFINE n == out.count
               old == out.entries
               new == out'.entries
    <3>1. /\ n \in Nat /\ axis \in 1..n /\ old = [k \in 1..n |-> old[k]]
          /\ new = [old EXCEPT ![axis] = e]
      BY <2>3, <2>5
    <3> HIDE DEF n, old, new
    <3>2. /\ new = [k \in 1..n |-> new[k]] /\ new[axis] = e
          /\ \A k \in 1..(axis - 1) : new[k] = old[k]
      BY <3>1, EntrySet
    <3> QED
      BY <3>2 DEF n, old, new
  <2>7. axis <= 8 => e = axis \/ (e = 0 /\ r # "ok")
    BY <2>3, FlagOfAxis DEF Read, e
  <2>8. \A k \in 1..axis :
           k <= 8 => \/ out'.entries[k] = k
                     \/ out'.entries[k] = 0 /\ ~(results' \subseteq {"ok"})
    <3> SUFFICES ASSUME NEW k \in 1..axis, k <= 8
                 PROVE  \/ out'.entries[k] = k
                        \/ out'.entries[k] = 0 /\ ~(results' \subseteq {"ok"})
      OBVIOUS
    <3>1. CASE k = axis
      BY <2>2, <2>6, <2>7, <3>1
    <3>2. CASE k # axis
      <4>1. k \in 1..(axis - 1)
        BY <2>3, <3>2
      <4> QED
        BY <2>2, <2>3, <2>6, <4>1 DEF Entry
    <3> QED
      BY <3>1, <3>2
  <2>9. CASE axis + 1 <= out.count
    <3>1. at' = "axis" /\ axis' \in 1..out'.count /\ axis' - 1 = axis
      BY <2>2, <2>3, <2>5, <2>9 DEF AxisOrReturn, GoTo
    <3> QED
      BY <2>2, <2>3, <2>5, <2>6, <2>8, <3>1
         DEF AxesInv, Entry, AxesAligned, Returned
  <2>10. CASE ~(axis + 1 <= out.count)
    <3>1. at' = "returned" /\ out.count = axis
      BY <2>2, <2>3, <2>10 DEF AxisOrReturn, Returns
    <3>2. ~(results' \subseteq {"ok"}) => ~AllRead'
      BY DEF AllRead
    <3> QED
      BY <2>2, <2>3, <2>5, <2>8, <3>1, <3>2 DEF AxesInv, AxesAligned
  <2> QED
    BY <2>9, <2>10
\* The other requests are those of functions without axes.
<1>7. ASSUME NEW r \in ResultKinds,
             \/ StatusMode(r) \/ StatusAuto(r) \/ StatusRun(r)
             \/ OverrideMethod(r) \/ OverrideCode(r) \/ OverrideRegister(r)
             \/ PairFirst(r) \/ PairSecond(r)
      PROVE  AxesInv'
  <2>1. PICK place \in {"mode", "auto", "run", "method", "code", "register",
                        "first", "second"} : Ask(place, r)
    BY <1>7, Zenon DEF StatusMode, StatusAuto, StatusRun, OverrideMethod,
                OverrideCode, OverrideRegister, PairFirst, PairSecond
  <2>2. /\ place \in RequestsOf(fn) /\ fn' = fn
        /\ at' \in {"count", "axis"} => at' \in RequestsOf(fn)
    BY <2>1, Requested DEF CallTypeInv, InCallInv
  <2>3. fn \notin Lists /\ fn \notin OfAxis /\ at' \notin {"count", "axis"}
    BY <2>1, <2>2, PlaceOf DEF Lists, OfAxis, Overrides, Pairs
  <2> QED
    BY <2>2, <2>3 DEF AxesInv, AxesAligned
<1>8. CASE StatusNotReady
  <2>1. /\ at' = "returned" /\ ret' = FAILED /\ fn' = fn /\ fn = "status"
    BY <1>8, PlaceOf DEF StatusNotReady, Returns, CallTypeInv, InCallInv
  <2> QED
    BY <2>1 DEF AxesInv, AxesAligned, Lists, OfAxis
<1>9. CASE CallEnds
  BY <1>9 DEF CallEnds, AxesInv, AxesAligned, Returned
<1>10. CASE DeviceChanges
  BY <1>10 DEF DeviceChanges, AxesInv, Entry, AxesAligned, Returned
<1> QED
  BY <1>1, <1>2, <1>3, <1>4, <1>5, <1>6, <1>7, <1>8, <1>9, <1>10
     DEF Next, Requesting, vars, StopsInCall, ConnCalls, Closes

LEMMA AxesCorrect == Spec => []AxesInv
<1>1. Init => AxesInv
  BY DEF Init, NoCall, AxesInv, AxesAligned, Returned
<1> QED
  BY <1>1, AxesStep, CallTypeCorrect, OutputsCorrect, PTL DEF Spec

\* For any number of axes: what a list or a function that takes an axis
\* gives for one of the first eight is that axis' own, whichever requests
\* before it failed.
THEOREM AxesAlignedCorrect == Spec => []AxesAligned
<1>1. AxesInv => AxesAligned
  BY DEF AxesInv
<1> QED
  BY <1>1, AxesCorrect, PTL
=============================================================================
