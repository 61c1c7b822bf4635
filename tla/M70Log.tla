------------------------------- MODULE M70Log -------------------------------
(***************************************************************************)
(* The logger of m70_log.c: the global g_log_config, the FILE it holds and *)
(* the files its rotation leaves on the disk.  Every call runs to its end  *)
(* in one step, its own log line and the rotation that line may cause      *)
(* included, so a call maps a state, kept as the record `sys', to the set  *)
(* of states it may leave.  Lines are numbered per path in the order they  *)
(* are written.  Console output keeps no state and is left out.            *)
(***************************************************************************)
EXTENDS Integers, FiniteSets

CONSTANTS
    Paths,      \* log file paths
    NoPath,     \* the empty path, and no open FILE
    Levels,     \* log levels, among 0 (DEBUG) .. 5 (OFF)
    Configs,    \* the configurations the application passes to m70_log_init
    KB,         \* a kilobyte, in the units file sizes are kept in
    LineSizes,  \* sizes of a log line, at most 1279 bytes
    Width,      \* modulus of current_file_size, an unsigned int
    FailAt,     \* calls that may fail: mkdir, fopen, rename, remove, fprintf
    Uses,       \* of {"defaults", "early"}: m70_log_init(NULL) is called;
                \* set_* are called before m70_log_init or after shutdown
    MaxOld,     \* bound: highest suffix of a rotated file
    MaxLines    \* bound: lines per path

INFO == 1
OFF  == 5
Targets == (SUBSET {"console", "file"}) \ {{}}
Calls == {"mkdir", "fopen", "rename", "remove", "fprintf"}

ConfigRecords ==
    [level : Levels, target : Targets, log_file_path : Paths \union {NoPath},
     max_file_size : Nat, max_file_count : 0..MaxOld]

ASSUME LogAssumption ==
    /\ NoPath \notin Paths
    /\ Levels \subseteq 0..5 /\ INFO \in Levels
    /\ MaxOld \in Nat /\ MaxOld >= 5
    /\ Configs \subseteq ConfigRecords
    /\ KB \in Nat \ {0}
    /\ LineSizes \subseteq Nat \ {0}
    /\ Width \in Nat \ {0}
    /\ FailAt \subseteq Calls
    /\ Uses \subseteq {"defaults", "early"}
    /\ MaxLines \in Nat

(***************************************************************************)
(* A file: the lines in it and its size.  Of a path p, file 0 is p itself  *)
(* and file i, i >= 1, the rotated file "p.i".                             *)
(***************************************************************************)
Suffixes == 0..MaxOld
Missing == [there |-> FALSE, lines |-> {}, size |-> 0]
Empty   == [there |-> TRUE,  lines |-> {}, size |-> 0]

VARIABLE sys    \* log: g_log_config; disk: the files; open: FILEs opened and
                \* not closed; sent: lines written to each path; crashed: the
                \* process called fclose(NULL)

InitialLog ==
    [initialized |-> FALSE, level |-> INFO, target |-> {"console"},
     log_file_path |-> NoPath, log_file |-> NoPath,
     max_file_size |-> 10240, max_file_count |-> 5, current_file_size |-> 0]

Init == sys = [log |-> InitialLog,
               disk |-> [p \in Paths |-> [i \in Suffixes |-> Missing]],
               open |-> 0, sent |-> [p \in Paths |-> 0], crashed |-> FALSE]

\* The two outcomes of a call to the C library, success first.
Tries(call) == IF call \in FailAt THEN {TRUE, FALSE} ELSE {TRUE}
-----------------------------------------------------------------------------
(* Files.                                                                  *)

\* Mutant: fopen(log_file_path, "w").
Fopen_Truncates(s) ==
    {[s EXCEPT !.log.log_file = s.log.log_file_path,
               !.disk[s.log.log_file_path][0] = Empty, !.open = @ + 1]}

\* log_file = fopen(log_file_path, "a").
Fopen(s) ==
    { IF ok
        THEN [s EXCEPT !.log.log_file = s.log.log_file_path,
                       !.disk[s.log.log_file_path][0] =
                           IF @.there THEN @ ELSE Empty,
                       !.open = @ + 1]
        ELSE [s EXCEPT !.log.log_file = NoPath] : ok \in Tries("fopen") }

\* Mutant: the size of the file that was open before is kept.
Measured_Stale(s) == s

\* current_file_size = ftell(log_file) / 1024.
Measured(s) ==
    [s EXCEPT !.log.current_file_size =
        s.disk[s.log.log_file][0].size \div KB]

\* Mutant: log_file still points to the closed FILE.
Fclose_Dangling(s) == [s EXCEPT !.open = @ - 1]

\* fclose(log_file); log_file = NULL.
Fclose(s) == [s EXCEPT !.log.log_file = NoPath, !.open = @ - 1]

\* Mutant: the loop ends before suffix 1.
Rotated_SkipsFirst(files, count, removed, kept) ==
    LET moved(i) == (i = 0 \/ i \in 2..(count - 1)) /\ files[i].there
    IN  [i \in Suffixes |->
           IF i >= 1 /\ moved(i - 1) THEN files[i - 1]
           ELSE IF moved(i) \/ i = count THEN Missing
           ELSE files[i]]

(***************************************************************************)
(* The files of a path after the oldest is removed and each other one,     *)
(* from the highest suffix down to the path itself, is renamed to the next *)
(* suffix; `kept' are the suffixes whose rename failed.  With              *)
(* max_file_count 0 the name to remove is "p.0", which nothing creates.    *)
(***************************************************************************)
Rotated(files, count, removed, kept) ==
    LET moved(i) == /\ i = 0 \/ i \in 1..(count - 1)
                    /\ files[i].there /\ i \notin kept
    IN  [i \in Suffixes |->
           IF i >= 1 /\ moved(i - 1) THEN files[i - 1]
           ELSE IF moved(i) \/ (removed /\ i = count /\ i >= 1) THEN Missing
           ELSE files[i]]

\* The FILE closed and its path's files renamed.
Renamed(s, removed, kept) ==
    [Fclose(s) EXCEPT
       !.log.current_file_size = 0,
       !.disk[s.log.log_file_path] =
           Rotated(@, s.log.max_file_count, removed, kept)]

NotRenamed(s) ==
    IF "rename" \in FailAt THEN SUBSET (0..s.log.max_file_count) ELSE {{}}

\* Mutant: the file is not opened again.
rotate_log_file_if_needed_Closes(s) ==
    IF s.log.log_file = NoPath
         \/ s.log.current_file_size < s.log.max_file_size
      THEN {s} ELSE {Fclose(s)}

rotate_log_file_if_needed(s) ==
    IF s.log.log_file = NoPath
         \/ s.log.current_file_size < s.log.max_file_size
      THEN {s}
      ELSE UNION { Fopen(Renamed(s, removed, kept)) :
                   removed \in Tries("remove"), kept \in NotRenamed(s) }

(***************************************************************************)
(* fprintf of one line.  When it fails, -1 becomes a size_t, whose 1024th  *)
(* part is all ones in the low 32 bits.                                    *)
(***************************************************************************)
Append(s, ok, b) ==
    LET p == s.log.log_file
        n == s.sent[p] + 1
        f == [s.disk[p][0] EXCEPT !.lines = @ \union {n}, !.size = @ + b]
        counted == s.log.current_file_size + IF ok THEN b \div KB ELSE Width - 1
        l == [s.log EXCEPT !.current_file_size = counted % Width]
    IN  IF ok
          THEN [s EXCEPT !.log = l, !.disk[p][0] = f, !.sent[p] = n]
          ELSE [s EXCEPT !.log = l]

log_write(s, level) ==
    IF \/ ~s.log.initialized \/ level < s.log.level \/ level >= OFF
       \/ "file" \notin s.log.target \/ s.log.log_file = NoPath
      THEN {s}
      ELSE UNION { IF r.log.log_file = NoPath THEN {r}
                     ELSE { Append(r, ok, b) : ok \in Tries("fprintf"),
                                               b \in LineSizes } :
                   r \in rotate_log_file_if_needed(s) }
-----------------------------------------------------------------------------
(* The calls of m70_log.h, as the states they may leave.                   *)

\* The line written on the way may leave no FILE to close.
Shutdown(s) ==
    IF ~s.log.initialized THEN {s}
    ELSE IF s.log.log_file = NoPath
      THEN {[s EXCEPT !.log.initialized = FALSE]}
    ELSE { IF r.log.log_file = NoPath
             THEN [r EXCEPT !.crashed = TRUE]
             ELSE [Fclose(r) EXCEPT !.log.initialized = FALSE] :
           r \in log_write(s, INFO) }

\* ensure_log_directory and fopen of m70_log_init and m70_log_set_file, once
\* the path is set: whether they go on, and from which state.
OpenLog(s) ==
    { [ok |-> r.log.log_file # NoPath,
       s  |-> IF r.log.log_file = NoPath THEN r ELSE Measured(r)] :
      r \in Fopen(s) }
    \union { [ok |-> FALSE, s |-> s] : made \in Tries("mkdir") \ {TRUE} }

Initialized(s) == log_write([s EXCEPT !.log.initialized = TRUE], INFO)

InitWith(s, c) ==
    LET t == [s EXCEPT !.log.level = c.level, !.log.target = c.target,
                       !.log.max_file_size = c.max_file_size,
                       !.log.max_file_count = c.max_file_count]
    IN  IF "file" \notin c.target THEN Initialized(t)
        ELSE IF c.log_file_path = NoPath THEN {t}
        ELSE UNION { IF r.ok THEN Initialized(r.s) ELSE {r.s} :
                     r \in OpenLog([t EXCEPT
                                     !.log.log_file_path = c.log_file_path]) }

SetLevel(s, level) == log_write([s EXCEPT !.log.level = level], INFO)

SetTarget(s, target) ==
    LET t == [s EXCEPT !.log.target = target]
        opened ==
          IF "file" \in target /\ t.log.log_file = NoPath
               /\ t.log.log_file_path # NoPath
            THEN { IF r.log.log_file = NoPath THEN r ELSE Measured(r) :
                   r \in Fopen(t) }
          ELSE IF "file" \notin target /\ t.log.log_file # NoPath
            THEN {Fclose(t)}
          ELSE {t}
    IN  UNION { log_write(r, INFO) : r \in opened }

SetFile(s, p) ==
    LET t == [IF s.log.log_file = NoPath THEN s ELSE Fclose(s)
                EXCEPT !.log.log_file_path = p]
        opened == IF "file" \in t.log.target THEN OpenLog(t)
                  ELSE { [ok |-> made, s |-> t] : made \in Tries("mkdir") }
    IN  UNION { IF r.ok THEN log_write(r.s, INFO) ELSE {r.s} : r \in opened }
-----------------------------------------------------------------------------
\* Room for the lines a call writes.
Room == ~sys.crashed /\ \A p \in Paths : sys.sent[p] + 2 <= MaxLines

\* m70_log_init shuts an initialised logger down first.
m70_log_init ==
    /\ Room
    /\ \E s \in Shutdown(sys) :
         IF s.crashed THEN sys' = s
                      ELSE \E c \in Configs : sys' \in InitWith(s, c)

\* m70_log_init(NULL), which keeps the settings that are there.
InitDefault ==
    /\ Room /\ "defaults" \in Uses
    /\ \E s \in Shutdown(sys) :
         sys' = IF s.crashed THEN s ELSE [s EXCEPT !.log.initialized = TRUE]

m70_log_shutdown ==
    /\ ~sys.crashed /\ (Room \/ ~sys.log.initialized)
    /\ sys' \in Shutdown(sys)

MaySet == sys.log.initialized \/ "early" \in Uses

m70_log_set_level ==
    Room /\ MaySet /\ \E v \in Levels : sys' \in SetLevel(sys, v)

m70_log_set_target ==
    Room /\ MaySet /\ \E t \in Targets : sys' \in SetTarget(sys, t)

\* An empty path is refused.
m70_log_set_file ==
    /\ ~sys.crashed /\ MaySet
    /\ \/ UNCHANGED sys
       \/ Room /\ \E p \in Paths : sys' \in SetFile(sys, p)

\* m70_log_debug ... m70_log_fatal_ex.
m70_log == Room /\ \E v \in Levels \ {OFF} : sys' \in log_write(sys, v)

Next ==
    \/ m70_log_init \/ InitDefault \/ m70_log_shutdown \/ m70_log
    \/ m70_log_set_level \/ m70_log_set_target \/ m70_log_set_file

Spec == Init /\ [][Next]_sys
-----------------------------------------------------------------------------
(* Properties.                                                             *)

LogRecords ==
    [initialized : BOOLEAN, level : Levels \union {INFO}, target : Targets,
     log_file_path : Paths \union {NoPath}, log_file : Paths \union {NoPath},
     max_file_size : Nat, max_file_count : 0..MaxOld,
     current_file_size : Nat]
Files == [there : BOOLEAN, lines : SUBSET Nat, size : Nat]
States ==
    [log : LogRecords, disk : [Paths -> [Suffixes -> Files]], open : Nat,
     sent : [Paths -> Nat], crashed : BOOLEAN]

TypeOK == sys \in States

\* The logger holds the one FILE it has opened and not closed, and that FILE
\* is the one of the path in use: none leaks, none is used after fclose, no
\* line goes to a path left behind.
HandleOK(s) ==
    /\ s.log.log_file \in {NoPath, s.log.log_file_path}
    /\ s.open = IF s.log.log_file = NoPath THEN 0 ELSE 1
OneHandle == HandleOK(sys)

\* The size counted for the open file never exceeds its size on the disk,
\* "Current log file size (KB)" (m70_log.c:31).
CounterOK(s) ==
    s.log.log_file # NoPath =>
        s.log.current_file_size * KB <= s.disk[s.log.log_file][0].size
CounterNotAbove == CounterOK(sys)

\* A rotated file is a full one: rotation never sends away a file that is
\* smaller than max_file_size, whichever file was counted before it.
FullWhenRotated ==
    \A p \in Paths, i \in 1..MaxOld :
        sys.disk[p][i].there =>
            sys.disk[p][i].size >= sys.log.max_file_size * KB

KeptLines(p) == UNION {sys.disk[p][i].lines : i \in Suffixes}

\* What the logger loses is the oldest: if a line is still on the disk then
\* so is every later one, across rotations, reopenings and restarts.
OldestLostFirst ==
    \A p \in Paths : \A n \in KeptLines(p) :
        n..sys.sent[p] \subseteq KeptLines(p)

\* "Keep 5 historical log files" (main.c:311): nothing is lost while fewer
\* than max_file_count rotated files are kept.
HistoryKept ==
    \A p \in Paths :
        ~(1..sys.sent[p] \subseteq KeptLines(p)) =>
            \A i \in 1..sys.log.max_file_count : sys.disk[p][i].there

\* While file output is asked for and the path is known, the file is open:
\* no line is dropped silently.
FileTargetOpen ==
    sys.log.initialized /\ "file" \in sys.log.target
      /\ sys.log.log_file_path # NoPath => sys.log.log_file # NoPath

\* "Maximum log file size (KB)" (m70_log.h:34): the current log file exceeds
\* it by no more than the line that makes it full.
FileSizeBounded ==
    LET f == sys.log.log_file IN
    f # NoPath => \E b \in LineSizes :
        sys.disk[f][0].size <= sys.log.max_file_size * KB + b
=============================================================================
