------------------------------ MODULE M70Wire ------------------------------
(***************************************************************************)
(* The bytes of a request: what the packs of m70_ezsocket_private.h hold,  *)
(* the data_length that is announced and the bytes that are sent           *)
(* (m70_giop.c), against a device that parses what it is sent the way GIOP *)
(* prescribes.  Contents are abstracted to their lengths.                  *)
(***************************************************************************)
EXTENDS Integers

CONSTANTS
    NameLengths,    \* bytes of a file name, or of data to write
    DataTypes       \* m70_data_type_e values given to melSetData

\* The buffers take that much; longer ones are the caller's error.
ASSUME WireAssumption == NameLengths \subseteq 1..256

\* m70_data_type_e
T_CHAR == 1
T_SHORT == 2
T_LONG == 3
T_DLONG == 4
T_DOUBLE == 5
T_FLOATBIN == 6
T_STR == 16
T_CLCTDATA == 256

giop_header == 12
request_pack_header == 24

\* Bytes of op with what pads it, words between op and the last array, bytes
\* of the array.
Layout(field, words, array) == [field |-> field, words |-> words, array |-> array]

get_data_pack           == Layout(16, 7, 0)
alarm_info_pack         == Layout(32, 4, 0)
prog_block_pack         == Layout(32, 3, 0)
cancel_modal2_pack      == Layout(20, 4, 0)
FS_open_file_pack       == Layout(16, 4, 256)
FS_read_file_pack       == Layout(16, 3, 0)
FS_create_file_pack     == Layout(20, 3, 256)
FS_close_file_pack      == Layout(20, 2, 0)
FS_write_file_pack      == Layout(20, 3, 512)
FS_remove_pack          == Layout(20, 2, 256)
FS_open_directory_pack  == Layout(24, 2, 256)
FS_read_directory_pack  == Layout(24, 2, 0)
FS_close_directory_pack == Layout(24, 2, 0)
FS_stat_file_pack       == Layout(16, 2, 256)
set_data_pack           == Layout(16, 8, 516)

sizeof(pack) == giop_header + request_pack_header
                  + pack.field + 4 * pack.words + pack.array

\* The operations: the operation_length each announces (that of its name and
\* the NUL), and its pack.
Operation(length, pack) == [length |-> length, pack |-> pack]

Operations ==
    [melGetData            |-> Operation(13, get_data_pack),
     melSetData            |-> Operation(13, set_data_pack),
     melGetCurrentAlarmMsg |-> Operation(29, alarm_info_pack),
     melGetCurrentPrgBlock |-> Operation(29, prog_block_pack),
     melFsOpenFile         |-> Operation(16, FS_open_file_pack),
     melFsReadFile         |-> Operation(16, FS_read_file_pack),
     melFsCloseFile        |-> Operation(17, FS_close_file_pack),
     melFsCreateFile       |-> Operation(18, FS_create_file_pack),
     melRemoveFile         |-> Operation(18, FS_remove_pack),
     melFsWriteFile        |-> Operation(17, FS_write_file_pack),
     melFSStatFile         |-> Operation(16, FS_stat_file_pack),
     melFsOpenDirectory    |-> Operation(21, FS_open_directory_pack),
     melFsCloseDirectory   |-> Operation(22, FS_close_directory_pack),
     melFsReadDirectory    |-> Operation(21, FS_read_directory_pack),
     CancelModal2          |-> Operation(18, cancel_modal2_pack)]

\* A name, or the data of melFsWriteFile.
WithName == {"melFsOpenFile", "melFsCreateFile", "melRemoveFile", "melFSStatFile",
             "melFsOpenDirectory"}
WithArray == WithName \union {"melFsWriteFile"}

get_data_type_length(type) ==
    CASE type = T_SHORT -> 2   [] type = T_LONG -> 4
      [] type = T_DLONG -> 8   [] type = T_DOUBLE -> 8
      [] type = T_FLOATBIN -> 16   [] type = T_CLCTDATA -> 36
      [] OTHER -> 1

\* byte_numbers of melSetData: of a text, also its length.
byte_numbers(type, n) == IF type = T_STR THEN 4 + n ELSE get_data_type_length(type)

\* The bytes an operation puts behind the words; n is the length of the name,
\* the data or the text.
Payload(op, type, n) ==
    IF op = "melSetData" THEN byte_numbers(type, n)
    ELSE IF op \in WithArray THEN n ELSE 0

\* Mutant: the header is announced as well.
data_length_WithHeader(op, payload) ==
    LET pack == Operations[op].pack IN sizeof(pack) - (pack.array - payload)

\* 48 + sizeof(request) + byte_numbers in melSetData: the same.
data_length(op, payload) ==
    LET pack == Operations[op].pack IN
    sizeof(pack) - giop_header - (pack.array - payload)

\* Mutant: melFsWriteFile sends its whole buffer too.
BytesSent_Whole(op, payload) == sizeof(Operations[op].pack)

\* melSetData and melFsWriteFile send what they announce, the others the pack.
BytesSent(op, payload) ==
    IF op \in {"melSetData", "melFsWriteFile"}
      THEN giop_header + data_length(op, payload)
      ELSE sizeof(Operations[op].pack)
-----------------------------------------------------------------------------
(***************************************************************************)
(* The stream to the device, and the device (external): it reads a header, *)
(* then the operation, aligned to four bytes, then the words of the        *)
(* operation, then the bytes whose number the last word gives.  Before a   *)
(* header it skips what is not one.                                        *)
(***************************************************************************)
VARIABLES
    place,      \* what the device reads next
    op, type, n,    \* the request being read
    left,       \* announced bytes it has not read
    stray       \* bytes behind the request that were not announced

wireVars == <<place, op, type, n, left, stray>>

Align(length) == ((length + 3) \div 4) * 4

WireInit ==
    /\ place = "header" /\ op = "melGetData" /\ type = T_CHAR /\ n = 1
    /\ left = 0 /\ stray = 0

Request(o, t, m) ==
    LET payload == Payload(o, t, m) IN
    /\ place = "header"
    /\ op' = o /\ type' = t /\ n' = m
    /\ left' = data_length(o, payload)
    /\ stray' = BytesSent(o, payload) - giop_header - data_length(o, payload)
    /\ place' = "request"

ReadRequest ==
    /\ place = "request"
    /\ left' = left - request_pack_header - Align(Operations[op].length)
    /\ place' = "words"
    /\ UNCHANGED <<op, type, n, stray>>

ReadWords ==
    /\ place = "words"
    /\ left' = left - 4 * Operations[op].pack.words
    /\ place' = "bytes"
    /\ UNCHANGED <<op, type, n, stray>>

ReadBytes ==
    /\ place = "bytes"
    /\ left' = left - Payload(op, type, n)
    /\ place' = "header"
    /\ UNCHANGED <<op, type, n, stray>>

WireNext ==
    \/ \E o \in DOMAIN Operations, m \in NameLengths :
          \E t \in IF o = "melSetData" THEN DataTypes ELSE {T_CHAR} :
             Request(o, t, m)
    \/ ReadRequest \/ ReadWords \/ ReadBytes

WireSpec == WireInit /\ [][WireNext]_wireVars
-----------------------------------------------------------------------------
(* Properties.                                                             *)

\* The device that follows the lengths of a request, aligning as it must,
\* arrives at its announced end with its last byte, for each of the fifteen
\* operations: the op arrays, their padding, operation_length and data_length
\* are numbers of their own in every function.
MessageExact ==
    /\ left >= 0
    /\ place = "header" => left = 0

\* Bytes that belong to no message are sent behind a request with a file
\* name, and only there: the part of the array the name does not fill.
StrayOnlyAfterNames == stray = IF op \in WithName THEN 256 - n ELSE 0
=============================================================================
