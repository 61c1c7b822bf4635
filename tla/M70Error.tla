------------------------------ MODULE M70Error ------------------------------
(***************************************************************************)
(* Error codes and the last error of m70_error.c.  A code is the number of *)
(* its enumerator; of the last error the code and the system error code    *)
(* are kept, and not its message and place.                                *)
(***************************************************************************)
EXTENDS Integers

\* m70_error_code_e, and the extended codes m70_error_code_ex_e by group.
BasicCodes == {0, 1, 2, 99}
ConnCodes  == 100..105
TransCodes == 200..203
OtherCodes == (300..303) \union (400..405) \union (500..503)
                         \union {900, 901, 999}
ExCodes == BasicCodes \union ConnCodes \union TransCodes \union OtherCodes

CONN_REFUSED      == 101
CONN_INVALID      == 103
CONN_FAILED       == 105
CNC_NOT_READY     == 400
CNC_INVALID_PARAM == 403

\* The codes of g_error_descriptions: CONN_FAILED is not among them.
Described == ExCodes \ {CONN_FAILED}

m70_error_get_description(code) ==
    IF code \in Described THEN "its own" ELSE "Undefined error"

\* Mutant: a network exception becomes an unknown error.
m70_error_code_to_ex_NoSocket(code) == IF code \in {0, 1} THEN code ELSE 99

m70_error_code_to_ex(code) == IF code \in {0, 1, 2} THEN code ELSE 99

m70_error_ex_to_code(ex) ==
    CASE ex \in {0, 99} -> ex
      [] ex \in {2} \union (ConnCodes \ {CONN_FAILED}) \union TransCodes -> 2
      [] OTHER -> 1

\* Mutant: the code of the next enumerator.
m70_error_set_Next(code, err) ==
    [error_code |-> code + 1, system_error_code |-> err]

\* g_last_error after m70_error_set(code, ...) with that errno.
m70_error_set(code, err) == [error_code |-> code, system_error_code |-> err]
=============================================================================
