------------------------------- MODULE Errors -------------------------------
(***************************************************************************)
(* How the outcome of an operation reaches a Python caller: the ErrorCode  *)
(* of the server core, the gRPC status on the wire, the ErrorCode of the   *)
(* C++ client, the exception of client.py.                                 *)
(***************************************************************************)

ErrorCode == {"NotFound", "AlreadyExists", "InvalidArgument", "FailedPrecondition",
              "MessageTooLarge", "Unavailable", "DeadlineExceeded", "Cancelled",
              "Closed", "Transport"}

\* INTERNAL stands for every status no ErrorCode has.
StatusCode == {"OK", "NOT_FOUND", "ALREADY_EXISTS", "INVALID_ARGUMENT",
               "FAILED_PRECONDITION", "RESOURCE_EXHAUSTED", "UNAVAILABLE",
               "DEADLINE_EXCEEDED", "CANCELLED", "UNKNOWN", "INTERNAL"}

to_status_code(code) ==
    CASE code = "NotFound" -> "NOT_FOUND"
      [] code = "AlreadyExists" -> "ALREADY_EXISTS"
      [] code = "InvalidArgument" -> "INVALID_ARGUMENT"
      [] code = "FailedPrecondition" -> "FAILED_PRECONDITION"
      [] code = "MessageTooLarge" -> "RESOURCE_EXHAUSTED"
      [] code = "Unavailable" -> "UNAVAILABLE"
      [] code = "DeadlineExceeded" -> "DEADLINE_EXCEEDED"
      [] code = "Cancelled" -> "CANCELLED"
      [] code \in {"Closed", "Transport"} -> "UNKNOWN"

\* Faulty variant: a server that cannot be reached reads as a missing key.
from_status_code_Missing(status) ==
    CASE status \in {"NOT_FOUND", "UNAVAILABLE"} -> "NotFound"
      [] status = "INVALID_ARGUMENT" -> "InvalidArgument"
      [] status = "DEADLINE_EXCEEDED" -> "DeadlineExceeded"
      [] OTHER -> "Transport"

from_status_code(status) ==
    CASE status = "NOT_FOUND" -> "NotFound"
      [] status = "ALREADY_EXISTS" -> "AlreadyExists"
      [] status = "INVALID_ARGUMENT" -> "InvalidArgument"
      [] status = "FAILED_PRECONDITION" -> "FailedPrecondition"
      [] status = "RESOURCE_EXHAUSTED" -> "MessageTooLarge"
      [] status = "UNAVAILABLE" -> "Unavailable"
      [] status = "DEADLINE_EXCEEDED" -> "DeadlineExceeded"
      [] status = "CANCELLED" -> "Cancelled"
      [] OTHER -> "Transport"

\* The status the server replies with; "OK" is the code of a Result that holds.
reply(code) == IF code = "OK" THEN "OK" ELSE to_status_code(code)

\* What the methods of client.py pass to translate_error.
not_found(op) == IF op = "task_get" THEN "NoTaskAvailable" ELSE "KeyError"
failed_precondition(op) ==
    IF op \in {"mutex_release", "mutex_get_worker_id"} THEN "MutexNotHeld" ELSE "TaskStateError"

translate_error(op, code) ==
    CASE code = "NotFound" -> not_found(op)
      [] code \in {"AlreadyExists", "InvalidArgument", "MessageTooLarge"} -> "ValueError"
      [] code = "FailedPrecondition" -> failed_precondition(op)
      [] code \in {"Unavailable", "DeadlineExceeded"} -> "TimeoutError"
      [] code = "Closed" -> "RuntimeError"
      [] code \in {"Cancelled", "Transport"} -> "TransportError"

\* How a call of op that gRPC ends with status ends for its caller.
Outcome(op, status) ==
    IF status = "OK" THEN "OK" ELSE translate_error(op, from_status_code(status))
=============================================================================
