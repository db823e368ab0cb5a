------------------------------- MODULE Errors -------------------------------
(***************************************************************************)
(* The error taxonomy (src/sdk/python/gotrs_sdk/exceptions.py) and the     *)
(* classification of HTTP error responses (HTTPClient._handle_error).  An  *)
(* error is abstracted to its class, status_code and code; message,        *)
(* details and response_data are text and are left out.                   *)
(*                                                                         *)
(* A response is a record: kind "http" with a status and a body, or the    *)
(* transport exception the request raised instead ("timeout" for           *)
(* httpx.TimeoutException, "network" for httpx.NetworkError, "protocol"    *)
(* for any other httpx.TransportError such as RemoteProtocolError).        *)
(* A body is one of a few shapes:                                          *)
(*   "text"          not JSON                                              *)
(*   "plain"         a JSON value that is not an envelope                  *)
(*   "coded"         a JSON error object with a "code" member              *)
(*   "env_ok"        {"success": true, "data": ...}                        *)
(*   "env_ok_nodata" {"success": true}                                     *)
(*   "env_fail"      {"success": false, "error": ...}                      *)
(***************************************************************************)
EXTENDS Integers

\* status_code / code left as None
NoStatus == 0
NoCode == "None"

\* The code a body carries: error_data.get("code", "") (line 113).
BodyCode(body) == IF body = "coded" THEN "E" ELSE ""

Error(kind, status, code) == [kind |-> kind, status |-> status, code |-> code]

(***************************************************************************)
(* The classes whose constructor fixes status_code and code               *)
(* (exceptions.py NotFoundError .. RateLimitError).                        *)
(***************************************************************************)
FixedError ==
    [NotFoundError     |-> Error("NotFoundError", 404, "NOT_FOUND"),
     UnauthorizedError |-> Error("UnauthorizedError", 401, "UNAUTHORIZED"),
     ForbiddenError    |-> Error("ForbiddenError", 403, "FORBIDDEN"),
     RateLimitError    |-> Error("RateLimitError", 429, "RATE_LIMITED")]

\* Every class of the taxonomy; all are GotrsError subclasses.
TaxonomyKinds ==
    {"GotrsError", "ValidationError", "NetworkError", "TimeoutError",
     "AuthenticationError", "NotFoundError", "UnauthorizedError",
     "ForbiddenError", "RateLimitError", "ServerError",
     "ConfigurationError", "WebSocketError"}

(***************************************************************************)
(* _handle_error: the class is chosen by status; ServerError and the base *)
(* GotrsError get the status and the body's code (possibly "").           *)
(***************************************************************************)
HandleError(resp) ==
    LET s == resp.status IN
    CASE s = 404 -> FixedError.NotFoundError
      [] s = 401 -> FixedError.UnauthorizedError
      [] s = 403 -> FixedError.ForbiddenError
      [] s = 429 -> FixedError.RateLimitError
      [] 500 <= s /\ s < 600 -> Error("ServerError", s, BodyCode(resp.body))
      [] OTHER -> Error("GotrsError", s, BodyCode(resp.body))

=============================================================================
