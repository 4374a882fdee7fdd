------------------------------ MODULE ApiErrors ------------------------------
(***************************************************************************)
(* What the API server answers when something is thrown: every exception   *)
(* becomes an ErrorDetails, whose status has a code of HTTP.  The text of  *)
(* an answer and its details are left out; clients look at the code.       *)
(***************************************************************************)
EXTENDS Naturals

StatusCode ==
    {"OK", "CANCELLED", "UNKNOWN", "INVALID_ARGUMENT", "DEADLINE_EXCEEDED", "NOT_FOUND",
     "ALREADY_EXISTS", "PERMISSION_DENIED", "UNAUTHENTICATED", "RESOURCE_EXHAUSTED",
     "FAILED_PRECONDITION", "ABORTED", "OUT_OF_RANGE", "UNIMPLEMENTED", "INTERNAL",
     "UNAVAILABLE", "DATA_LOSS", "UNPROCESSABLE_ENTITY"}

StatusToHttpCodeMap == [s \in StatusCode |->
    CASE s = "OK"                        -> 200
      [] s \in {"INVALID_ARGUMENT", "FAILED_PRECONDITION", "OUT_OF_RANGE"} -> 400
      [] s = "UNAUTHENTICATED"           -> 401
      [] s = "PERMISSION_DENIED"         -> 403
      [] s = "NOT_FOUND"                 -> 404
      [] s \in {"ABORTED", "ALREADY_EXISTS"} -> 409
      [] s = "UNPROCESSABLE_ENTITY"      -> 422
      [] s = "RESOURCE_EXHAUSTED"        -> 429
      [] s = "CANCELLED"                 -> 499
      [] s \in {"DATA_LOSS", "UNKNOWN", "INTERNAL"} -> 500
      [] s = "UNIMPLEMENTED"             -> 501
      [] s = "UNAVAILABLE"               -> 503
      [] s = "DEADLINE_EXCEEDED"         -> 504]

(* ErrorDetails.from, and the exceptions.  Only ErrorDetailsHttpException  *)
(* carries details of its own.                                             *)
ErrorDetails(status) == [status |-> status, code |-> StatusToHttpCodeMap[status]]
ToHttpException(details) == [class |-> "ErrorDetailsHttpException", apiError |-> details]
Other(class) == [class |-> class, apiError |-> ErrorDetails("OK")]

ToErrorDetailsHttpException(exception) ==
    CASE exception.class = "ThrottlerException"        -> ErrorDetails("RESOURCE_EXHAUSTED")
      [] exception.class = "ErrorDetailsHttpException" -> exception.apiError
      [] exception.class = "BadRequestException"       -> ErrorDetails("INVALID_ARGUMENT")
      [] exception.class = "ValidationError"           -> ErrorDetails("INVALID_ARGUMENT")
      [] exception.class = "ForbiddenException"        -> ErrorDetails("PERMISSION_DENIED")
      [] exception.class = "ContentionError"           -> ErrorDetails("ABORTED")
      [] OTHER                                         -> ErrorDetails("UNKNOWN")

AllExceptionsFilter(exception) == ToErrorDetailsHttpException(exception).code

(* What storing a proof throws, as the controller passes it on.            *)
TxsBlames(class) == ToHttpException(ErrorDetails("INVALID_ARGUMENT"))   \* altered form
TxsThrows(class) ==
    ToHttpException(ErrorDetails(IF class = "IndexerError" THEN "INVALID_ARGUMENT" ELSE "INTERNAL"))

(* Why a POST of a transaction fails: the body does not have its schema,   *)
(* the guard rejects the token or the version of the client, the order     *)
(* hash is not the contract's, a script has no address (encodeAddress); or *)
(* the database or the Stacks node fails.                                  *)
PostCauses == {"body", "token", "version", "orderHash", "address", "failure"}
PostThrows(cause) ==
    CASE cause = "body"      -> Other("BadRequestException")
      [] cause = "token"     -> Other("UnauthorizedException")
      [] cause = "version"   -> Other("ForbiddenException")
      [] cause = "orderHash" -> TxsThrows("IndexerError")
      [] cause = "address"   -> TxsThrows("IndexerError")
      [] cause = "failure"   -> TxsThrows("DatabaseError")
PostStatus(cause) == AllExceptionsFilter(PostThrows(cause))
=============================================================================
