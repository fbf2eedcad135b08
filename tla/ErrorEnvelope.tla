--------------------------- MODULE ErrorEnvelope ---------------------------
(***************************************************************************)
(* custom_exception_handler (apps/common/exceptions): what an exception     *)
(* that leaves a view becomes.  Messages are left out; status, code and     *)
(* whether the body lists details are not.                                  *)
(***************************************************************************)
EXTENDS Integers, Sequences, FiniteSetsExt

\* Classes that inherit from one of the classes of _error_code_for.
Base == [InvalidToken |-> "AuthenticationFailed",
         JWTAuthenticationFailed |-> "AuthenticationFailed"]

IsInstance(exception, class) ==
    \/ exception = class
    \/ exception \in DOMAIN Base /\ Base[exception] = class

\* The mapping of _error_code_for, in its order.
Mapping ==
    << <<"ValidationError", "validation_error">>,
       <<"AuthenticationFailed", "authentication_failed">>,
       <<"NotAuthenticated", "not_authenticated">>,
       <<"PermissionDenied", "permission_denied">>,
       <<"NotFound", "not_found">>,
       <<"MethodNotAllowed", "method_not_allowed">>,
       <<"Throttled", "throttled">>,
       <<"ParseError", "parse_error">>,
       <<"UnsupportedMediaType", "unsupported_media_type">>,
       <<"Http404", "not_found">>,
       <<"DjangoPermissionDenied", "permission_denied">>,
       <<"ServiceUnavailableError", "service_unavailable">>,
       <<"ExternalAPIError", "external_api_error">> >>

ErrorCodeFor(exception) ==
    LET matching == {k \in DOMAIN Mapping : IsInstance(exception, Mapping[k][1])}
    IN  IF matching = {} THEN "internal_error" ELSE Mapping[Min(matching)][2]

\* The exceptions that Django REST framework turns into a response.
DefaultStatus ==
    [ValidationError |-> 400, ParseError |-> 400, AuthenticationFailed |-> 401,
     InvalidToken |-> 401, JWTAuthenticationFailed |-> 401,
     NotAuthenticated |-> 401, PermissionDenied |-> 403, NotFound |-> 404,
     Http404 |-> 404, DjangoPermissionDenied |-> 403, MethodNotAllowed |-> 405,
     NotAcceptable |-> 406, UnsupportedMediaType |-> 415, Throttled |-> 429]

\* Those whose data is more than one "detail".
Detailed == {"ValidationError", "InvalidToken", "JWTAuthenticationFailed"}

Upstream == [ServiceUnavailableError |-> 503, ExternalAPIError |-> 502]

\* An exception that nobody translates shows nothing of itself.
CustomExceptionHandler(exception) ==
    LET body(status) == [status |-> status, code |-> ErrorCodeFor(exception),
                         details |-> exception \in Detailed]
    IN  CASE exception \in DOMAIN Upstream -> body(Upstream[exception])
          [] exception \in DOMAIN DefaultStatus -> body(DefaultStatus[exception])
          [] OTHER -> [status |-> 500, code |-> "internal_error", details |-> FALSE]
=============================================================================
