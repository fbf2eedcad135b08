------------------------------ MODULE Accounts ------------------------------
(***************************************************************************)
(* The accounts API (apps/accounts): register, login, token refresh and me. *)
(* One action is one SQL statement of a request, with the Python up to the  *)
(* next; ATOMIC_REQUESTS is off, so that each commits by itself.  Requests  *)
(* pass the rate limits of Throttle first, and their exceptions become      *)
(* answers by ErrorEnvelope.                                                *)
(*                                                                         *)
(* Names: an account is known by the request that registered it, and a pair *)
(* of tokens by the request that issued it.  Login and refresh are views of *)
(* simplejwt (external, version 5.5.1) under the settings SIMPLE_JWT.       *)
(*                                                                         *)
(* Two of their answers stand for others that change nothing either: a      *)
(* login without a field (400) is one with a wrong password (401), and an   *)
(* access token that cannot be read is one that has expired.                *)
(***************************************************************************)
EXTENDS Throttle, ErrorEnvelope

CONSTANTS
    Request,   \* HTTP requests, each sent at most once
    Name,      \* user names
    Mail,      \* e-mail addresses
    MaxMishaps \* bound: processes that die, and statements that fail

\* DEFAULT_THROTTLE_RATES has a rate for the scope of register and login.
ASSUME AuthIsRated == "auth" \in DOMAIN Rates

VARIABLES
    users,        \* the table of accounts
    outstanding,  \* refresh tokens in the table of issued ones
    blacklist,    \* refresh tokens that are blacklisted
    ask,          \* what a request asks for that was let in
    pc,           \* its next statement
    on,           \* the process that handles it
    clash,        \* registrations whose name was found taken
    answer,       \* "Success", or the exception a request ended with
    \* History, which the code does not keep.
    raced,        \* requests during which another one saved an account, or
                  \* an account was deleted
    late          \* what had become of its token or its account before a
                  \* request began

tables   == <<users, outstanding, blacklist>>
requests == <<ask, pc, on, clash, answer>>
vars     == <<gate, tables, requests, raced, late>>

None    == "none"
Nothing == [view |-> "none"]

Asks ==
    [view : {"register"}, name : Name, mail : Mail]
        \cup [view : {"login"}, account : Request, right : BOOLEAN]
        \cup [view : {"me"}, account : Request]
        \cup [view : {"refresh"}, token : Request, account : Request]

\* Where a request that was let in begins.
First == [register |-> "name", login |-> "authenticate",
          refresh |-> "verify", me |-> "user"]

InFlight == {r \in Request : pc[r] \notin {"unsent", "answered", "lost"}}

Labels == {First[v] : v \in DOMAIN First} \cup
             {"unsent", "mail", "save", "issue", "owner", "blacklist",
              "subject", "outstand", "orphan", "answered", "lost"}

Answers == {"Success", "Throttled", "ValidationError", "AuthenticationFailed",
            "InvalidToken", "JWTAuthenticationFailed", "IntegrityError", "OperationalError"}

\* What a request may have come after.
Past == {"rotated", "deleted", "present"}

StateOK ==
    /\ users \subseteq Request
    /\ outstanding \subseteq Request
    /\ blacklist \subseteq outstanding
    /\ ask \in [Request -> Asks \cup {Nothing}]
    /\ pc \in [Request -> Labels]
    /\ on \in [Request -> Process \cup {None}]
    /\ \A r \in Request : ask[r] \in Asks \/
           ((pc[r] = "unsent" \/ answer[r] = "Throttled") /\ late[r] = {})
    /\ \A r, q \in InFlight : on[r] = on[q] => r = q
    /\ clash \subseteq Request
    /\ answer \in [Request -> Answers \cup {None}]
    /\ \A r \in Request : answer[r] # None <=> pc[r] = "answered"
    /\ raced \subseteq Request
    /\ late \in [Request -> SUBSET Past]
    /\ \A r \in Request : pc[r] = "unsent" => late[r] = {}

TypeOK == GateTypeOK /\ StateOK

Init ==
    /\ GateInit
    /\ users = {}
    /\ outstanding = {}
    /\ blacklist = {}
    /\ ask = [r \in Request |-> Nothing]
    /\ pc = [r \in Request |-> "unsent"]
    /\ on = [r \in Request |-> None]
    /\ clash = {}
    /\ answer = [r \in Request |-> None]
    /\ raced = {}
    /\ late = [r \in Request |-> {}]

-----------------------------------------------------------------------------
Registered(a) == ask[a].view = "register"
Succeeded(r)  == answer[r] = "Success"

\* The account of the tokens that a request issues, or of the one it shows.
AccountOf(r) == IF Registered(r) THEN r ELSE ask[r].account

\* Whose pair of tokens a client has.
Holders == {r \in Request : Succeeded(r) /\ ask[r].view # "me"}

\* Clients log in to what they registered, and use the tokens they got.
Askable ==
    [view : {"register"}, name : Name, mail : Mail]
        \cup [view : {"login"}, account : {a \in Request : Registered(a)}, right : BOOLEAN]
        \cup [view : {"me"}, account : {AccountOf(t) : t \in Holders}]
        \cup {[view |-> "refresh", token |-> t, account |-> AccountOf(t)] : t \in Holders}

GoTo(r, label) ==
    /\ pc' = [pc EXCEPT ![r] = label]
    /\ UNCHANGED <<ask, on, answer, late>>

Answer(r, how) ==
    /\ pc' = [pc EXCEPT ![r] = "answered"]
    /\ answer' = [answer EXCEPT ![r] = how]
    /\ on' = [on EXCEPT ![r] = None]
    /\ UNCHANGED <<ask, late>>

\* Its token was rotated, and somebody has the new one.
IsRotated(a) ==
    /\ a.view = "refresh"
    /\ \E q \in Request :
          Succeeded(q) /\ ask[q].view = "refresh" /\ ask[q].token = a.token

IsDeleted(a) ==
    /\ a.view # "register"
    /\ pc[a.account] \in {"answered", "lost"}
    /\ a.account \notin users

IsPresent(a) == a.view = "login" /\ a.account \in users

\* Bug: a process has threads.
FreeBug(p) == TRUE

\* A gunicorn worker of the default class handles one request at a time.
Free(p) == \A q \in InFlight : on[q] # p

\* A free process takes a request, and its throttles let it in.
Start(r, p, i, a) ==
    /\ pc[r] = "unsent"
    /\ Free(p)
    /\ Admit(p, a.view, i)
    /\ ask' = [ask EXCEPT ![r] = a]
    /\ pc' = [pc EXCEPT ![r] = First[a.view]]
    /\ on' = [on EXCEPT ![r] = p]
    /\ late' = [late EXCEPT ![r] = {h \in Past :
                    CASE h = "rotated" -> IsRotated(a)
                      [] h = "deleted" -> IsDeleted(a)
                      [] h = "present" -> IsPresent(a)}]
    /\ UNCHANGED <<tables, clash, answer, raced>>

\* Throttles come before the view, and before anybody has read what is asked.
TurnAway(r, p, i, view) ==
    /\ pc[r] = "unsent"
    /\ Free(p)
    /\ Refuse(p, view, i)
    /\ Answer(r, "Throttled")
    /\ UNCHANGED <<tables, clash, raced>>

-----------------------------------------------------------------------------
\* RegisterView.create.
NameTaken(r) == \E a \in users : ask[a].name = ask[r].name
MailTaken(r) == \E a \in users : ask[a].mail = ask[r].mail

\* Bug: the serializer does not look for the name.
CheckNameBug(r) ==
    /\ pc[r] = "name"
    /\ GoTo(r, "mail")
    /\ UNCHANGED <<gate, tables, clash, raced>>

\* is_valid: the validator of username, which ModelSerializer adds.
CheckName(r) ==
    /\ pc[r] = "name"
    /\ clash' = IF NameTaken(r) THEN clash \cup {r} ELSE clash
    /\ GoTo(r, "mail")
    /\ UNCHANGED <<gate, tables, raced>>

\* The validator of email, the other fields, validate().
CheckMail(r, valid) ==
    /\ pc[r] = "mail"
    /\ IF valid /\ ~ MailTaken(r) /\ r \notin clash
       THEN GoTo(r, "save")
       ELSE Answer(r, "ValidationError")
    /\ clash' = clash \ {r}
    /\ UNCHANGED <<gate, tables, raced>>

\* Bug: email is not unique in the table.
MayInsertBug(r) == ~ NameTaken(r)

\* The unique constraints of username and email.
MayInsert(r) == ~ NameTaken(r) /\ ~ MailTaken(r)

\* user.save() commits; nobody catches its IntegrityError.
Save(r) ==
    /\ pc[r] = "save"
    /\ IF MayInsert(r)
       THEN users' = users \cup {r} /\ raced' = raced \cup (InFlight \ {r}) /\ GoTo(r, "issue")
       ELSE Answer(r, "IntegrityError") /\ UNCHANGED <<users, raced>>
    /\ UNCHANGED <<gate, outstanding, blacklist, clash>>

\* The foreign key of an outstanding token.
MayIssue(r) == AccountOf(r) \in users

\* RefreshToken.for_user, for register and login.
Issue(r) ==
    /\ pc[r] = "issue"
    /\ IF MayIssue(r)
       THEN outstanding' = outstanding \cup {r} /\ Answer(r, "Success")
       ELSE Answer(r, "IntegrityError") /\ UNCHANGED outstanding
    /\ UNCHANGED <<gate, users, blacklist, clash, raced>>

\* Bug: an account becomes active with the tokens of its registration.
AuthenticateBug(r) ==
    /\ pc[r] = "authenticate"
    /\ IF ask[r].right /\ AccountOf(r) \in users /\ Succeeded(AccountOf(r))
       THEN GoTo(r, "issue")
       ELSE Answer(r, "AuthenticationFailed")
    /\ UNCHANGED <<gate, tables, clash, raced>>

\* LoginView: authenticate().
Authenticate(r) ==
    /\ pc[r] = "authenticate"
    /\ IF ask[r].right /\ AccountOf(r) \in users
       THEN GoTo(r, "issue")
       ELSE Answer(r, "AuthenticationFailed")
    /\ UNCHANGED <<gate, tables, clash, raced>>

\* MeView, after JWTAuthentication.get_user.
GetUser(r, expired) ==
    /\ pc[r] = "user"
    /\ Answer(r, IF expired THEN "InvalidToken"
                 ELSE IF AccountOf(r) \in users THEN "Success" ELSE "JWTAuthenticationFailed")
    /\ UNCHANGED <<gate, tables, clash, raced>>

-----------------------------------------------------------------------------
\* TokenRefreshView: the signature, the lifetime and the blacklist.
Verify(r, expired) ==
    /\ pc[r] = "verify"
    /\ IF expired \/ ask[r].token \in blacklist
       THEN Answer(r, "InvalidToken")
       ELSE GoTo(r, "owner")
    /\ UNCHANGED <<gate, tables, clash, raced>>

\* Bug: the account is not looked up, as in older versions of simplejwt.
FindOwnerBug(r) ==
    /\ pc[r] = "owner"
    /\ GoTo(r, "blacklist")
    /\ UNCHANGED <<gate, tables, clash, raced>>

\* The account must exist still.
FindOwner(r) ==
    /\ pc[r] = "owner"
    /\ IF AccountOf(r) \in users
       THEN GoTo(r, "blacklist")
       ELSE Answer(r, "AuthenticationFailed")
    /\ UNCHANGED <<gate, tables, clash, raced>>

\* Bug: BLACKLIST_AFTER_ROTATION is off.
BlacklistBug(r) ==
    /\ pc[r] = "blacklist"
    /\ GoTo(r, "subject")
    /\ UNCHANGED <<gate, tables, clash, raced>>

\* get_or_create: another request that has done it already is no error.
Blacklist(r) ==
    /\ pc[r] = "blacklist"
    /\ blacklist' = blacklist \cup {ask[r].token}
    /\ outstanding' = outstanding \cup {ask[r].token}
    /\ GoTo(r, "subject")
    /\ UNCHANGED <<gate, users, clash, raced>>

\* outstand(): looks for the account, and then inserts the new token, with no
\* account if none was found.
FindSubject(r) ==
    /\ pc[r] = "subject"
    /\ GoTo(r, IF AccountOf(r) \in users THEN "outstand" ELSE "orphan")
    /\ UNCHANGED <<gate, tables, clash, raced>>

Outstand(r) ==
    /\ pc[r] \in {"outstand", "orphan"}
    /\ IF pc[r] = "orphan" \/ MayIssue(r)
       THEN outstanding' = outstanding \cup {r} /\ Answer(r, "Success")
       ELSE Answer(r, "IntegrityError") /\ UNCHANGED outstanding
    /\ UNCHANGED <<gate, users, blacklist, clash, raced>>

-----------------------------------------------------------------------------
Mishaps == kills + Cardinality({r \in Request : answer[r] = "OperationalError"})

\* A statement fails, for the connection or for the database, or the Python before
\* it raises (for_user may sign no token): nothing of it is done, what was committed
\* before stays, and nobody catches the exception.
Fail(r) ==
    /\ r \in InFlight
    /\ Mishaps < MaxMishaps
    /\ Answer(r, "OperationalError")
    /\ UNCHANGED <<gate, tables, clash, raced>>

\* The admin site.  Tokens keep their rows, without an account.
DeleteUser(a) ==
    /\ a \in users
    /\ users' = users \ {a}
    /\ raced' = raced \cup InFlight
    /\ UNCHANGED <<gate, outstanding, blacklist, requests, late>>

\* gunicorn's timeout, or any other death of a process.
Kill(p) ==
    /\ Mishaps < MaxMishaps
    /\ Replace(p)
    /\ pc' = [r \in Request |-> IF r \in InFlight /\ on[r] = p THEN "lost" ELSE pc[r]]
    /\ on' = [r \in Request |-> IF on[r] = p THEN None ELSE on[r]]
    /\ UNCHANGED <<tables, ask, clash, answer, raced, late>>

TimePasses == Tick /\ UNCHANGED <<tables, requests, raced, late>>

Register(r) == CheckName(r) \/ (\E valid \in BOOLEAN : CheckMail(r, valid)) \/ Save(r)
Me(r)       == \E expired \in BOOLEAN : GetUser(r, expired)
Refresh(r)  == \/ \E expired \in BOOLEAN : Verify(r, expired)
               \/ FindOwner(r) \/ Blacklist(r) \/ FindSubject(r) \/ Outstand(r)

Handle(r) ==
    Register(r) \/ Authenticate(r) \/ Issue(r) \/ Me(r) \/ Refresh(r) \/ Fail(r)

Environment == (\E a \in users : DeleteUser(a)) \/ (\E p \in Process : Kill(p)) \/ TimePasses

Next ==
    \/ \E r \in Request, p \in Process, i \in Ident :
          \/ \E a \in Askable : Start(r, p, i, a)
          \/ \E view \in DOMAIN First : TurnAway(r, p, i, view)
    \/ \E r \in Request : Handle(r)
    \/ Environment

Spec == Init /\ [][Next]_vars

-----------------------------------------------------------------------------
(***************************************************************************)
(* Properties.                                                             *)
(***************************************************************************)
Answered(r) == pc[r] = "answered"
Envelope(r) == CustomExceptionHandler(answer[r])

\* No two accounts share a name or an address, although registrations look
\* first and insert later.
UniqueAccounts ==
    \A a, b \in users : a # b => ask[a].name # ask[b].name /\ ask[a].mail # ask[b].mail

\* An "internal_error" is never the answer to a client that was alone, unless
\* the database failed: some account came or went while the request was at work.
InternalErrorHasCause ==
    \A r \in Request :
        Answered(r) /\ ~ Succeeded(r) /\ Envelope(r).code = "internal_error" =>
            r \in raced \/ answer[r] = "OperationalError"

\* Registration is not atomic: when the token cannot be issued, an account stays
\* that refuses the next attempt as taken, and so it does when the process dies.
\* Its owner is not stranded: whatever became of the registration, a login with
\* the right password to an account that is there from the start to the end of
\* the login gets tokens, rate limit and database permitting.
NobodyIsStranded ==
    \A r \in Request :
        /\ ask[r].view = "login" /\ "present" \in late[r] /\ ask[r].right
        /\ Answered(r) /\ ask[r].account \in users
        => answer[r] \in {"Success", "OperationalError"}

\* "Old refresh tokens are invalidated on rotation": a request with one whose
\* successor somebody got before gets nothing.  (Requests that overlap may both
\* rotate one token, since each reads the blacklist before it writes to it.)
RotationInvalidates == \A r \in Request : "rotated" \in late[r] => ~ Succeeded(r)

\* No token of an account is of use after the account was deleted, although
\* tokens are signed and carry their account with them.
DeletionInvalidates == \A r \in Request : "deleted" \in late[r] => ~ Succeeded(r)

\* The limit of the scope auth, for register and login together.
AuthIsLimited == LimitHolds("auth")

-----------------------------------------------------------------------------
(***************************************************************************)
(* What the properties above are inductive with.                           *)
(***************************************************************************)
Stages == [register |-> {"name", "mail", "save", "issue"},
           login    |-> {"authenticate", "issue"},
           refresh  |-> {"verify", "owner", "blacklist", "subject", "outstand", "orphan"},
           me       |-> {"user"}]

\* A request is at a statement of its view, and an account was saved by one
\* that is past that statement.
StagesMatch ==
    /\ \A r \in InFlight : pc[r] \in Stages[ask[r].view]
    /\ \A a \in users : Registered(a) /\ pc[a] \notin {"unsent", "name", "mail", "save"}

\* A refresh that has come past its write, or succeeded, wrote.
RotatedIsBlacklisted ==
    \A r \in Request :
        /\ ask[r].view = "refresh"
        /\ pc[r] \in {"subject", "outstand", "orphan"} \/ Succeeded(r)
        => ask[r].token \in blacklist

\* How far a late request gets; what it came late for stays gone.
LateStops ==
    \A r \in Request :
        /\ "rotated" \in late[r] =>
               /\ ask[r].view = "refresh" /\ ask[r].token \in blacklist
               /\ pc[r] \in {"verify", "answered", "lost"} /\ ~ Succeeded(r)
        /\ "deleted" \in late[r] =>
               /\ ask[r].view # "register" /\ ask[r].account \notin users
               /\ pc[ask[r].account] \in {"answered", "lost"}
               /\ pc[r] \in {"authenticate", "user", "verify", "owner", "answered", "lost"}
               /\ ~ Succeeded(r)

\* An account that was there has been saved once and for all.
PresentIsSaved ==
    \A r \in Request :
        "present" \in late[r] =>
            /\ ask[r].view = "login"
            /\ Registered(ask[r].account)
            /\ pc[ask[r].account] \notin {"unsent", "name", "mail", "save"}

\* Of the registrations that were answered with an error, only those leave an
\* account that failed when it was committed: no refused one, none that was raced.
LeftoversHaveCause ==
    \A r \in users : Answered(r) /\ ~ Succeeded(r) => answer[r] = "OperationalError"

\* What a request has read is still so when nobody else came in between.
AloneIsCurrent ==
    \A r \in Request \ raced :
        /\ pc[r] = "mail" /\ r \notin clash => ~ NameTaken(r)
        /\ pc[r] = "save" => MayInsert(r)
        /\ pc[r] \in {"issue", "outstand"} => MayIssue(r)
        /\ answer[r] # "IntegrityError"

ViewsKept ==
    /\ StateOK /\ StagesMatch /\ UniqueAccounts /\ LeftoversHaveCause
    /\ RotatedIsBlacklisted /\ LateStops /\ AloneIsCurrent
    /\ NobodyIsStranded /\ PresentIsSaved

IInv == ViewsKept /\ GateKept("auth")
=============================================================================
