--------------------------- MODULE AccountsProofs ---------------------------
(***************************************************************************)
(* Theorems about the accounts API, for any processes, clients, requests,   *)
(* names, addresses and rates.  The two halves of IInv are kept by every     *)
(* action, each on its own: ViewsKept, whatever the throttle lets through,  *)
(* and GateKept, by the lemmas of ThrottleProofs, whatever the views do.    *)
(***************************************************************************)
EXTENDS Accounts, ThrottleProofs

LEMMA InitViewsKept == Init => ViewsKept
BY DEF Init, ViewsKept, StateOK, StagesMatch, UniqueAccounts, LeftoversHaveCause,
    RotatedIsBlacklisted, LateStops, AloneIsCurrent, NobodyIsStranded, PresentIsSaved,
    InFlight, Labels, First, None, Nothing, Registered, Succeeded, Answered, Answers

\* Requests in flight are at a statement of one of the views.
LEMMA InFlightType ==
    ASSUME ViewsKept, NEW r \in InFlight
    PROVE  /\ r \in Request
           /\ ask[r] \in Asks
           /\ ask[r].view \in {"register", "login", "refresh", "me"}
           /\ AccountOf(r) \in Request
           /\ pc[r] \in Stages[ask[r].view]
           /\ answer[r] = None
<1>1. r \in Request /\ ask[r] \in Asks /\ answer[r] = None
  BY DEF ViewsKept, StateOK, InFlight, Labels, None
<1>2. /\ ask[r].view \in {"register", "login", "refresh", "me"}
      /\ ask[r].view # "register" => ask[r].account \in Request
  BY <1>1 DEF Asks
<1>3. QED
  BY <1>1, <1>2 DEF ViewsKept, StagesMatch, AccountOf, Registered

-----------------------------------------------------------------------------
(***************************************************************************)
(* Steps of one request that write no accounts; tables of tokens may grow. *)
(***************************************************************************)
Walk(r, label, how) ==
    /\ UNCHANGED <<users, raced, ask, late>>
    /\ pc' = [pc EXCEPT ![r] = label]
    /\ on' = IF label = "answered" THEN [on EXCEPT ![r] = None] ELSE on
    /\ answer' = IF label = "answered" THEN [answer EXCEPT ![r] = how] ELSE answer
    /\ outstanding' \subseteq Request /\ blacklist' \subseteq outstanding'
    /\ blacklist \subseteq blacklist'
    /\ clash' \subseteq Request
    /\ \A q \in Request \ {r} : q \in clash' <=> q \in clash

\* What the statement at which it arrives relies on.
Earned(r, label, how) ==
    /\ IF label = "answered" THEN how \in Answers ELSE label \in Stages[ask[r].view]
    /\ r \in users => label \notin {"name", "mail", "save"}
    /\ pc[r] \notin {"name", "mail", "save"} => label \notin {"name", "mail", "save"}
    /\ label = "answered" /\ how \notin {"Success", "OperationalError"} /\ Registered(r) =>
           r \notin users
    /\ label = "answered" /\ how \notin {"Success", "OperationalError"}
          /\ "present" \in late[r] /\ ask[r].view = "login" /\ ask[r].right
          => ask[r].account \notin users
    /\ ask[r].view = "refresh"
          /\ (label \in {"subject", "outstand", "orphan"} \/ (label = "answered" /\ how = "Success"))
             => ask[r].token \in blacklist'
    /\ "rotated" \in late[r] => label = "answered" /\ how # "Success"
    /\ "deleted" \in late[r] => label = "owner" \/ (label = "answered" /\ how # "Success")
    /\ r \notin raced =>
          /\ label = "mail" /\ r \notin clash' => ~ NameTaken(r)
          /\ label = "save" => MayInsert(r)
          /\ label \in {"issue", "outstand"} => MayIssue(r)
          /\ ~ (label = "answered" /\ how = "IntegrityError")

LEMMA WalkViewsKept ==
    ASSUME ViewsKept, NEW r \in InFlight, NEW label, NEW how,
           Walk(r, label, how), Earned(r, label, how)
    PROVE  ViewsKept'
<1>1. /\ r \in Request /\ ask[r] \in Asks
      /\ ask[r].view \in {"register", "login", "refresh", "me"}
      /\ answer[r] = None
      /\ pc[r] \notin {"unsent", "answered", "lost"}
  BY InFlightType DEF InFlight
<1>2. /\ label = "answered" => how \in Answers
      /\ label # "answered" => label \in Stages[ask[r].view]
      /\ label \in Labels
      /\ label \notin {"unsent", "lost"}
  BY <1>1 DEF Earned, Stages, Labels, First
<1>3. /\ UNCHANGED <<users, raced, ask, late>>
      /\ blacklist \subseteq blacklist'
      /\ pc'[r] = label
      /\ answer'[r] = IF label = "answered" THEN how ELSE None
      /\ \A q \in Request \ {r} : /\ pc'[q] = pc[q] /\ answer'[q] = answer[q]
                                  /\ q \in clash' <=> q \in clash
                                  /\ on'[q] = on[q]
      /\ label # "answered" => on' = on
      /\ on' \in [Request -> Process \cup {None}]
  BY <1>1 DEF Walk, ViewsKept, StateOK
<1>4. InFlight' \subseteq InFlight
  BY <1>1, <1>3 DEF InFlight
<1>5. StateOK'
  <2>1. pc' \in [Request -> Labels] /\ answer' \in [Request -> Answers \cup {None}]
    BY <1>1, <1>2 DEF Walk, ViewsKept, StateOK
  <2>2. \A q \in Request : answer'[q] # None <=> pc'[q] = "answered"
    BY <1>1, <1>2, <1>3 DEF ViewsKept, StateOK, Answers, None
  <2>3. \A q \in Request : ask'[q] \in Asks \/
            ((pc'[q] = "unsent" \/ answer'[q] = "Throttled") /\ late'[q] = {})
    BY <1>1, <1>3 DEF ViewsKept, StateOK
  <2>4. \A q, s \in InFlight' : on'[q] = on'[s] => q = s
    <3>1. label = "answered" => r \notin InFlight'
      BY <1>3 DEF InFlight
    <3>2. QED
      BY <1>3, <1>4, <3>1 DEF ViewsKept, StateOK, InFlight
  <2>5. \A q \in Request : pc'[q] = "unsent" => late'[q] = {}
    BY <1>2, <1>3 DEF ViewsKept, StateOK
  <2>6. QED
    BY <1>3, <2>1, <2>2, <2>3, <2>4, <2>5 DEF Walk, ViewsKept, StateOK
<1>6. StagesMatch'
  <2>1. \A q \in InFlight' : pc'[q] \in Stages[ask'[q].view]
    BY <1>2, <1>3, <1>4 DEF ViewsKept, StagesMatch, InFlight
  <2>2. \A a \in users' : Registered(a)' /\ pc'[a] \notin {"unsent", "name", "mail", "save"}
    BY <1>2, <1>3 DEF ViewsKept, StateOK, StagesMatch, Registered, Earned
  <2>3. QED
    BY <2>1, <2>2 DEF StagesMatch
<1>7. UniqueAccounts'
  BY <1>3 DEF ViewsKept, UniqueAccounts
<1>8. LeftoversHaveCause'
  <2>1. \A q \in users : q \in Request /\ Registered(q)
    BY DEF ViewsKept, StateOK, StagesMatch
  <2> SUFFICES ASSUME NEW q \in users, pc'[q] = "answered", answer'[q] # "Success"
               PROVE  answer'[q] = "OperationalError"
    BY <1>3 DEF LeftoversHaveCause, Answered, Succeeded
  <2>2. CASE q = r
    BY <1>3, <2>1, <2>2 DEF Earned
  <2>3. CASE q # r
    BY <1>3, <2>1, <2>3 DEF ViewsKept, LeftoversHaveCause, Answered, Succeeded
  <2>4. QED
    BY <2>2, <2>3
<1>9. RotatedIsBlacklisted'
  <2> SUFFICES ASSUME NEW q \in Request, ask[q].view = "refresh",
                      pc'[q] \in {"subject", "outstand", "orphan"} \/ answer'[q] = "Success"
               PROVE  ask[q].token \in blacklist'
    BY <1>3 DEF RotatedIsBlacklisted, Succeeded
  <2>1. CASE q = r
    <3>1. answer'[r] = "Success" => (label = "answered" /\ how = "Success")
      BY <1>3 DEF None
    <3>2. QED
      BY <2>1, <3>1, <1>3 DEF Earned
  <2>2. CASE q # r
    BY <2>2, <1>3 DEF ViewsKept, RotatedIsBlacklisted, Succeeded
  <2>3. QED
    BY <2>1, <2>2
<1>10. LateStops'
  BY <1>1, <1>2, <1>3 DEF ViewsKept, LateStops, Succeeded, Earned, None, StateOK, Asks
<1>11. AloneIsCurrent'
  <2> SUFFICES ASSUME NEW q \in Request \ raced
               PROVE  /\ pc'[q] = "mail" /\ q \notin clash' => ~ NameTaken(q)
                      /\ pc'[q] = "save" => MayInsert(q)
                      /\ pc'[q] \in {"issue", "outstand"} => MayIssue(q)
                      /\ answer'[q] # "IntegrityError"
    BY <1>3 DEF AloneIsCurrent, NameTaken, MailTaken, MayInsert, MayIssue, AccountOf,
        Registered
  <2>1. CASE q = r
    BY <2>1, <1>2, <1>3 DEF Earned, None
  <2>2. CASE q # r
    BY <2>2, <1>3 DEF ViewsKept, AloneIsCurrent
  <2>3. QED
    BY <2>1, <2>2
<1>12. NobodyIsStranded'
  <2> SUFFICES ASSUME NEW q \in Request, ask[q].view = "login", "present" \in late[q],
                      ask[q].right, pc'[q] = "answered", ask[q].account \in users
               PROVE  answer'[q] \in {"Success", "OperationalError"}
    BY <1>3 DEF NobodyIsStranded, Answered
  <2>1. CASE q = r
    BY <1>3, <2>1 DEF Earned
  <2>2. CASE q # r
    BY <1>3, <2>2 DEF ViewsKept, NobodyIsStranded, Answered
  <2>3. QED
    BY <2>1, <2>2
<1>13. PresentIsSaved'
  <2> SUFFICES ASSUME NEW q \in Request, "present" \in late[q]
               PROVE  /\ ask[q].view = "login"
                      /\ ask[ask[q].account].view = "register"
                      /\ pc'[ask[q].account] \notin {"unsent", "name", "mail", "save"}
    BY <1>3 DEF PresentIsSaved, Registered
  <2>1. /\ ask[q].view = "login"
        /\ ask[ask[q].account].view = "register"
        /\ pc[ask[q].account] \notin {"unsent", "name", "mail", "save"}
    BY DEF ViewsKept, PresentIsSaved, Registered
  <2>2. ask[q] \in Asks
    BY DEF ViewsKept, StateOK
  <2>3. ask[q].account \in Request
    BY <2>1, <2>2 DEF Asks
  <2>4. QED
    BY <1>2, <1>3, <2>1, <2>3 DEF Earned
<1>14. QED
  BY <1>5, <1>6, <1>7, <1>8, <1>9, <1>10, <1>11, <1>12, <1>13 DEF ViewsKept

\* Where it is, a request has what it read: the facts that Earned asks for.
LEMMA Here ==
    ASSUME ViewsKept, NEW r \in InFlight
    PROVE  /\ r \in users => Registered(r) /\ pc[r] \notin {"name", "mail", "save"}
           /\ "rotated" \in late[r] => ask[r].token \in blacklist /\ pc[r] = "verify"
           /\ "deleted" \in late[r] =>
                 /\ ~ Registered(r) /\ AccountOf(r) \notin users
                 /\ pc[r] \in {"authenticate", "user", "verify", "owner"}
BY InFlightType DEF ViewsKept, StagesMatch, LateStops, InFlight, Registered, AccountOf

LEMMA RegisterReadsViewsKept ==
    ASSUME ViewsKept, NEW r \in Request, NEW valid \in BOOLEAN,
           CheckName(r) \/ CheckMail(r, valid)
    PROVE  ViewsKept'
<1>1. r \in InFlight
  BY DEF CheckName, CheckMail, InFlight
<1>2. ask[r].view = "register" /\ Registered(r) /\ AccountOf(r) = r
  BY <1>1, InFlightType DEF CheckName, CheckMail, Stages, Registered, AccountOf
<1>3. CASE CheckName(r)
  <2>1. Walk(r, "mail", None)
    BY <1>3 DEF CheckName, GoTo, Walk, tables, ViewsKept, StateOK
  <2>2. ~ NameTaken(r) \/ r \in clash'
    BY <1>3 DEF CheckName
  <2>3. Earned(r, "mail", None)
    BY <1>1, <1>2, <1>3, <2>2, Here DEF CheckName, Earned, Stages, Labels
  <2>4. QED
    BY <1>1, <2>1, <2>3, WalkViewsKept
<1>4. CASE CheckMail(r, valid)
  <2>1. pc[r] = "mail"
    BY <1>4 DEF CheckMail
  <2>2. CASE valid /\ ~ MailTaken(r) /\ r \notin clash
    <3>1. Walk(r, "save", None)
      BY <1>4, <2>2 DEF CheckMail, GoTo, Walk, tables, ViewsKept, StateOK
    <3>2. Earned(r, "save", None)
      BY <1>1, <1>2, <2>1, <2>2, Here DEF Earned, Stages, ViewsKept, AloneIsCurrent, MayInsert
    <3>3. QED
      BY <1>1, <3>1, <3>2, WalkViewsKept
  <2>3. CASE ~ (valid /\ ~ MailTaken(r) /\ r \notin clash)
    <3>1. Walk(r, "answered", "ValidationError")
      BY <1>4, <2>3 DEF CheckMail, Answer, Walk, tables, ViewsKept, StateOK
    <3>2. Earned(r, "answered", "ValidationError")
      BY <1>1, <1>2, <2>1, Here DEF Earned, Stages, Answers
    <3>3. QED
      BY <1>1, <3>1, <3>2, WalkViewsKept
  <2>4. QED
    BY <2>2, <2>3
<1>5. QED
  BY <1>3, <1>4

\* A row of an account appears: everybody else in flight was raced.
LEMMA SaveViewsKept ==
    ASSUME ViewsKept, NEW r \in Request, Save(r)
    PROVE  ViewsKept'
<1>1. r \in InFlight /\ pc[r] = "save"
  BY DEF Save, InFlight
<1>2. ask[r].view = "register" /\ Registered(r) /\ AccountOf(r) = r /\ r \notin users
  BY <1>1, InFlightType, Here DEF Stages, Registered, AccountOf
<1>3. CASE ~ MayInsert(r)
  <2>1. Walk(r, "answered", "IntegrityError")
    BY <1>3 DEF Save, Answer, Walk, ViewsKept, StateOK
  <2>2. Earned(r, "answered", "IntegrityError")
    BY <1>1, <1>2, <1>3, Here DEF Earned, Answers, ViewsKept, AloneIsCurrent
  <2>3. QED
    BY <1>1, <2>1, <2>2, WalkViewsKept
<1>4. CASE MayInsert(r)
  <2>1. /\ users' = users \cup {r}
        /\ raced' = raced \cup (InFlight \ {r})
        /\ pc' = [pc EXCEPT ![r] = "issue"]
        /\ UNCHANGED <<ask, on, answer, late, outstanding, blacklist, clash>>
    BY <1>4 DEF Save, GoTo
  <2>2. /\ pc'[r] = "issue" /\ \A q \in Request \ {r} : pc'[q] = pc[q]
        /\ InFlight' = InFlight
    BY <1>1, <2>1 DEF ViewsKept, StateOK, InFlight
  <2>3. StateOK'
    <3>1. pc' \in [Request -> Labels] /\ InFlight \subseteq Request
      BY <2>1 DEF ViewsKept, StateOK, Labels, InFlight
    <3>2. QED
      BY <1>1, <2>1, <2>2, <3>1 DEF ViewsKept, StateOK
  <2>4. StagesMatch'
    BY <1>2, <2>1, <2>2 DEF ViewsKept, StateOK, StagesMatch, Stages, Registered, InFlight
  <2>5. UniqueAccounts'
    BY <1>4, <2>1 DEF ViewsKept, UniqueAccounts, MayInsert, NameTaken, MailTaken
  <2>6. LeftoversHaveCause'
    BY <2>1, <2>2 DEF ViewsKept, LeftoversHaveCause, Registered, Answered, Succeeded
  <2>7. RotatedIsBlacklisted'
    BY <1>2, <2>1, <2>2 DEF ViewsKept, RotatedIsBlacklisted, Registered, Succeeded
  <2>8. LateStops'
    BY <1>1, <1>2, <2>1, <2>2, Here DEF ViewsKept, LateStops, Succeeded, Registered
  <2>9. AloneIsCurrent'
    <3>1. ASSUME NEW q \in Request \ raced', q # r
          PROVE  pc'[q] \in {"unsent", "answered", "lost"} /\ answer'[q] # "IntegrityError"
      BY <2>1, <2>2, <3>1 DEF ViewsKept, AloneIsCurrent, InFlight
    <3>2. MayIssue(r)' /\ answer'[r] # "IntegrityError"
      BY <1>1, <1>2, <2>1, InFlightType DEF MayIssue, AccountOf, Registered, None
    <3>3. QED
      BY <2>2, <3>1, <3>2 DEF AloneIsCurrent
  <2>10. NobodyIsStranded'
    <3> SUFFICES ASSUME NEW q \in Request, ask[q].view = "login", "present" \in late[q],
                        ask[q].right, pc'[q] = "answered", ask[q].account \in users'
                 PROVE  answer[q] \in {"Success", "OperationalError"}
      BY <2>1 DEF NobodyIsStranded, Answered
    <3>1. ask[q].account # r
      BY <1>1 DEF ViewsKept, PresentIsSaved
    <3>2. q # r
      BY <1>2
    <3>3. QED
      BY <2>1, <2>2, <3>1, <3>2 DEF ViewsKept, NobodyIsStranded, Answered
  <2>11. PresentIsSaved'
    BY <1>1, <2>1, <2>2 DEF ViewsKept, PresentIsSaved, Registered, StateOK
  <2>12. QED
    BY <2>3, <2>4, <2>5, <2>6, <2>7, <2>8, <2>9, <2>10, <2>11 DEF ViewsKept
<1>5. QED
  BY <1>3, <1>4

-----------------------------------------------------------------------------
\* The end of a registration and of a login.
LEMMA IssueViewsKept ==
    ASSUME ViewsKept, NEW r \in Request, Issue(r)
    PROVE  ViewsKept'
<1>1. r \in InFlight /\ pc[r] = "issue"
  BY DEF Issue, InFlight
<1>2. ask[r].view \in {"register", "login"}
  BY <1>1, InFlightType DEF Stages
<1>3. CASE MayIssue(r)
  <2>1. Walk(r, "answered", "Success")
    BY <1>3 DEF Issue, Answer, Walk, ViewsKept, StateOK
  <2>2. Earned(r, "answered", "Success")
    BY <1>1, <1>2, Here DEF Earned, Answers
  <2>3. QED
    BY <1>1, <2>1, <2>2, WalkViewsKept
<1>4. CASE ~ MayIssue(r)
  <2>1. Walk(r, "answered", "IntegrityError")
    BY <1>4 DEF Issue, Answer, Walk, ViewsKept, StateOK
  <2>2. r \in raced
    BY <1>1, <1>4 DEF ViewsKept, AloneIsCurrent
  <2>3. /\ Registered(r) => r \notin users
        /\ ask[r].view = "login" => ask[r].account \notin users
    BY <1>4 DEF MayIssue, AccountOf, Registered
  <2>4. Earned(r, "answered", "IntegrityError")
    BY <1>1, <1>2, <2>2, <2>3, Here DEF Earned, Answers
  <2>5. QED
    BY <1>1, <2>1, <2>4, WalkViewsKept
<1>5. QED
  BY <1>3, <1>4

\* Statements that only look at the tables: of login, of me and of refresh.
LEMMA LoginViewsKept ==
    ASSUME ViewsKept, NEW r \in Request, Authenticate(r)
    PROVE  ViewsKept'
<1>1. r \in InFlight /\ pc[r] = "authenticate"
  BY DEF Authenticate, InFlight
<1>2. ask[r].view = "login" /\ ~ Registered(r) /\ AccountOf(r) = ask[r].account
  BY <1>1, InFlightType DEF Stages, Registered, AccountOf
<1>3. CASE ask[r].right /\ AccountOf(r) \in users
  <2>1. Walk(r, "issue", None)
    BY <1>3 DEF Authenticate, GoTo, Walk, tables, ViewsKept, StateOK
  <2>2. Earned(r, "issue", None)
    BY <1>1, <1>2, <1>3, Here DEF Earned, Stages, MayIssue
  <2>3. QED
    BY <1>1, <2>1, <2>2, WalkViewsKept
<1>4. CASE ~ (ask[r].right /\ AccountOf(r) \in users)
  <2>1. Walk(r, "answered", "AuthenticationFailed")
    BY <1>4 DEF Authenticate, Answer, Walk, tables, ViewsKept, StateOK
  <2>2. Earned(r, "answered", "AuthenticationFailed")
    BY <1>1, <1>2, <1>4, Here DEF Earned, Answers
  <2>3. QED
    BY <1>1, <2>1, <2>2, WalkViewsKept
<1>5. QED
  BY <1>3, <1>4

LEMMA MeViewsKept ==
    ASSUME ViewsKept, NEW r \in Request, NEW expired \in BOOLEAN, GetUser(r, expired)
    PROVE  ViewsKept'
<1> DEFINE how == IF expired THEN "InvalidToken"
                  ELSE IF AccountOf(r) \in users THEN "Success" ELSE "JWTAuthenticationFailed"
<1>1. r \in InFlight /\ pc[r] = "user"
  BY DEF GetUser, InFlight
<1>2. ask[r].view = "me" /\ ~ Registered(r)
  BY <1>1, InFlightType DEF Stages, Registered
<1>3. Walk(r, "answered", how)
  BY DEF GetUser, Answer, Walk, tables, ViewsKept, StateOK
<1>4. Earned(r, "answered", how)
  BY <1>1, <1>2, Here DEF Earned, Answers
<1>5. QED
  BY <1>1, <1>3, <1>4, WalkViewsKept

LEMMA RefreshReadsViewsKept ==
    ASSUME ViewsKept, NEW r \in Request, NEW expired \in BOOLEAN,
           Verify(r, expired) \/ FindOwner(r) \/ FindSubject(r)
    PROVE  ViewsKept'
<1>1. r \in InFlight /\ pc[r] \in {"verify", "owner", "subject"}
  BY DEF Verify, FindOwner, FindSubject, InFlight
<1>2. ask[r].view = "refresh" /\ ~ Registered(r)
  BY <1>1, InFlightType DEF Stages, Registered
<1>3. CASE Verify(r, expired)
  <2>1. CASE expired \/ ask[r].token \in blacklist
    <3>1. Walk(r, "answered", "InvalidToken")
      BY <1>3, <2>1 DEF Verify, Answer, Walk, tables, ViewsKept, StateOK
    <3>2. Earned(r, "answered", "InvalidToken")
      BY <1>1, <1>2, Here DEF Earned, Answers
    <3>3. QED
      BY <1>1, <3>1, <3>2, WalkViewsKept
  <2>2. CASE ~ (expired \/ ask[r].token \in blacklist)
    <3>1. Walk(r, "owner", None)
      BY <1>3, <2>2 DEF Verify, GoTo, Walk, tables, ViewsKept, StateOK
    <3>2. Earned(r, "owner", None)
      BY <1>1, <1>2, <2>2, Here DEF Earned, Stages
    <3>3. QED
      BY <1>1, <3>1, <3>2, WalkViewsKept
  <2>3. QED
    BY <2>1, <2>2
<1>4. CASE FindOwner(r)
  <2>1. pc[r] = "owner"
    BY <1>4 DEF FindOwner
  <2>2. CASE AccountOf(r) \in users
    <3>1. Walk(r, "blacklist", None)
      BY <1>4, <2>2 DEF FindOwner, GoTo, Walk, tables, ViewsKept, StateOK
    <3>2. Earned(r, "blacklist", None)
      BY <1>1, <1>2, <2>1, <2>2, Here DEF Earned, Stages
    <3>3. QED
      BY <1>1, <3>1, <3>2, WalkViewsKept
  <2>3. CASE AccountOf(r) \notin users
    <3>1. Walk(r, "answered", "AuthenticationFailed")
      BY <1>4, <2>3 DEF FindOwner, Answer, Walk, tables, ViewsKept, StateOK
    <3>2. Earned(r, "answered", "AuthenticationFailed")
      BY <1>1, <1>2, Here DEF Earned, Answers
    <3>3. QED
      BY <1>1, <3>1, <3>2, WalkViewsKept
  <2>4. QED
    BY <2>2, <2>3
<1>5. CASE FindSubject(r)
  <2> DEFINE label == IF AccountOf(r) \in users THEN "outstand" ELSE "orphan"
  <2>1. pc[r] = "subject" /\ ask[r].token \in blacklist /\ UNCHANGED blacklist
    BY <1>2, <1>5 DEF FindSubject, ViewsKept, RotatedIsBlacklisted, tables
  <2>2. Walk(r, label, None)
    BY <1>5 DEF FindSubject, GoTo, Walk, tables, ViewsKept, StateOK
  <2>3. Earned(r, label, None)
    BY <1>1, <1>2, <2>1, Here DEF Earned, Stages, MayIssue
  <2>4. QED
    BY <1>1, <2>2, <2>3, WalkViewsKept
<1>6. QED
  BY <1>3, <1>4, <1>5

\* The two statements of a refresh that write.
LEMMA RefreshWritesViewsKept ==
    ASSUME ViewsKept, NEW r \in Request, Blacklist(r) \/ Outstand(r)
    PROVE  ViewsKept'
<1>1. r \in InFlight /\ pc[r] \in {"blacklist", "outstand", "orphan"}
  BY DEF Blacklist, Outstand, InFlight
<1>2. ask[r].view = "refresh" /\ ~ Registered(r) /\ ask[r].token \in Request
  BY <1>1, InFlightType DEF Stages, Registered, Asks
<1>3. CASE Blacklist(r)
  <2>1. pc[r] = "blacklist" /\ ask[r].token \in blacklist'
    BY <1>3 DEF Blacklist
  <2>2. Walk(r, "subject", None)
    BY <1>2, <1>3 DEF Blacklist, GoTo, Walk, ViewsKept, StateOK
  <2>3. Earned(r, "subject", None)
    BY <1>1, <1>2, <2>1, Here DEF Earned, Stages
  <2>4. QED
    BY <1>1, <2>2, <2>3, WalkViewsKept
<1>4. CASE Outstand(r)
  <2>1. pc[r] \in {"outstand", "orphan"} /\ ask[r].token \in blacklist /\ UNCHANGED blacklist
    BY <1>2, <1>4 DEF Outstand, ViewsKept, RotatedIsBlacklisted
  <2>2. CASE pc[r] = "orphan" \/ MayIssue(r)
    <3>1. Walk(r, "answered", "Success")
      BY <1>4, <2>2 DEF Outstand, Answer, Walk, ViewsKept, StateOK
    <3>2. Earned(r, "answered", "Success")
      BY <1>1, <1>2, <2>1, Here DEF Earned, Answers
    <3>3. QED
      BY <1>1, <3>1, <3>2, WalkViewsKept
  <2>3. CASE ~ (pc[r] = "orphan" \/ MayIssue(r))
    <3>1. Walk(r, "answered", "IntegrityError")
      BY <1>4, <2>3 DEF Outstand, Answer, Walk, ViewsKept, StateOK
    <3>2. r \in raced
      BY <1>1, <2>1, <2>3 DEF ViewsKept, AloneIsCurrent
    <3>3. Earned(r, "answered", "IntegrityError")
      BY <1>1, <1>2, <2>1, <3>2, Here DEF Earned, Answers
    <3>4. QED
      BY <1>1, <3>1, <3>3, WalkViewsKept
  <2>4. QED
    BY <2>2, <2>3
<1>5. QED
  BY <1>3, <1>4

\* A statement fails: whatever was committed before stays.
LEMMA FailViewsKept ==
    ASSUME ViewsKept, NEW r \in Request, Fail(r)
    PROVE  ViewsKept'
<1>1. r \in InFlight
  BY DEF Fail
<1>2. Walk(r, "answered", "OperationalError")
  BY DEF Fail, Answer, Walk, tables, ViewsKept, StateOK
<1>3. Earned(r, "answered", "OperationalError")
  BY <1>1, Here DEF Earned, Answers
<1>4. QED
  BY <1>1, <1>2, <1>3, WalkViewsKept

-----------------------------------------------------------------------------
(***************************************************************************)
(* The start of a request and what its environment does.                   *)
(***************************************************************************)
LEMMA StartViewsKept ==
    ASSUME ViewsKept, NEW r \in Request, NEW p \in Process, NEW i \in Ident,
           NEW a \in Askable, Start(r, p, i, a)
    PROVE  ViewsKept'
<1>1. /\ pc[r] = "unsent" /\ r \notin InFlight /\ r \notin users /\ answer[r] = None
  BY DEF Start, InFlight, ViewsKept, StateOK, StagesMatch, None
<1>2. \A t \in Holders : AccountOf(t) \in Request
  BY DEF Holders, AccountOf, Registered, Succeeded, ViewsKept, StateOK, Asks, None
<1>3. a \in Asks
  BY <1>2 DEF Askable, Asks, Holders
<1>4. /\ a.view \in {"register", "login", "refresh", "me"}
      /\ First[a.view] \in {"name", "authenticate", "verify", "user"}
      /\ First[a.view] \in Stages[a.view] /\ First[a.view] \in Labels
  BY <1>3 DEF Asks, First, Stages, Labels
<1>5. PICK label, how :
         /\ label = First[a.view] /\ how = None
         /\ pc' = [pc EXCEPT ![r] = label] /\ answer' = [answer EXCEPT ![r] = how]
  <2>1. /\ pc' = [pc EXCEPT ![r] = First[a.view]]
        /\ answer' = [answer EXCEPT ![r] = None]
    BY <1>1 DEF Start, ViewsKept, StateOK
  <2>2. QED
    BY <2>1
<1>6. /\ UNCHANGED <<users, outstanding, blacklist, clash, raced>>
      /\ ask'[r] = a /\ on'[r] = p /\ pc'[r] = label /\ answer'[r] = how
      /\ \A q \in Request \ {r} : /\ ask'[q] = ask[q] /\ on'[q] = on[q] /\ pc'[q] = pc[q]
                                  /\ answer'[q] = answer[q] /\ late'[q] = late[q]
  BY <1>5 DEF Start, tables, ViewsKept, StateOK
<1>7. /\ late'[r] \subseteq Past
      /\ "present" \in late'[r] => IsPresent(a)
      /\ "rotated" \in late'[r] => IsRotated(a)
      /\ "deleted" \in late'[r] => IsDeleted(a)
  BY DEF Start, ViewsKept, StateOK, Past
<1>8. InFlight' \subseteq InFlight \cup {r}
  BY <1>6 DEF InFlight
<1>9. StateOK'
  <2>1. /\ pc' \in [Request -> Labels] /\ answer' \in [Request -> Answers \cup {None}]
        /\ ask' \in [Request -> Asks \cup {Nothing}] /\ on' \in [Request -> Process \cup {None}]
    BY <1>3, <1>4, <1>5 DEF Start, ViewsKept, StateOK, Labels, Answers
  <2>2. /\ late' \in [Request -> SUBSET Past]
        /\ \A q \in Request : pc'[q] = "unsent" => late'[q] = {}
    <3>1. label # "unsent"
      BY <1>4, <1>5
    <3>2. QED
      BY <1>6, <3>1 DEF Start, ViewsKept, StateOK
  <2>3. \A q \in Request : ask'[q] \in Asks \/
            ((pc'[q] = "unsent" \/ answer'[q] = "Throttled") /\ late'[q] = {})
    BY <1>3, <1>6 DEF ViewsKept, StateOK
  <2>4. \A q, s \in InFlight' : on'[q] = on'[s] => q = s
    BY <1>6, <1>8 DEF Start, Free, ViewsKept, StateOK, InFlight
  <2>5. \A q \in Request : answer'[q] # None <=> pc'[q] = "answered"
    BY <1>4, <1>5, <1>6 DEF ViewsKept, StateOK, None
  <2>6. QED
    BY <1>6, <2>1, <2>2, <2>3, <2>4, <2>5 DEF ViewsKept, StateOK
<1>10. StagesMatch'
  <2>1. \A q \in InFlight' : pc'[q] \in Stages[ask'[q].view]
    BY <1>4, <1>5, <1>6, <1>8 DEF ViewsKept, StagesMatch, InFlight
  <2>2. \A b \in users' : Registered(b)' /\ pc'[b] \notin {"unsent", "name", "mail", "save"}
    BY <1>1, <1>6 DEF ViewsKept, StateOK, StagesMatch, Registered
  <2>3. QED
    BY <2>1, <2>2 DEF StagesMatch
<1>11. UniqueAccounts'
  BY <1>1, <1>6 DEF ViewsKept, StateOK, UniqueAccounts
<1>12. LeftoversHaveCause'
  BY <1>1, <1>6 DEF ViewsKept, StateOK, LeftoversHaveCause, Answered, Succeeded
<1>13. RotatedIsBlacklisted'
  BY <1>4, <1>5, <1>6 DEF ViewsKept, RotatedIsBlacklisted, Succeeded, None
<1>14. LateStops'
  <2>1. ASSUME "rotated" \in late'[r]
        PROVE  /\ a.view = "refresh" /\ a.token \in blacklist
               /\ label \in {"verify", "answered", "lost"} /\ how # "Success"
    BY <1>5, <1>7, <2>1 DEF IsRotated, ViewsKept, RotatedIsBlacklisted, First, None
  <2>2. ASSUME "deleted" \in late'[r]
        PROVE  /\ a.view # "register" /\ a.account \notin users
               /\ a.account # r /\ pc[a.account] \in {"answered", "lost"}
               /\ label \in {"authenticate", "user", "verify", "owner", "answered", "lost"}
               /\ how # "Success"
    BY <1>1, <1>4, <1>5, <1>7, <2>2 DEF IsDeleted, First, None
  <2>3. a.view # "register" => a.account \in Request
    BY <1>3 DEF Asks
  <2> SUFFICES ASSUME NEW q \in Request
               PROVE  /\ "rotated" \in late'[q] =>
                           /\ ask'[q].view = "refresh" /\ ask'[q].token \in blacklist
                           /\ pc'[q] \in {"verify", "answered", "lost"} /\ answer'[q] # "Success"
                      /\ "deleted" \in late'[q] =>
                           /\ ask'[q].view # "register" /\ ask'[q].account \notin users
                           /\ pc'[ask'[q].account] \in {"answered", "lost"}
                           /\ pc'[q] \in {"authenticate", "user", "verify", "owner",
                                          "answered", "lost"}
                           /\ answer'[q] # "Success"
    BY <1>6 DEF LateStops, Succeeded
  <2>4. CASE q = r
    BY <1>6, <2>1, <2>2, <2>3, <2>4
  <2>5. CASE q # r
    <3>1. "deleted" \in late[q] => ask[q].account \in Request /\ ask[q].account # r
      BY <1>1 DEF ViewsKept, StateOK, LateStops, Asks
    <3>2. QED
      BY <1>6, <2>5, <3>1 DEF ViewsKept, LateStops, Succeeded
  <2>6. QED
    BY <2>4, <2>5
<1>15. AloneIsCurrent'
  <2> SUFFICES ASSUME NEW q \in Request \ raced
               PROVE  /\ pc'[q] = "mail" /\ q \notin clash => ~ NameTaken(q)'
                      /\ pc'[q] = "save" => MayInsert(q)'
                      /\ pc'[q] \in {"issue", "outstand"} => MayIssue(q)'
                      /\ answer'[q] # "IntegrityError"
    BY <1>6 DEF AloneIsCurrent
  <2>1. CASE q = r
    BY <1>4, <1>5, <1>6, <2>1 DEF None
  <2>2. CASE q # r
    <3>1. \A b \in users : b \in Request /\ b # r
      BY <1>1 DEF ViewsKept, StateOK
    <3>2. /\ NameTaken(q)' <=> NameTaken(q)
          /\ MayInsert(q)' <=> MayInsert(q)
          /\ MayIssue(q)' <=> MayIssue(q)
      BY <1>6, <2>2, <3>1 DEF NameTaken, MailTaken, MayInsert, MayIssue, AccountOf, Registered
    <3>3. QED
      BY <1>6, <2>2, <3>2 DEF ViewsKept, AloneIsCurrent
  <2>3. QED
    BY <2>1, <2>2
<1>16. PresentIsSaved'
  <2> SUFFICES ASSUME NEW q \in Request, "present" \in late'[q]
               PROVE  /\ ask'[q].view = "login"
                      /\ ask'[ask'[q].account].view = "register"
                      /\ pc'[ask'[q].account] \notin {"unsent", "name", "mail", "save"}
    BY DEF PresentIsSaved, Registered
  <2>1. CASE q = r
    <3>1. ask'[q] = a /\ a.view = "login" /\ a.account \in users
      BY <1>6, <1>7, <2>1 DEF IsPresent
    <3>2. a.account # r /\ a.account \in Request
      BY <1>1, <3>1 DEF ViewsKept, StateOK
    <3>3. Registered(a.account) /\ pc[a.account] \notin {"unsent", "name", "mail", "save"}
      BY <3>1 DEF ViewsKept, StagesMatch
    <3>4. QED
      BY <1>6, <3>1, <3>2, <3>3 DEF Registered
  <2>2. CASE q # r
    <3>1. /\ ask[q].view = "login" /\ Registered(ask[q].account)
          /\ pc[ask[q].account] \notin {"unsent", "name", "mail", "save"}
      BY <1>6, <2>2 DEF ViewsKept, PresentIsSaved
    <3>2. ask[q] \in Asks
      BY <1>6, <2>2 DEF ViewsKept, StateOK
    <3>3. ask[q].account # r /\ ask[q].account \in Request
      BY <1>1, <3>1, <3>2 DEF Asks
    <3>4. QED
      BY <1>6, <2>2, <3>1, <3>3 DEF Registered
  <2>3. QED
    BY <2>1, <2>2
<1>17. NobodyIsStranded'
  <2>1. label # "answered"
    BY <1>4, <1>5
  <2>2. QED
    BY <1>6, <2>1 DEF ViewsKept, NobodyIsStranded, Answered
<1>18. QED
  BY <1>9, <1>10, <1>11, <1>12, <1>13, <1>14, <1>15, <1>16, <1>17 DEF ViewsKept

\* A request that is turned away never was anything.
LEMMA TurnAwayViewsKept ==
    ASSUME ViewsKept, NEW r \in Request, NEW p \in Process, NEW i \in Ident,
           NEW view \in DOMAIN First, TurnAway(r, p, i, view)
    PROVE  ViewsKept'
<1>1. /\ pc[r] = "unsent" /\ r \notin users /\ late[r] = {}
  BY DEF TurnAway, ViewsKept, StateOK, StagesMatch
<1>2. /\ UNCHANGED <<users, outstanding, blacklist, clash, raced, ask, late>>
      /\ pc' = [pc EXCEPT ![r] = "answered"]
      /\ answer' = [answer EXCEPT ![r] = "Throttled"]
      /\ on' = [on EXCEPT ![r] = None]
  BY DEF TurnAway, Answer, tables
<1>3. /\ pc'[r] = "answered" /\ answer'[r] = "Throttled"
      /\ \A q \in Request \ {r} :
             pc'[q] = pc[q] /\ answer'[q] = answer[q] /\ on'[q] = on[q]
      /\ InFlight' = InFlight /\ r \notin InFlight
  BY <1>1, <1>2 DEF ViewsKept, StateOK, InFlight
<1>4. StateOK'
  <2>1. /\ pc' \in [Request -> Labels] /\ answer' \in [Request -> Answers \cup {None}]
        /\ on' \in [Request -> Process \cup {None}]
    BY <1>2 DEF ViewsKept, StateOK, Labels, Answers
  <2>2. \A q \in Request : answer'[q] # None <=> pc'[q] = "answered"
    BY <1>3 DEF ViewsKept, StateOK, None
  <2>3. \A q, s \in InFlight' : on'[q] = on'[s] => q = s
    BY <1>3 DEF ViewsKept, StateOK, InFlight
  <2>4. QED
    BY <1>1, <1>2, <1>3, <2>1, <2>2, <2>3 DEF ViewsKept, StateOK
<1>5. StagesMatch' /\ UniqueAccounts' /\ LeftoversHaveCause'
  BY <1>1, <1>2, <1>3 DEF ViewsKept, StateOK, StagesMatch, UniqueAccounts, LeftoversHaveCause,
      Registered, Answered, Succeeded, InFlight
<1>6. RotatedIsBlacklisted'
  BY <1>2, <1>3 DEF ViewsKept, RotatedIsBlacklisted, Succeeded
<1>7. AloneIsCurrent'
  <2>1. \A q \in Request : /\ NameTaken(q)' <=> NameTaken(q)
                           /\ MayInsert(q)' <=> MayInsert(q)
                           /\ MayIssue(q)' <=> MayIssue(q)
    BY <1>2 DEF NameTaken, MailTaken, MayInsert, MayIssue, AccountOf, Registered
  <2>2. QED
    BY <1>2, <1>3, <2>1 DEF ViewsKept, AloneIsCurrent
<1>8. ASSUME NEW q \in Request, late[q] # {}
      PROVE  q # r /\ (ask[q].view # "register" => ask[q].account \in Request \/ late[q] = {})
  BY <1>1, <1>8 DEF ViewsKept, StateOK, LateStops, PresentIsSaved, Asks
<1>9. LateStops'
  BY <1>1, <1>2, <1>3, <1>8 DEF ViewsKept, LateStops, Succeeded
<1>10. PresentIsSaved'
  BY <1>1, <1>2, <1>3, <1>8 DEF ViewsKept, PresentIsSaved, Registered
<1>11. NobodyIsStranded'
  BY <1>1, <1>2, <1>3 DEF ViewsKept, NobodyIsStranded, Answered
<1>12. QED
  BY <1>4, <1>5, <1>6, <1>7, <1>9, <1>10, <1>11 DEF ViewsKept

\* The tables of tokens keep their rows when an account is deleted.
LEMMA DeleteUserViewsKept ==
    ASSUME ViewsKept, NEW a \in users, DeleteUser(a)
    PROVE  ViewsKept'
<1>1. /\ users' = users \ {a} /\ raced' = raced \cup InFlight
      /\ UNCHANGED <<outstanding, blacklist, ask, pc, on, clash, answer, late>>
  BY DEF DeleteUser, requests
<1>2. InFlight' = InFlight /\ InFlight \subseteq Request
  BY <1>1 DEF InFlight
<1>3. StateOK'
  BY <1>1, <1>2 DEF ViewsKept, StateOK
<1>4. StagesMatch' /\ UniqueAccounts' /\ LeftoversHaveCause'
  BY <1>1, <1>2 DEF ViewsKept, StagesMatch, UniqueAccounts, LeftoversHaveCause, Registered,
      Answered, Succeeded
<1>5. RotatedIsBlacklisted' /\ LateStops'
  BY <1>1 DEF ViewsKept, RotatedIsBlacklisted, LateStops, Succeeded
<1>6. AloneIsCurrent'
  BY <1>1 DEF ViewsKept, AloneIsCurrent, InFlight
<1>7. NobodyIsStranded' /\ PresentIsSaved'
  BY <1>1 DEF ViewsKept, NobodyIsStranded, PresentIsSaved, Answered, Registered
<1>8. QED
  BY <1>3, <1>4, <1>5, <1>6, <1>7 DEF ViewsKept

LEMMA KillViewsKept ==
    ASSUME ViewsKept, NEW p \in Process, Kill(p)
    PROVE  ViewsKept'
<1>1. /\ UNCHANGED <<users, outstanding, blacklist, ask, clash, answer, raced, late>>
      /\ \A r \in Request :
            \/ pc'[r] = pc[r] /\ (r \in InFlight => on'[r] = on[r])
            \/ pc'[r] = "lost" /\ r \in InFlight
      /\ pc' \in [Request -> Labels]
      /\ on' \in [Request -> Process \cup {None}]
  BY DEF Kill, tables, ViewsKept, StateOK, Labels
<1>2. /\ InFlight' \subseteq InFlight /\ users \subseteq Request
      /\ \A r \in InFlight' : pc'[r] = pc[r] /\ on'[r] = on[r]
      /\ \A r \in Request : pc'[r] = "answered" => pc[r] = "answered"
  BY <1>1 DEF InFlight, ViewsKept, StateOK
<1>3. StateOK'
  <2>1. \A r, q \in InFlight' : on'[r] = on'[q] => r = q
    BY <1>2 DEF ViewsKept, StateOK
  <2>2. \A r \in Request : pc'[r] = "unsent" => pc[r] = "unsent"
    BY <1>1
  <2>3. QED
    BY <1>1, <1>2, <2>1, <2>2 DEF ViewsKept, StateOK, InFlight
<1>4. StagesMatch'
  BY <1>1, <1>2 DEF ViewsKept, StateOK, StagesMatch, Registered
<1>5. UniqueAccounts' /\ LeftoversHaveCause'
  BY <1>1, <1>2 DEF ViewsKept, UniqueAccounts, LeftoversHaveCause, Registered, Answered,
      Succeeded
<1>6. RotatedIsBlacklisted'
  BY <1>1 DEF ViewsKept, RotatedIsBlacklisted, Succeeded
<1>7. LateStops'
  <2>1. \A r \in Request : "deleted" \in late[r] => ask[r].account \in Request
    BY DEF ViewsKept, StateOK, LateStops, Asks
  <2>2. QED
    BY <1>1, <2>1 DEF ViewsKept, LateStops, Succeeded, InFlight
<1>8. AloneIsCurrent'
  BY <1>1 DEF ViewsKept, AloneIsCurrent, NameTaken, MailTaken, MayInsert, MayIssue, AccountOf,
      Registered
<1>9. NobodyIsStranded' /\ PresentIsSaved'
  <2>1. \A r \in Request : "present" \in late[r] => ask[r].account \in Request
    BY DEF ViewsKept, StateOK, PresentIsSaved, Asks
  <2>2. QED
    BY <1>1, <2>1 DEF ViewsKept, NobodyIsStranded, PresentIsSaved, Answered, Registered, InFlight
<1>10. QED
  BY <1>3, <1>4, <1>5, <1>6, <1>7, <1>8, <1>9 DEF ViewsKept

LEMMA StutterViewsKept ==
    ASSUME ViewsKept, UNCHANGED <<tables, requests, raced, late>>
    PROVE  ViewsKept'
<1>1. UNCHANGED <<users, outstanding, blacklist, ask, pc, on, clash, answer, raced, late>>
  BY DEF tables, requests
<1>2. StateOK' /\ StagesMatch' /\ UniqueAccounts' /\ LeftoversHaveCause'
  BY <1>1 DEF ViewsKept, StateOK, StagesMatch, InFlight, UniqueAccounts, LeftoversHaveCause,
      Registered, Answered, Succeeded
<1>3. RotatedIsBlacklisted' /\ LateStops'
  BY <1>1 DEF ViewsKept, RotatedIsBlacklisted, LateStops, Succeeded
<1>4. AloneIsCurrent'
  BY <1>1 DEF ViewsKept, AloneIsCurrent, NameTaken, MailTaken, MayInsert, MayIssue, AccountOf,
      Registered
<1>5. NobodyIsStranded' /\ PresentIsSaved'
  BY <1>1 DEF ViewsKept, NobodyIsStranded, PresentIsSaved, Answered, Registered
<1>6. QED
  BY <1>2, <1>3, <1>4, <1>5 DEF ViewsKept

LEMMA NextViewsKept == ViewsKept /\ [Next]_vars => ViewsKept'
<1> SUFFICES ASSUME ViewsKept, [Next]_vars
             PROVE  ViewsKept'
  OBVIOUS
<1>1. ASSUME NEW r \in Request, NEW p \in Process, NEW i \in Ident, NEW a \in Askable,
             Start(r, p, i, a)
      PROVE  ViewsKept'
  BY <1>1, StartViewsKept
<1>0. ASSUME NEW r \in Request, NEW p \in Process, NEW i \in Ident, NEW view \in DOMAIN First,
             TurnAway(r, p, i, view)
      PROVE  ViewsKept'
  BY <1>0, TurnAwayViewsKept
<1>2. ASSUME NEW r \in Request, Handle(r)
      PROVE  ViewsKept'
  <2>1. CASE Register(r)
    BY <2>1, RegisterReadsViewsKept, SaveViewsKept DEF Register
  <2>2. CASE Authenticate(r) \/ Fail(r)
    BY <2>2, LoginViewsKept, FailViewsKept
  <2>3. CASE Issue(r)
    BY <2>3, IssueViewsKept
  <2>4. CASE Me(r)
    BY <2>4, MeViewsKept DEF Me
  <2>5. CASE Refresh(r)
    BY <2>5, RefreshReadsViewsKept, RefreshWritesViewsKept DEF Refresh
  <2>6. QED
    BY <1>2, <2>1, <2>2, <2>3, <2>4, <2>5 DEF Handle
<1>3. CASE Environment
  <2>1. CASE TimePasses
    BY <2>1, StutterViewsKept DEF TimePasses
  <2>2. QED
    BY <1>3, <2>1, DeleteUserViewsKept, KillViewsKept DEF Environment
<1>4. CASE UNCHANGED vars
  BY <1>4, StutterViewsKept DEF vars
<1>5. QED
  BY <1>0, <1>1, <1>2, <1>3, <1>4 DEF Next

-----------------------------------------------------------------------------
(***************************************************************************)
(* The other half: every step takes the throttle by one of its operations.  *)
(***************************************************************************)
\* The throttle finds the scope of every view of this API; of two of them that is
\* none.
LEMMA ViewsAreKnown ==
    ASSUME NEW view \in {"register", "login", "refresh", "me"}
    PROVE  Known(view, "auth")
BY AuthIsRated DEF Known, ScopeOf, Declared, NoScope, Scope

LEMMA AskedViews ==
    ASSUME ViewsKept, NEW a \in Askable
    PROVE  a.view \in {"register", "login", "refresh", "me"}
BY DEF Askable

LEMMA NextGateKept == ViewsKept /\ GateKept("auth") /\ [Next]_vars => GateKept("auth")'
<1> SUFFICES ASSUME ViewsKept, GateKept("auth"), [Next]_vars
             PROVE  GateKept("auth")'
  OBVIOUS
<1>1. "auth" \in Scope
  BY AuthIsRated DEF Scope
<1>2. ASSUME NEW r \in Request, NEW p \in Process, NEW i \in Ident, NEW a \in Askable,
             Start(r, p, i, a)
      PROVE  GateKept("auth")'
  <2>1. Known(a.view, "auth")
    BY AskedViews, ViewsAreKnown
  <2>2. QED
    BY <1>1, <1>2, <2>1, GateAdmits DEF Start
<1>0. ASSUME NEW r \in Request, NEW p \in Process, NEW i \in Ident, NEW view \in DOMAIN First,
             TurnAway(r, p, i, view)
      PROVE  GateKept("auth")'
  BY <1>0, <1>1, GateRefuses DEF TurnAway
<1>3. ASSUME NEW r \in Request, Handle(r)
      PROVE  UNCHANGED gate
  <2>1. CASE Register(r)
    BY <2>1 DEF Register, CheckName, CheckMail, Save
  <2>2. CASE Authenticate(r) \/ Me(r) \/ Issue(r) \/ Fail(r)
    BY <2>2 DEF Authenticate, Me, GetUser, Issue, Fail
  <2>3. CASE Refresh(r)
    BY <2>3 DEF Refresh, Verify, FindOwner, Blacklist, FindSubject, Outstand
  <2>4. QED
    BY <1>3, <2>1, <2>2, <2>3 DEF Handle
<1>4. ASSUME NEW a \in users, DeleteUser(a)
      PROVE  UNCHANGED gate
  BY <1>4 DEF DeleteUser
<1>5. ASSUME NEW p \in Process, Kill(p)
      PROVE  GateKept("auth")'
  BY <1>1, <1>5, GateReplaces DEF Kill
<1>6. CASE TimePasses
  BY <1>1, <1>6, GateTicks DEF TimePasses
<1>7. CASE UNCHANGED vars
  BY <1>7, GateRests DEF vars
<1>8. QED
  BY <1>0, <1>2, <1>3, <1>4, <1>5, <1>6, <1>7, GateRests DEF Next, Environment

-----------------------------------------------------------------------------
(***************************************************************************)
(* Which exceptions become an "internal_error".                            *)
(***************************************************************************)
LEMMA EachHasItsCode ==
    ASSUME NEW exception \in {"Throttled", "ValidationError", "AuthenticationFailed",
                              "InvalidToken", "JWTAuthenticationFailed"}
    PROVE  CustomExceptionHandler(exception).code # "internal_error"
<1> DEFINE matching == {k \in DOMAIN Mapping : IsInstance(exception, Mapping[k][1])}
           place == IF exception = "ValidationError" THEN 1
                    ELSE IF exception = "Throttled" THEN 7 ELSE 2
<1>1. \A k \in DOMAIN Mapping :
          /\ k \in 1 .. 13
          /\ Mapping[k][2] # "internal_error"
          /\ Mapping[k][1] = "ValidationError" <=> k = 1
          /\ Mapping[k][1] = "AuthenticationFailed" <=> k = 2
          /\ Mapping[k][1] = "Throttled" <=> k = 7
          /\ Mapping[k][1] \notin {"InvalidToken", "JWTAuthenticationFailed"}
  BY DEF Mapping
<1>2. {1, 2, 7} \subseteq DOMAIN Mapping
  BY DEF Mapping
<1>3. \A class : IsInstance(exception, class) <=>
          class = exception \/ (exception \in {"InvalidToken", "JWTAuthenticationFailed"}
                                   /\ class = "AuthenticationFailed")
  BY DEF IsInstance, Base
<1>4. matching = {place}
  BY <1>1, <1>2, <1>3
<1>5. Min(matching) = place
  BY <1>4 DEF Min
<1>6. ErrorCodeFor(exception) # "internal_error"
  <2>1. ErrorCodeFor(exception) = Mapping[Min(matching)][2]
    BY <1>4 DEF ErrorCodeFor
  <2>2. QED
    BY <2>1, <1>1, <1>2, <1>5
<1>7. exception \notin DOMAIN Upstream /\ exception \in DOMAIN DefaultStatus
  BY DEF Upstream, DefaultStatus
<1>8. QED
  BY <1>6, <1>7 DEF CustomExceptionHandler

-----------------------------------------------------------------------------
(***************************************************************************)
(* The theorems.                                                           *)
(***************************************************************************)

\* The inductive invariant of the accounts API and its throttle.
THEOREM AccountsInductive == Spec => []IInv
<1>1. Init => IInv
  BY InitViewsKept, GateStarts, AuthIsRated DEF Init, IInv, Scope
<1>2. IInv /\ [Next]_vars => IInv'
  BY NextViewsKept, NextGateKept DEF IInv
<1>3. QED
  BY <1>1, <1>2, PTL DEF Spec

\* Every variable has its type: in particular a process never has two requests
\* in flight.
THEOREM AccountsTypeCorrect == Spec => []TypeOK
<1>1. IInv => TypeOK
  BY DEF IInv, ViewsKept, GateKept, TypeOK
<1>2. QED
  BY <1>1, AccountsInductive, PTL

\* In no window, one that is long past or one still to end, do register and login
\* together let in more requests of a client than the rate, for each process and
\* each one that was replaced.
THEOREM AuthStaysLimited == Spec => []AuthIsLimited
<1>1. IInv => AuthIsLimited
  BY DEF IInv, GateKept, AuthIsLimited
<1>2. QED
  BY <1>1, AccountsInductive, PTL

\* However registrations overlap, no two accounts have a name or an address in
\* common: the check of the serializer may be stale, the constraint is not.
THEOREM NamesAreUnique == Spec => []UniqueAccounts
<1>1. IInv => UniqueAccounts
  BY DEF IInv, ViewsKept
<1>2. QED
  BY <1>1, AccountsInductive, PTL

\* Whatever became of its registration, an account that is there can be logged in to.
THEOREM LeftoversAreUsable == Spec => []NobodyIsStranded
<1>1. IInv => NobodyIsStranded
  BY DEF IInv, ViewsKept
<1>2. QED
  BY <1>1, AccountsInductive, PTL

\* A refresh token is of no use once somebody has the pair that replaced it.
THEOREM OldTokensAreInvalid == Spec => []RotationInvalidates
<1>1. IInv => RotationInvalidates
  BY DEF IInv, ViewsKept, LateStops, RotationInvalidates
<1>2. QED
  BY <1>1, AccountsInductive, PTL

\* Nor is any token of an account that was deleted before.
THEOREM DeletedAccountsAreOut == Spec => []DeletionInvalidates
<1>1. IInv => DeletionInvalidates
  BY DEF IInv, ViewsKept, LateStops, DeletionInvalidates
<1>2. QED
  BY <1>1, AccountsInductive, PTL

\* A request during which no account came or went and no statement failed is never
\* told of an internal error: of the other exceptions that end one only
\* IntegrityError has no translation.
THEOREM InternalErrorsHaveCauses == Spec => []InternalErrorHasCause
<1>1. IInv => InternalErrorHasCause
  <2> SUFFICES ASSUME ViewsKept, NEW r \in Request, Answered(r), ~ Succeeded(r),
                      Envelope(r).code = "internal_error"
               PROVE  r \in raced \/ answer[r] = "OperationalError"
    BY DEF IInv, InternalErrorHasCause
  <2>1. answer[r] \in Answers \ {"Success"}
    BY DEF ViewsKept, StateOK, Answered, Succeeded
  <2>2. answer[r] \in {"IntegrityError", "OperationalError"}
    BY <2>1, EachHasItsCode DEF Answers, Envelope
  <2>3. QED
    BY <2>2 DEF ViewsKept, AloneIsCurrent
<1>2. QED
  BY <1>1, AccountsInductive, PTL
=============================================================================
