----------------------------- MODULE ApiClient -----------------------------
(***************************************************************************)
(* The page's API client and the middleware it talks to:                   *)
(* public/api-client.js, the remote-access prompt of public/app.js, the     *)
(* authentication and CSRF middleware of server.js and the token store of   *)
(* security.js.                                                             *)
(*                                                                         *)
(* A mutation first fetches a CSRF token with a request of its own, which   *)
(* may be refused, prompt the operator and be retried like any other; then  *)
(* it is sent, and each of its two legs is retried at most once.  Requests  *)
(* overlap: they share the remote token and the prompt, and each attaches   *)
(* what it finds when it is sent.  The server may be restarted at any time, *)
(* which forgets the CSRF tokens and may change the remote token.           *)
(***************************************************************************)
EXTENDS Integers, FiniteSets

CONSTANTS
    Reads,          \* the GET requests the page makes
    Mutations,      \* and its POST and DELETE requests
    Secrets,        \* what MISSION_CONTROL_AUTH_TOKEN may be set to, or typed
    NoSecret,           \* null
    MaxRestarts

\* A CSRF token, named for the attempt and the fetch that it answers.
Tokens == Mutations \X (0..1) \X (0..1)

ASSUME ClientAssumption ==
    /\ Reads \cap Mutations = {}
    /\ NoSecret \notin Secrets \cup Tokens
    /\ MaxRestarts \in Nat

VARIABLES
    remote,         \* the page is not on the server's own host
    AUTH_TOKEN,
    tokens,         \* csrfTokenStore
    restarts,
    remoteToken,
    prompted,       \* the requests that await pendingAuthPrompt
    req,            \* the state of each request
    admitted,       \* history: how often the server let a request through
    misled          \* history: a prompt was cancelled, or answered wrongly

middleware == <<remote, AUTH_TOKEN, tokens, restarts>>
clientVars == <<middleware, remoteToken, prompted, req, admitted, misled>>

Requests == Reads \cup Mutations

RequestPhases == {"new", "sent", "answered", "asking", "done"}
Replies == {"none", "ok", "unauthorised", "badCsrf", "disabled", "lost"}

Request ==
    [phase : RequestPhases,
     leg : {"fetch", "self"},   \* the token, or the request itself
     attempt : 0..1,            \* of the request
     fetch : 0..1,              \* of its token
     auth : Secrets \cup {NoSecret},    \* X-Mission-Control-Token
     csrf : Tokens \cup {NoSecret},     \* X-CSRF-Token
     reply : Replies]

Unsent == [phase |-> "new", leg |-> "self", attempt |-> 0, fetch |-> 0,
           auth |-> NoSecret, csrf |-> NoSecret, reply |-> "none"]

ClientInit ==
    /\ remote \in BOOLEAN
    /\ AUTH_TOKEN \in Secrets \cup {NoSecret}
    /\ tokens = {}
    /\ restarts = 0
    /\ remoteToken \in Secrets \cup {NoSecret}
    /\ prompted = {}
    /\ req = [r \in Requests |-> Unsent]
    /\ admitted = [r \in Requests |-> 0]
    /\ misled = FALSE

-----------------------------------------------------------------------------
(* What a request becomes; held is the remote token at that moment           *)

\* fetchFreshCsrfToken: a GET, sent for the given attempt of the request.
Fetching(attempt, fetch, held) ==
    [phase |-> "sent", leg |-> "fetch", attempt |-> attempt, fetch |-> fetch,
     auth |-> held, csrf |-> NoSecret, reply |-> "none"]

\* fetchImpl with the options that buildRequestOptions has put together.
Sent(attempt, csrf, held) ==
    [phase |-> "sent", leg |-> "self", attempt |-> attempt, fetch |-> 0,
     auth |-> held, csrf |-> csrf, reply |-> "none"]

\* requestRaw: a mutation gets a token of its own first.
requestRaw(r, attempt, held) ==
    IF r \in Mutations THEN Fetching(attempt, 0, held)
                       ELSE Sent(attempt, NoSecret, held)

\* The response goes to the caller: the token to the mutation it is for, if
\* there is one, anything else to whoever made the request.
Returned(r, held) ==
    IF req[r].leg = "fetch" /\ req[r].reply # "lost"
    THEN Sent(req[r].attempt,
              IF req[r].reply = "ok" THEN <<r, req[r].attempt, req[r].fetch>> ELSE NoSecret,
              held)
    ELSE [req[r] EXCEPT !.phase = "done"]

\* attempt of the requestRaw that is under way.
Attempt(r) == IF req[r].leg = "fetch" THEN req[r].fetch ELSE req[r].attempt

\* requestRaw(path, opts, attempt + 1) after a 401.
Again(r, held) ==
    IF req[r].leg = "fetch" THEN Fetching(req[r].attempt, 1, held)
                            ELSE requestRaw(r, 1, held)

-----------------------------------------------------------------------------
(* The page                                                                  *)

\* request(path, opts)
Begin(r) ==
    /\ req[r].phase = "new"
    /\ req' = [req EXCEPT ![r] = requestRaw(r, 0, remoteToken)]
    /\ UNCHANGED <<middleware, remoteToken, prompted, admitted, misled>>

\* Mutant of CsrfRejected: the retry presents the rejected token again.
CsrfRejectedSameToken(r) ==
    /\ req[r].phase = "answered"
    /\ req[r].reply = "badCsrf" /\ Attempt(r) = 0
    /\ req' = [req EXCEPT ![r] = Sent(1, req[r].csrf, remoteToken)]
    /\ UNCHANGED <<middleware, remoteToken, prompted, admitted, misled>>

\* Mutant of CsrfRejected: no limit to the retries.
CsrfRejectedAgain(r) ==
    /\ req[r].phase = "answered"
    /\ req[r].reply = "badCsrf"
    /\ req' = [req EXCEPT ![r] = requestRaw(r, Attempt(r) + 1, remoteToken)]
    /\ UNCHANGED <<middleware, remoteToken, prompted, admitted, misled>>

\* The CSRF token was rejected: another one, once.
CsrfRejected(r) ==
    /\ req[r].phase = "answered"
    /\ req[r].reply = "badCsrf" /\ Attempt(r) = 0
    /\ req' = [req EXCEPT ![r] = requestRaw(r, 1, remoteToken)]
    /\ UNCHANGED <<middleware, remoteToken, prompted, admitted, misled>>

\* Mutant of requestAuthToken: every refused request opens a prompt of its own,
\* and the resolver of the one before is lost.
requestAuthTokenAlone(r) == prompted' = {r}

\* requestAuthToken: the first to be refused opens the prompt, others join it.
requestAuthToken(r) == prompted' = prompted \cup {r}

Unauthorised(r) ==
    /\ req[r].phase = "answered"
    /\ req[r].reply = "unauthorised" /\ Attempt(r) = 0
    /\ requestAuthToken(r)
    /\ req' = [req EXCEPT ![r].phase = "asking"]
    /\ UNCHANGED <<middleware, remoteToken, admitted, misled>>

\* Mutant of Deliver: a request whose connection broke is sent again.
DeliverOrRetry(r) ==
    /\ req[r].phase = "answered"
    /\ req[r].reply = "badCsrf" => Attempt(r) = 1
    /\ req[r].reply = "unauthorised" => Attempt(r) = 1
    /\ req' = [req EXCEPT ![r] =
                  IF req[r].reply = "lost" /\ req[r].attempt = 0
                  THEN requestRaw(r, 1, remoteToken)
                  ELSE Returned(r, remoteToken)]
    /\ UNCHANGED <<middleware, remoteToken, prompted, admitted, misled>>

\* Any other response is the caller's.
Deliver(r) ==
    /\ req[r].phase = "answered"
    /\ req[r].reply = "badCsrf" => Attempt(r) = 1
    /\ req[r].reply = "unauthorised" => Attempt(r) = 1
    /\ req' = [req EXCEPT ![r] = Returned(r, remoteToken)]
    /\ UNCHANGED <<middleware, remoteToken, prompted, admitted, misled>>

\* submitRemoteAuthToken: everyone who waits goes on with the new token.
SubmitToken(t) ==
    /\ prompted # {}
    /\ prompted' = {}
    /\ remoteToken' = t
    /\ misled' = (misled \/ t # AUTH_TOKEN)
    /\ req' = [r \in Requests |-> IF r \in prompted THEN Again(r, t) ELSE req[r]]
    /\ UNCHANGED <<middleware, admitted>>

\* cancelRemoteAuthModal, or an empty token: the refusal is the answer.
CancelPrompt ==
    /\ prompted # {}
    /\ prompted' = {}
    /\ misled' = TRUE
    /\ req' = [r \in Requests |->
                  IF r \in prompted THEN Returned(r, remoteToken) ELSE req[r]]
    /\ UNCHANGED <<middleware, remoteToken, admitted>>

-----------------------------------------------------------------------------
(* The server                                                                *)

Answer(r, reply) ==
    req' = [req EXCEPT ![r].phase = "answered", ![r].reply = reply]

\* csrfTokenStore.validate: presenting a token spends it.
validate(csrf) == csrf \in tokens /\ tokens' = tokens \ {csrf}

\* The remote-access check in front of every /api route.
Refuse(r) ==
    /\ req[r].phase = "sent"
    /\ remote
    /\ \/ AUTH_TOKEN = NoSecret /\ Answer(r, "disabled")
       \/ AUTH_TOKEN # NoSecret /\ req[r].auth # AUTH_TOKEN /\ Answer(r, "unauthorised")
    /\ UNCHANGED <<middleware, remoteToken, prompted, admitted, misled>>

Trusted(r) == remote => AUTH_TOKEN # NoSecret /\ req[r].auth = AUTH_TOKEN

\* GET /api/csrf-token
IssueToken(r) ==
    /\ req[r].phase = "sent" /\ req[r].leg = "fetch"
    /\ Trusted(r)
    /\ tokens' = tokens \cup {<<r, req[r].attempt, req[r].fetch>>}
    /\ Answer(r, "ok")
    /\ UNCHANGED <<remote, AUTH_TOKEN, restarts, remoteToken, prompted, admitted, misled>>

\* The request passes the middleware and reaches its route.
Admit(r) ==
    /\ req[r].phase = "sent" /\ req[r].leg = "self"
    /\ Trusted(r)
    /\ IF remote /\ r \in Mutations THEN validate(req[r].csrf) ELSE UNCHANGED tokens
    /\ admitted' = [admitted EXCEPT ![r] = @ + 1]
    /\ Answer(r, "ok")
    /\ UNCHANGED <<remote, AUTH_TOKEN, restarts, remoteToken, prompted, misled>>

\* 403 Invalid CSRF token
RejectCsrf(r) ==
    /\ req[r].phase = "sent" /\ req[r].leg = "self"
    /\ Trusted(r)
    /\ remote /\ r \in Mutations /\ req[r].csrf \notin tokens
    /\ Answer(r, "badCsrf")
    /\ UNCHANGED <<middleware, remoteToken, prompted, admitted, misled>>

\* The connection breaks before the request is handled, or before its answer
\* arrives: fetch rejects, and nothing catches it on the way to the caller.
Lose(r) ==
    /\ req[r].phase \in {"sent", "answered"}
    /\ req[r].reply # "lost"
    /\ Answer(r, "lost")
    /\ UNCHANGED <<middleware, remoteToken, prompted, admitted, misled>>

\* The process is restarted, perhaps with another secret.
Restart ==
    /\ restarts < MaxRestarts
    /\ restarts' = restarts + 1
    /\ tokens' = {}
    /\ AUTH_TOKEN' \in Secrets \cup {NoSecret}
    /\ UNCHANGED <<remote, remoteToken, prompted, req, admitted, misled>>

Handle(r) == Refuse(r) \/ IssueToken(r) \/ Admit(r) \/ RejectCsrf(r) \/ Lose(r)

Receive(r) == CsrfRejected(r) \/ Unauthorised(r) \/ Deliver(r)

AnswerPrompt == CancelPrompt \/ \E t \in Secrets : SubmitToken(t)

ClientNext ==
    \/ \E r \in Requests : Begin(r) \/ Receive(r) \/ Handle(r)
    \/ AnswerPrompt
    \/ Restart

ClientSpec == ClientInit /\ [][ClientNext]_clientVars

\* Each request is answered or lost, the page handles its answers, and the
\* operator does something about an open prompt.
ClientFairness ==
    /\ \A r \in Requests : WF_clientVars(Receive(r)) /\ WF_clientVars(Handle(r))
    /\ WF_clientVars(AnswerPrompt)

-----------------------------------------------------------------------------
ClientTypeOK ==
    /\ remote \in BOOLEAN
    /\ AUTH_TOKEN \in Secrets \cup {NoSecret}
    /\ tokens \subseteq Tokens
    /\ restarts \in 0..MaxRestarts
    /\ remoteToken \in Secrets \cup {NoSecret}
    /\ prompted \subseteq Requests
    /\ req \in [Requests -> Request]
    /\ admitted \in [Requests -> Nat]
    /\ misled \in BOOLEAN

\* What the caller is told is what happened: a request that was refused was
\* never let through, one that was answered was let through exactly once, and
\* however often it was sent, none is let through twice (api-client.js:156).
AtMostOnce ==
    \A r \in Requests :
        /\ admitted[r] <= 1
        /\ req[r].phase = "done" /\ req[r].reply = "ok" => admitted[r] = 1
        /\ req[r].phase = "done" /\ req[r].reply \notin {"ok", "lost"} => admitted[r] = 0

\* The safety net holds: while prompts are answered rightly, one restart of the
\* server never makes a mutation fail for its CSRF token.
RestartIsMasked ==
    ~misled /\ restarts <= 1 =>
        \A r \in Requests : ~(req[r].phase = "done" /\ req[r].reply = "badCsrf")

\* Every request the page makes comes to an end, through prompts and retries.
EveryRequestSettles ==
    \A r \in Requests : req[r].phase # "new" ~> req[r].phase = "done"
=============================================================================
