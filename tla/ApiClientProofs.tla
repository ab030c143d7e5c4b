--------------------------- MODULE ApiClientProofs ---------------------------
(***************************************************************************)
(* Proofs about the API client, for any requests, secrets and restarts:     *)
(* whatever is refused, prompted for, retried or lost, the server lets each *)
(* request through at most once, and the caller is told so.                 *)
(***************************************************************************)
EXTENDS ApiClient, TLAPS

\* Where a request stands in its protocol: only mutations fetch a token, and
\* what waits for the prompt was refused and is known to the prompt.
RequestOrder ==
    \A r \in Requests :
        /\ req[r].leg = "fetch" => r \in Mutations
        /\ r \in prompted <=> req[r].phase = "asking"
        /\ req[r].phase = "asking" => req[r].reply = "unauthorised"

\* What the server did about a request, read off the request: it let it through
\* if the page has been answered, or has lost the answer.
AdmittedOnce ==
    \A r \in Requests :
        /\ admitted[r] \in {0, 1}
        /\ admitted[r] = 1 => /\ req[r].phase \in {"answered", "done"}
                              /\ req[r].leg = "self"
                              /\ req[r].reply \in {"ok", "lost"}
        /\ req[r].phase \in {"answered", "done"} /\ req[r].leg = "self" /\ req[r].reply = "ok"
               => admitted[r] = 1
        /\ req[r].phase = "done" /\ req[r].reply = "ok" => req[r].leg = "self"

ClientInv == ClientTypeOK /\ RequestOrder /\ AdmittedOnce

-----------------------------------------------------------------------------
(* What a request may become                                                 *)

LEMMA FetchingIsRequest ==
    ASSUME NEW attempt \in 0..1, NEW fetch \in 0..1,
           NEW held \in Secrets \cup {NoSecret}
    PROVE  /\ Fetching(attempt, fetch, held) \in Request
           /\ Fetching(attempt, fetch, held).phase = "sent"
           /\ Fetching(attempt, fetch, held).leg = "fetch"
BY DEF Fetching, Request, RequestPhases, Replies

LEMMA SentIsRequest ==
    ASSUME NEW attempt \in 0..1, NEW csrf \in Tokens \cup {NoSecret},
           NEW held \in Secrets \cup {NoSecret}
    PROVE  /\ Sent(attempt, csrf, held) \in Request
           /\ Sent(attempt, csrf, held).phase = "sent"
           /\ Sent(attempt, csrf, held).leg = "self"
BY DEF Sent, Request, RequestPhases, Replies

\* Sending a request, for the first time or again.
LEMMA RawIsRequest ==
    ASSUME ClientTypeOK, NEW r \in Requests, NEW attempt \in 0..1,
           NEW held \in Secrets \cup {NoSecret}
    PROVE  /\ requestRaw(r, attempt, held) \in Request
           /\ requestRaw(r, attempt, held).phase = "sent"
           /\ requestRaw(r, attempt, held).leg = "fetch" => r \in Mutations
<1>1. req[r] \in Request
  BY DEF ClientTypeOK
<1>2. CASE r \in Mutations
  BY <1>1, <1>2, FetchingIsRequest DEF requestRaw
<1>3. CASE r \notin Mutations
  <2>1. requestRaw(r, attempt, held) = Sent(attempt, NoSecret, held)
    BY <1>3 DEF requestRaw
  <2>2. NoSecret \in Tokens \cup {NoSecret}
    OBVIOUS
  <2> QED
    BY <1>1, <2>1, <2>2, SentIsRequest
<1> QED
  BY <1>2, <1>3

\* A response is handed on: to the mutation whose token it is about, which is
\* then sent, or to the caller, who learns the reply that came.
LEMMA ReturnedIsRequest ==
    ASSUME ClientTypeOK, RequestOrder, NEW r \in Requests,
           NEW held \in Secrets \cup {NoSecret}
    PROVE  /\ Returned(r, held) \in Request
           /\ Returned(r, held).leg = "fetch" => r \in Mutations
           /\ \/ /\ req[r].leg = "fetch"
                 /\ Returned(r, held).phase = "sent"
              \/ /\ req[r].leg = "self" \/ req[r].reply = "lost"
                 /\ Returned(r, held).phase = "done"
                 /\ Returned(r, held).leg = req[r].leg
                 /\ Returned(r, held).reply = req[r].reply
<1>1. req[r] \in Request
  BY DEF ClientTypeOK
<1>2. CASE req[r].leg = "fetch" /\ req[r].reply # "lost"
  <2> DEFINE csrf == IF req[r].reply = "ok" THEN <<r, req[r].attempt, req[r].fetch>> ELSE NoSecret
  <2>1. csrf \in Tokens \cup {NoSecret}
    BY <1>1, <1>2 DEF RequestOrder, Tokens, Request
  <2>2. Returned(r, held) = Sent(req[r].attempt, csrf, held)
    BY <1>2 DEF Returned
  <2>3. req[r].attempt \in 0..1
    BY <1>1 DEF Request
  <2> HIDE DEF csrf
  <2> QED
    <3>1. /\ Sent(req[r].attempt, csrf, held) \in Request
          /\ Sent(req[r].attempt, csrf, held).phase = "sent"
          /\ Sent(req[r].attempt, csrf, held).leg = "self"
      BY <2>1, <2>3, SentIsRequest
    <3> QED
      BY <1>2, <2>2, <3>1
<1>3. CASE ~(req[r].leg = "fetch" /\ req[r].reply # "lost")
  <2>1. Returned(r, held) = [req[r] EXCEPT !.phase = "done"]
    BY <1>3 DEF Returned
  <2>2. /\ Returned(r, held) \in Request
        /\ Returned(r, held).phase = "done"
        /\ Returned(r, held).leg = req[r].leg
        /\ Returned(r, held).reply = req[r].reply
    BY <1>1, <2>1 DEF Request, RequestPhases
  <2>3. req[r].leg = "self" \/ req[r].reply = "lost"
    BY <1>1, <1>3 DEF Request
  <2> QED
    BY <2>2, <2>3 DEF RequestOrder
<1> QED
  BY <1>2, <1>3

\* After an answered prompt a refused request, or its fetch, is sent again.
LEMMA AgainIsRequest ==
    ASSUME ClientTypeOK, RequestOrder, NEW r \in Requests,
           NEW held \in Secrets \cup {NoSecret}
    PROVE  /\ Again(r, held) \in Request
           /\ Again(r, held).phase = "sent"
           /\ Again(r, held).leg = "fetch" => r \in Mutations
<1>1. req[r] \in Request /\ req[r].attempt \in 0..1
  BY DEF ClientTypeOK, Request
<1>2. CASE req[r].leg = "fetch"
  <2>1. Again(r, held) = Fetching(req[r].attempt, 1, held)
    BY <1>2 DEF Again
  <2>2. r \in Mutations /\ 1 \in 0..1
    BY <1>2 DEF RequestOrder
  <2> QED
    BY <1>1, <2>1, <2>2, FetchingIsRequest
<1>3. CASE req[r].leg # "fetch"
  BY <1>3, RawIsRequest DEF Again
<1> QED
  BY <1>2, <1>3

-----------------------------------------------------------------------------
(* Steps that change one request                                             *)

\* A step that gives one request, which was not let through, a new state in
\* which it is under way keeps the invariant.
LEMMA ResendKeeps ==
    ASSUME ClientInv, NEW r \in Requests, NEW q \in Request,
           req' = [req EXCEPT ![r] = q],
           q.phase = "sent", q.leg = "fetch" => r \in Mutations,
           admitted[r] = 0, r \notin prompted,
           UNCHANGED <<middleware, remoteToken, prompted, admitted, misled>>
    PROVE  ClientInv'
<1>1. ClientTypeOK'
  BY DEF ClientInv, ClientTypeOK, middleware
<1>2. req'[r] = q /\ \A x \in Requests \ {r} : req'[x] = req[x]
  BY DEF ClientInv, ClientTypeOK
<1>3. RequestOrder'
  BY <1>2 DEF ClientInv, RequestOrder
<1>4. AdmittedOnce'
  BY <1>2 DEF ClientInv, AdmittedOnce
<1> QED
  BY <1>1, <1>3, <1>4 DEF ClientInv

\* An answer that arrives changes the phase and the reply of its request.
LEMMA AnswerIsRequest ==
    ASSUME ClientTypeOK, NEW r \in Requests, NEW reply \in Replies, Answer(r, reply)
    PROVE  /\ req' \in [Requests -> Request]
           /\ req'[r].phase = "answered" /\ req'[r].reply = reply
           /\ req'[r].leg = req[r].leg /\ req'[r].attempt = req[r].attempt
           /\ req'[r].fetch = req[r].fetch /\ req'[r].auth = req[r].auth
           /\ req'[r].csrf = req[r].csrf
           /\ \A x \in Requests \ {r} : req'[x] = req[x]
<1>1. req[r] \in Request
  BY DEF ClientTypeOK
<1>2. [req[r] EXCEPT !.phase = "answered", !.reply = reply] \in Request
  BY <1>1 DEF Request, RequestPhases
<1>3. req' = [req EXCEPT ![r] = [req[r] EXCEPT !.phase = "answered", !.reply = reply]]
  BY DEF Answer, ClientTypeOK
<1> QED
  BY <1>1, <1>2, <1>3 DEF ClientTypeOK, Request

\* A request that is refused, rejected or lost.
LEMMA AnswerKeeps ==
    ASSUME ClientInv, NEW r \in Requests, NEW reply \in Replies, Answer(r, reply),
           req[r].phase \in {"sent", "answered"},
           reply # "ok", admitted[r] = 1 => reply = "lost",
           UNCHANGED <<middleware, remoteToken, prompted, admitted, misled>>
    PROVE  ClientInv'
<1>0. ClientTypeOK
  BY DEF ClientInv
<1>1. /\ req' \in [Requests -> Request]
      /\ req'[r].phase = "answered" /\ req'[r].reply = reply
      /\ req'[r].leg = req[r].leg
      /\ \A x \in Requests \ {r} : req'[x] = req[x]
  BY <1>0, AnswerIsRequest
<1>2. ClientTypeOK'
  BY <1>1 DEF ClientInv, ClientTypeOK, middleware
<1>3. RequestOrder'
  BY <1>1 DEF ClientInv, RequestOrder
<1>4. AdmittedOnce'
  BY <1>1 DEF ClientInv, AdmittedOnce
<1> QED
  BY <1>2, <1>3, <1>4 DEF ClientInv

-----------------------------------------------------------------------------
(* The steps of the page                                                     *)

LEMMA BeginKeeps ==
    ASSUME ClientInv, NEW r \in Requests, Begin(r)
    PROVE  ClientInv'
<1>1. requestRaw(r, 0, remoteToken) \in Request
      /\ requestRaw(r, 0, remoteToken).phase = "sent"
      /\ (requestRaw(r, 0, remoteToken).leg = "fetch" => r \in Mutations)
  BY RawIsRequest DEF ClientInv, ClientTypeOK
<1>2. admitted[r] = 0 /\ r \notin prompted
  BY DEF Begin, ClientInv, AdmittedOnce, RequestOrder
<1> QED
  BY <1>1, <1>2, ResendKeeps DEF Begin

LEMMA CsrfRejectedKeeps ==
    ASSUME ClientInv, NEW r \in Requests, CsrfRejected(r)
    PROVE  ClientInv'
<1>1. requestRaw(r, 1, remoteToken) \in Request
      /\ requestRaw(r, 1, remoteToken).phase = "sent"
      /\ (requestRaw(r, 1, remoteToken).leg = "fetch" => r \in Mutations)
  BY RawIsRequest DEF ClientInv, ClientTypeOK
<1>2. admitted[r] = 0 /\ r \notin prompted
  BY DEF CsrfRejected, ClientInv, AdmittedOnce, RequestOrder
<1> QED
  BY <1>1, <1>2, ResendKeeps DEF CsrfRejected

LEMMA UnauthorisedKeeps ==
    ASSUME ClientInv, NEW r \in Requests, Unauthorised(r)
    PROVE  ClientInv'
<1>1. req[r] \in Request
  BY DEF ClientInv, ClientTypeOK
<1>2. [req[r] EXCEPT !.phase = "asking"] \in Request
  BY <1>1 DEF Request, RequestPhases
<1>3. req' = [req EXCEPT ![r] = [req[r] EXCEPT !.phase = "asking"]]
  BY DEF Unauthorised, ClientInv, ClientTypeOK
<1>4. /\ req'[r].phase = "asking" /\ req'[r].leg = req[r].leg /\ req'[r].reply = "unauthorised"
      /\ \A x \in Requests \ {r} : req'[x] = req[x]
  BY <1>1, <1>3 DEF Unauthorised, ClientInv, ClientTypeOK, Request
<1>5. prompted' = prompted \cup {r}
  BY DEF Unauthorised, requestAuthToken
<1>6. ClientTypeOK'
  <2>1. req' \in [Requests -> Request] /\ prompted' \subseteq Requests
    BY <1>2, <1>3, <1>5 DEF ClientInv, ClientTypeOK
  <2> QED
    BY <2>1 DEF Unauthorised, ClientInv, ClientTypeOK, middleware
<1>7. RequestOrder'
  BY <1>4, <1>5 DEF ClientInv, RequestOrder
<1>8. AdmittedOnce'
  <2>1. admitted' = admitted /\ admitted[r] = 0
    BY DEF Unauthorised, ClientInv, AdmittedOnce
  <2> QED
    BY <1>4, <2>1 DEF ClientInv, AdmittedOnce
<1> QED
  BY <1>6, <1>7, <1>8 DEF ClientInv

\* Handing a response on keeps the invariant, whether the request ends with it
\* or goes on.
LEMMA DeliverKeeps ==
    ASSUME ClientInv, NEW r \in Requests, Deliver(r)
    PROVE  ClientInv'
<1>1. /\ Returned(r, remoteToken) \in Request
      /\ Returned(r, remoteToken).leg = "fetch" => r \in Mutations
      /\ \/ /\ req[r].leg = "fetch"
            /\ Returned(r, remoteToken).phase = "sent"
         \/ /\ req[r].leg = "self" \/ req[r].reply = "lost"
            /\ Returned(r, remoteToken).phase = "done"
            /\ Returned(r, remoteToken).leg = req[r].leg
            /\ Returned(r, remoteToken).reply = req[r].reply
  BY ReturnedIsRequest DEF ClientInv, ClientTypeOK
<1>2. req[r].phase = "answered" /\ r \notin prompted
  BY DEF Deliver, ClientInv, RequestOrder
<1>3. CASE Returned(r, remoteToken).phase = "sent" /\ req[r].leg = "fetch"
  <2>1. admitted[r] = 0
    BY <1>3 DEF ClientInv, AdmittedOnce
  <2> QED
    BY <1>1, <1>2, <1>3, <2>1, ResendKeeps DEF Deliver
<1>4. CASE /\ req[r].leg = "self" \/ req[r].reply = "lost"
           /\ Returned(r, remoteToken).phase = "done"
           /\ Returned(r, remoteToken).leg = req[r].leg
           /\ Returned(r, remoteToken).reply = req[r].reply
  <2>1. req'[r] = Returned(r, remoteToken) /\ \A x \in Requests \ {r} : req'[x] = req[x]
    BY DEF Deliver, ClientInv, ClientTypeOK
  <2>2. ClientTypeOK'
    BY <1>1 DEF Deliver, ClientInv, ClientTypeOK, middleware
  <2>3. RequestOrder'
    BY <1>1, <1>2, <1>4, <2>1 DEF Deliver, ClientInv, RequestOrder
  <2>4. AdmittedOnce'
    BY <1>2, <1>4, <2>1 DEF Deliver, ClientInv, AdmittedOnce
  <2> QED
    BY <2>2, <2>3, <2>4 DEF ClientInv
<1> QED
  BY <1>1, <1>3, <1>4

LEMMA SubmitTokenKeeps ==
    ASSUME ClientInv, NEW t \in Secrets, SubmitToken(t)
    PROVE  ClientInv'
<1>1. \A r \in Requests :
          /\ Again(r, t) \in Request
          /\ Again(r, t).phase = "sent"
          /\ Again(r, t).leg = "fetch" => r \in Mutations
  BY AgainIsRequest DEF ClientInv
<1>2. /\ req' = [r \in Requests |-> IF r \in prompted THEN Again(r, t) ELSE req[r]]
      /\ prompted' = {} /\ remoteToken' = t /\ UNCHANGED <<middleware, admitted>>
  BY DEF SubmitToken
<1>3. misled' \in BOOLEAN
  BY Zenon DEF SubmitToken, ClientInv, ClientTypeOK
<1>4. ClientTypeOK'
  <2>1. req' \in [Requests -> Request]
    BY <1>1, <1>2 DEF ClientInv, ClientTypeOK
  <2> QED
    BY <1>2, <1>3, <2>1 DEF ClientInv, ClientTypeOK, middleware
<1>5. RequestOrder'
  BY <1>1, <1>2 DEF ClientInv, RequestOrder
<1>6. AdmittedOnce'
  <2>1. \A r \in prompted : r \in Requests /\ admitted[r] = 0
    BY DEF ClientInv, ClientTypeOK, RequestOrder, AdmittedOnce
  <2> QED
    BY <1>1, <1>2, <2>1 DEF ClientInv, AdmittedOnce
<1> QED
  BY <1>4, <1>5, <1>6 DEF ClientInv

LEMMA CancelPromptKeeps ==
    ASSUME ClientInv, CancelPrompt
    PROVE  ClientInv'
<1>1. \A r \in Requests :
          /\ Returned(r, remoteToken) \in Request
          /\ Returned(r, remoteToken).leg = "fetch" => r \in Mutations
          /\ \/ Returned(r, remoteToken).phase = "sent"
             \/ /\ Returned(r, remoteToken).phase = "done"
                /\ Returned(r, remoteToken).reply = req[r].reply
  BY ReturnedIsRequest DEF ClientInv, ClientTypeOK
<1>2. /\ req' = [r \in Requests |-> IF r \in prompted THEN Returned(r, remoteToken) ELSE req[r]]
      /\ prompted' = {} /\ misled' = TRUE /\ UNCHANGED <<middleware, remoteToken, admitted>>
  BY DEF CancelPrompt
<1>3. ClientTypeOK'
  <2>1. req' \in [Requests -> Request]
    BY <1>1, <1>2 DEF ClientInv, ClientTypeOK
  <2> QED
    BY <1>2, <2>1 DEF ClientInv, ClientTypeOK, middleware
<1>4. RequestOrder'
  BY <1>1, <1>2 DEF ClientInv, RequestOrder
<1>5. AdmittedOnce'
  <2>1. \A r \in prompted : r \in Requests /\ admitted[r] = 0 /\ req[r].reply = "unauthorised"
    BY DEF ClientInv, ClientTypeOK, RequestOrder, AdmittedOnce
  <2> QED
    BY <1>1, <1>2, <2>1 DEF ClientInv, AdmittedOnce
<1> QED
  BY <1>3, <1>4, <1>5 DEF ClientInv

-----------------------------------------------------------------------------
(* The steps of the server                                                   *)

LEMMA HandleKeeps ==
    ASSUME ClientInv, NEW r \in Requests, Handle(r)
    PROVE  ClientInv'
<1>0. ClientTypeOK /\ RequestOrder /\ AdmittedOnce
  BY DEF ClientInv
<1>1. req[r].phase = "sent" => admitted[r] = 0
  BY <1>0 DEF AdmittedOnce
<1>2. CASE Refuse(r)
  <2>1. \E reply \in {"disabled", "unauthorised"} : Answer(r, reply)
    BY <1>2 DEF Refuse
  <2> QED
    BY <1>1, <1>2, <2>1, AnswerKeeps DEF Refuse, Replies
<1>3. CASE RejectCsrf(r)
  BY <1>1, <1>3, AnswerKeeps DEF RejectCsrf, Replies
<1>4. CASE Lose(r)
  BY <1>4, AnswerKeeps DEF Lose, Replies
<1>5. CASE IssueToken(r)
  <2>1. /\ req' \in [Requests -> Request]
        /\ req'[r].phase = "answered" /\ req'[r].reply = "ok" /\ req'[r].leg = "fetch"
        /\ \A x \in Requests \ {r} : req'[x] = req[x]
    BY <1>0, <1>5, AnswerIsRequest DEF IssueToken, Replies
  <2>2. <<r, req[r].attempt, req[r].fetch>> \in Tokens
    BY <1>0, <1>5 DEF IssueToken, RequestOrder, ClientTypeOK, Request, Tokens
  <2>3. ClientTypeOK'
    BY <1>0, <1>5, <2>1, <2>2 DEF IssueToken, ClientTypeOK
  <2>4. RequestOrder'
    BY <1>0, <1>5, <2>1 DEF IssueToken, RequestOrder
  <2>5. AdmittedOnce'
    BY <1>0, <1>1, <1>5, <2>1 DEF IssueToken, AdmittedOnce
  <2> QED
    BY <2>3, <2>4, <2>5 DEF ClientInv
<1>6. CASE Admit(r)
  <2>1. /\ req' \in [Requests -> Request]
        /\ req'[r].phase = "answered" /\ req'[r].reply = "ok" /\ req'[r].leg = "self"
        /\ \A x \in Requests \ {r} : req'[x] = req[x]
    BY <1>0, <1>6, AnswerIsRequest DEF Admit, Replies
  <2>2. tokens' \subseteq Tokens
    BY <1>0, <1>6 DEF Admit, validate, ClientTypeOK
  <2>3. admitted' = [admitted EXCEPT ![r] = 1] /\ admitted' \in [Requests -> Nat]
    BY <1>0, <1>1, <1>6 DEF Admit, ClientTypeOK
  <2>4. ClientTypeOK'
    BY <1>0, <1>6, <2>1, <2>2, <2>3 DEF Admit, ClientTypeOK
  <2>5. RequestOrder'
    BY <1>0, <1>6, <2>1 DEF Admit, RequestOrder
  <2>6. AdmittedOnce'
    BY <1>0, <2>1, <2>3 DEF AdmittedOnce, ClientTypeOK
  <2> QED
    BY <2>4, <2>5, <2>6 DEF ClientInv
<1> QED
  BY <1>2, <1>3, <1>4, <1>5, <1>6 DEF Handle

LEMMA RestartKeeps == ClientInv /\ Restart => ClientInv'
<1> SUFFICES ASSUME ClientInv, Restart PROVE ClientInv'
  OBVIOUS
<1>1. restarts' \in 0..MaxRestarts
  BY ClientAssumption DEF Restart, ClientInv, ClientTypeOK
<1>2. ClientTypeOK'
  BY <1>1 DEF Restart, ClientInv, ClientTypeOK
<1> QED
  BY <1>2 DEF Restart, ClientInv, RequestOrder, AdmittedOnce

-----------------------------------------------------------------------------
LEMMA ClientStarts == ClientInit => ClientInv
<1> SUFFICES ASSUME ClientInit PROVE ClientInv
  OBVIOUS
<1>1. Unsent \in Request
  BY DEF Unsent, Request, RequestPhases, Replies
<1>2. ClientTypeOK
  <2>1. remote \in BOOLEAN /\ misled \in BOOLEAN
    BY Zenon DEF ClientInit
  <2> QED
    BY <1>1, <2>1, ClientAssumption DEF ClientInit, ClientTypeOK
<1>3. \A r \in Requests : req[r].phase = "new" /\ req[r].leg = "self" /\ admitted[r] = 0
  BY DEF ClientInit, Unsent
<1> QED
  BY <1>2, <1>3 DEF ClientInit, ClientInv, RequestOrder, AdmittedOnce

LEMMA ClientSteps == ClientInv /\ [ClientNext]_clientVars => ClientInv'
<1>1. CASE UNCHANGED clientVars
  BY <1>1 DEF clientVars, middleware, ClientInv, ClientTypeOK, RequestOrder, AdmittedOnce
<1> QED
  BY <1>1, BeginKeeps, CsrfRejectedKeeps, UnauthorisedKeeps, DeliverKeeps, SubmitTokenKeeps,
     CancelPromptKeeps, HandleKeeps, RestartKeeps
     DEF ClientNext, Receive, AnswerPrompt

LEMMA ClientInvHolds == ClientSpec => []ClientInv
BY ClientStarts, ClientSteps, PTL DEF ClientSpec

\* Every reachable state of the page and the middleware is well-typed.
THEOREM ClientTypeCorrect == ClientSpec => []ClientTypeOK
<1>1. ClientInv => ClientTypeOK
  BY DEF ClientInv
<1> QED
  BY ClientInvHolds, <1>1, PTL

\* Through lost answers, restarts, refusals, shared prompts and retries of
\* either leg, no request is let through twice, and its caller never hears of a
\* success that was not one, or of a refusal that was a success.
THEOREM AdmittedAtMostOnce == ClientSpec => []AtMostOnce
<1>1. ClientInv => AtMostOnce
  BY DEF ClientInv, AdmittedOnce, AtMostOnce
<1> QED
  BY ClientInvHolds, <1>1, PTL
-----------------------------------------------------------------------------
(* A restart is masked by the one retry.  Before it, no token is rejected and *)
(* nothing is retried but fetches, after a prompt; so when the tokens are     *)
(* lost each mutation still has its retry, whose token nothing takes away.    *)

TokensOf(r) == {r} \X (0..1) \X (0..1)

Accepted(auth) == AUTH_TOKEN # NoSecret /\ auth = AUTH_TOKEN

\* What requests keep to, whoever answers them.
Orderly(r) ==
    /\ req[r].csrf \in TokensOf(r) \cup {NoSecret}
    /\ req[r].reply = "badCsrf" => r \in Mutations /\ remote /\ req[r].leg = "self"
    /\ req[r].phase \in {"new", "sent"} <=> req[r].reply = "none"
    /\ req[r].phase = "new" => req[r].leg = "self" /\ req[r].attempt = 0
    /\ req[r].phase = "asking" => Attempt(r) = 0
    /\ req[r].phase = "done" /\ req[r].reply = "badCsrf" /\ ~misled => req[r].attempt = 1

\* A fetch that is retried has the token that was typed, the right one.
Prompted(r) ==
    req[r].leg = "fetch" /\ req[r].fetch = 1 => Accepted(req[r].auth) /\ Accepted(remoteToken)

\* The answer to a fetch: a token that is still good, a refusal that opens the
\* prompt, or one that all requests meet.
TokenReady(r) ==
    req[r].leg = "fetch" /\ req[r].phase \in {"answered", "asking"} =>
        /\ req[r].reply = "ok" => <<r, req[r].attempt, req[r].fetch>> \in tokens
        /\ req[r].reply = "unauthorised" => req[r].fetch = 0
        /\ req[r].reply = "disabled" => AUTH_TOKEN = NoSecret

\* The request itself carries a good token, unless remote access is disabled.
CsrfReady(r) ==
    req[r].leg = "self" =>
        /\ req[r].phase = "sent" => AUTH_TOKEN = NoSecret \/ req[r].csrf \in tokens
        /\ req[r].reply # "badCsrf"

\* As long as the server has not been restarted, a secret that was accepted once
\* remains the page's, and so the request itself is never refused.
FirstTry(r) ==
    /\ req[r].attempt = 0
    /\ Prompted(r) /\ TokenReady(r) /\ CsrfReady(r)
    /\ req[r].leg = "fetch" /\ req[r].phase = "sent" /\ Accepted(req[r].auth)
           => Accepted(remoteToken)
    /\ req[r].leg = "fetch" /\ req[r].phase = "answered" /\ req[r].reply = "ok"
           => Accepted(remoteToken)
    /\ req[r].leg = "self" /\ req[r].phase # "new" =>
           /\ AUTH_TOKEN = NoSecret \/ req[r].auth = AUTH_TOKEN
           /\ req[r].reply # "unauthorised"

SecondTry(r) == Prompted(r) /\ TokenReady(r) /\ CsrfReady(r)

Masked ==
    remote /\ ~misled =>
        /\ restarts = 0 => \A r \in Mutations : FirstTry(r)
        /\ restarts = 1 => \A r \in Mutations : req[r].attempt = 1 => SecondTry(r)

MaskInv == ClientInv /\ Masked /\ \A r \in Requests : Orderly(r)

\* What a step leaves of r's tokens is enough for r, if r itself did nothing and
\* a new remote token is the right one.
LEMMA Undisturbed ==
    ASSUME ClientInv, NEW r \in Mutations, Orderly(r),
           req'[r] = req[r], AUTH_TOKEN' = AUTH_TOKEN,
           tokens \cap TokensOf(r) \subseteq tokens',
           remoteToken' = remoteToken \/ Accepted(remoteToken')
    PROVE  /\ FirstTry(r) => FirstTry(r)'
           /\ SecondTry(r) => SecondTry(r)'
<1>1. req[r] \in Request /\ tokens \subseteq Tokens
  BY DEF ClientInv, ClientTypeOK, Requests
<1>2. <<r, req[r].attempt, req[r].fetch>> \in TokensOf(r)
  BY <1>1 DEF Request, TokensOf
<1>3. req[r].csrf \in tokens => req[r].csrf \in tokens'
  BY <1>1, ClientAssumption DEF Orderly
<1>4. <<r, req[r].attempt, req[r].fetch>> \in tokens => <<r, req[r].attempt, req[r].fetch>> \in tokens'
  BY <1>2
<1>5. TokenReady(r) => TokenReady(r)'
  BY <1>4 DEF TokenReady
<1>6. CsrfReady(r) => CsrfReady(r)'
  BY <1>3 DEF CsrfReady
<1>7. Prompted(r) => Prompted(r)'
  BY DEF Prompted, Accepted
<1>8. SecondTry(r) => SecondTry(r)'
  BY <1>5, <1>6, <1>7 DEF SecondTry
<1>9. FirstTry(r) => FirstTry(r)'
  BY <1>5, <1>6, <1>7 DEF FirstTry, Accepted
<1> QED
  BY <1>8, <1>9

\* A step of one request keeps the invariant if it keeps its own part of it.
LEMMA OneRequest ==
    ASSUME MaskInv, NEW r \in Requests,
           \A x \in Requests \ {r} :
               req'[x] = req[x] /\ tokens \cap TokensOf(x) \subseteq tokens',
           UNCHANGED <<remote, AUTH_TOKEN, restarts, remoteToken, misled>>,
           Orderly(r)',
           r \in Mutations /\ remote /\ ~misled =>
               /\ restarts = 0 => FirstTry(r)'
               /\ restarts = 1 /\ req'[r].attempt = 1 => SecondTry(r)'
    PROVE  Masked' /\ \A x \in Requests : Orderly(x)'
<1>1. \A x \in Requests \ {r} : Orderly(x)'
  BY DEF MaskInv, Orderly, Attempt
<1>2. ASSUME NEW x \in Mutations, x # r
      PROVE  /\ FirstTry(x) => FirstTry(x)'
             /\ SecondTry(x) => SecondTry(x)'
  <2>1. ClientInv /\ Orderly(x) /\ req'[x] = req[x] /\ tokens \cap TokensOf(x) \subseteq tokens'
    BY <1>2 DEF MaskInv, Requests
  <2> QED
    BY <2>1, Undisturbed
<1>3. Masked'
  <2>1. CASE ~remote \/ misled
    BY <2>1 DEF Masked
  <2>2. CASE remote /\ ~misled /\ restarts = 0
    BY <1>2, <2>2 DEF MaskInv, Masked, Requests
  <2>3. CASE remote /\ ~misled /\ restarts # 0
    <3>1. \A x \in Mutations : x # r => req'[x] = req[x]
      BY DEF Requests
    <3> QED
      BY <1>2, <2>3, <3>1 DEF MaskInv, Masked, Requests
  <2> QED
    BY <2>1, <2>2, <2>3
<1> QED
  BY <1>1, <1>3

\* A request whose token is being fetched, and one that has been sent.
LEMMA FetchStarts ==
    ASSUME NEW r \in Mutations, NEW attempt \in 0..1, NEW fetch \in 0..1,
           NEW held, req'[r] = Fetching(attempt, fetch, held)
    PROVE  /\ Orderly(r)' /\ TokenReady(r)' /\ CsrfReady(r)'
           /\ req'[r].attempt = attempt /\ req'[r].fetch = fetch /\ req'[r].auth = held
           /\ req'[r].leg = "fetch" /\ req'[r].phase = "sent"
           /\ fetch = 0 => Prompted(r)'
BY DEF Fetching, Orderly, TokenReady, CsrfReady, Prompted

LEMMA SendStarts ==
    ASSUME NEW r \in Requests, NEW attempt \in 0..1, NEW held,
           NEW csrf \in TokensOf(r) \cup {NoSecret},
           req'[r] = Sent(attempt, csrf, held)
    PROVE  /\ Orderly(r)' /\ TokenReady(r)' /\ Prompted(r)'
           /\ AUTH_TOKEN' = NoSecret \/ csrf \in tokens' => CsrfReady(r)'
           /\ req'[r].attempt = attempt /\ req'[r].auth = held
           /\ req'[r].leg = "self" /\ req'[r].phase = "sent" /\ req'[r].reply = "none"
BY DEF Sent, Orderly, TokenReady, CsrfReady, Prompted

LEMMA BeginMasked ==
    ASSUME MaskInv, NEW r \in Requests, Begin(r)
    PROVE  Masked' /\ \A x \in Requests : Orderly(x)'
<1>1. req'[r] = requestRaw(r, 0, remoteToken) /\ \A x \in Requests \ {r} : req'[x] = req[x]
  BY DEF Begin, MaskInv, ClientInv, ClientTypeOK
<1>2. UNCHANGED <<remote, AUTH_TOKEN, tokens, restarts, remoteToken, misled>>
  BY DEF Begin, middleware
<1>3. CASE r \in Mutations
  <2>1. req'[r] = Fetching(0, 0, remoteToken)
    BY <1>1, <1>3 DEF requestRaw
  <2>2. Orderly(r)' /\ FirstTry(r)' /\ req'[r].attempt = 0
    BY <1>2, <1>3, <2>1, FetchStarts DEF FirstTry
  <2> QED
    BY <1>1, <1>2, <2>2, OneRequest
<1>4. CASE r \notin Mutations
  <2>1. req'[r] = Sent(0, NoSecret, remoteToken)
    BY <1>1, <1>4 DEF requestRaw
  <2> QED
    BY <1>1, <1>2, <1>4, <2>1, SendStarts, OneRequest
<1> QED
  BY <1>3, <1>4

LEMMA CsrfRejectedMasked ==
    ASSUME MaskInv, NEW r \in Requests, CsrfRejected(r)
    PROVE  Masked' /\ \A x \in Requests : Orderly(x)'
<1>1. req'[r] = requestRaw(r, 1, remoteToken) /\ \A x \in Requests \ {r} : req'[x] = req[x]
  BY DEF CsrfRejected, MaskInv, ClientInv, ClientTypeOK
<1>2. UNCHANGED <<remote, AUTH_TOKEN, tokens, restarts, remoteToken, misled>>
  BY DEF CsrfRejected, middleware
<1>3. r \in Mutations /\ req[r].leg = "self" /\ req[r].reply = "badCsrf"
  BY DEF CsrfRejected, MaskInv, Orderly
<1>4. req'[r] = Fetching(1, 0, remoteToken)
  BY <1>1, <1>3 DEF requestRaw
<1>5. Orderly(r)' /\ SecondTry(r)'
  BY <1>3, <1>4, FetchStarts DEF SecondTry
<1>6. ~(remote /\ ~misled /\ restarts = 0)
  BY <1>3 DEF MaskInv, Masked, FirstTry, CsrfReady
<1> QED
  BY <1>1, <1>2, <1>5, <1>6, OneRequest

LEMMA UnauthorisedMasked ==
    ASSUME MaskInv, NEW r \in Requests, Unauthorised(r)
    PROVE  Masked' /\ \A x \in Requests : Orderly(x)'
<1>1. req[r] \in Request /\ \A x \in Requests \ {r} : req'[x] = req[x]
  BY DEF Unauthorised, MaskInv, ClientInv, ClientTypeOK
<1>2. UNCHANGED <<remote, AUTH_TOKEN, tokens, restarts, remoteToken, misled>>
  BY DEF Unauthorised, middleware
<1>3. req'[r] = [req[r] EXCEPT !.phase = "asking"]
  BY DEF Unauthorised, MaskInv, ClientInv, ClientTypeOK
<1>4. /\ req'[r].phase = "asking" /\ req'[r].leg = req[r].leg /\ req'[r].reply = req[r].reply
      /\ req'[r].attempt = req[r].attempt /\ req'[r].fetch = req[r].fetch
      /\ req'[r].auth = req[r].auth /\ req'[r].csrf = req[r].csrf
  BY <1>1, <1>3 DEF Request
<1>5. /\ req[r].phase = "answered" /\ req[r].reply = "unauthorised" /\ Attempt(r) = 0
  BY DEF Unauthorised
<1>6. Orderly(r)'
  BY <1>2, <1>4, <1>5 DEF MaskInv, Orderly, Attempt
<1>7. SecondTry(r) => SecondTry(r)'
  BY <1>2, <1>4, <1>5 DEF SecondTry, Prompted, TokenReady, CsrfReady, Accepted
<1>8. FirstTry(r) => FirstTry(r)'
  BY <1>2, <1>4, <1>5 DEF FirstTry, Prompted, TokenReady, CsrfReady, Accepted
<1>9. r \in Mutations /\ remote /\ ~misled =>
          /\ restarts = 0 => FirstTry(r)
          /\ restarts = 1 /\ req[r].attempt = 1 => SecondTry(r)
  BY DEF MaskInv, Masked
<1> QED
  BY <1>1, <1>2, <1>4, <1>6, <1>7, <1>8, <1>9, OneRequest

\* What handing a response on makes of the request.
LEMMA ReturnedMasked ==
    ASSUME MaskInv, NEW r \in Requests, NEW held,
           req'[r] = Returned(r, held),
           req[r].phase = "answered" \/ misled',
           req[r].phase \in {"answered", "asking"},
           req[r].reply \in {"badCsrf", "unauthorised"} => Attempt(r) = 1 \/ misled',
           remote' = remote
    PROVE  Orderly(r)'
<1>1. req[r] \in Request
  BY DEF MaskInv, ClientInv, ClientTypeOK
<1>2. CASE req[r].leg = "fetch" /\ req[r].reply # "lost"
  <2> DEFINE csrf == IF req[r].reply = "ok" THEN <<r, req[r].attempt, req[r].fetch>> ELSE NoSecret
  <2>1. csrf \in TokensOf(r) \cup {NoSecret} /\ req[r].attempt \in 0..1
    BY <1>1 DEF TokensOf, Request
  <2>2. req'[r] = Sent(req[r].attempt, csrf, held)
    BY <1>2 DEF Returned
  <2> QED
    BY <2>1, <2>2, SendStarts
<1>3. CASE ~(req[r].leg = "fetch" /\ req[r].reply # "lost")
  <2>1. req'[r] = [req[r] EXCEPT !.phase = "done"]
    BY <1>3 DEF Returned
  <2>2. /\ req'[r].phase = "done" /\ req'[r].leg = req[r].leg /\ req'[r].reply = req[r].reply
        /\ req'[r].attempt = req[r].attempt /\ req'[r].csrf = req[r].csrf
    BY <1>1, <2>1 DEF Request
  <2>3. req[r].reply = "badCsrf" => req[r].attempt = 1 \/ misled'
    BY DEF Attempt, MaskInv, Orderly
  <2> QED
    BY <2>2, <2>3 DEF MaskInv, Orderly
<1> QED
  BY <1>2, <1>3

LEMMA DeliverMasked ==
    ASSUME MaskInv, NEW r \in Requests, Deliver(r)
    PROVE  Masked' /\ \A x \in Requests : Orderly(x)'
<1>1. /\ req[r] \in Request /\ req'[r] = Returned(r, remoteToken)
      /\ \A x \in Requests \ {r} : req'[x] = req[x]
  BY DEF Deliver, MaskInv, ClientInv, ClientTypeOK
<1>2. UNCHANGED <<remote, AUTH_TOKEN, tokens, restarts, remoteToken, misled>>
  BY DEF Deliver, middleware
<1>3. Orderly(r)'
  BY <1>1, <1>2, ReturnedMasked DEF Deliver
<1>4. ASSUME r \in Mutations, remote, ~misled
      PROVE  /\ restarts = 0 => FirstTry(r)'
             /\ restarts = 1 /\ req'[r].attempt = 1 => SecondTry(r)'
  <2>1. CASE req[r].leg = "fetch" /\ req[r].reply # "lost"
    <3> DEFINE csrf == IF req[r].reply = "ok" THEN <<r, req[r].attempt, req[r].fetch>> ELSE NoSecret
    <3>1. csrf \in TokensOf(r) \cup {NoSecret} /\ req[r].attempt \in 0..1
      BY <1>1 DEF TokensOf, Request
    <3>2. req'[r] = Sent(req[r].attempt, csrf, remoteToken)
      BY <1>1, <2>1 DEF Returned
    <3>3. /\ TokenReady(r)' /\ Prompted(r)'
          /\ AUTH_TOKEN' = NoSecret \/ csrf \in tokens' => CsrfReady(r)'
          /\ req'[r].attempt = req[r].attempt /\ req'[r].auth = remoteToken
          /\ req'[r].leg = "self" /\ req'[r].phase = "sent" /\ req'[r].reply = "none"
      <4> HIDE DEF csrf
      <4> QED
        BY <3>1, <3>2, SendStarts
    <3>4. req[r].reply \in {"ok", "unauthorised", "disabled"}
      BY <1>1, <2>1 DEF Deliver, MaskInv, Orderly, Request, Replies
    <3>5. TokenReady(r) => AUTH_TOKEN = NoSecret \/ (req[r].reply = "ok" /\ csrf \in tokens)
      BY <1>1, <2>1, <3>4 DEF Deliver, Attempt, TokenReady
    <3>6. SecondTry(r) => SecondTry(r)'
      BY <1>2, <3>3, <3>5 DEF SecondTry
    <3>7. FirstTry(r) => FirstTry(r)'
      BY <1>2, <2>1, <3>3, <3>5 DEF FirstTry, Deliver, Accepted
    <3> QED
      BY <1>4, <3>3, <3>6, <3>7 DEF MaskInv, Masked
  <2>2. CASE ~(req[r].leg = "fetch" /\ req[r].reply # "lost")
    <3>1. req'[r] = [req[r] EXCEPT !.phase = "done"]
      BY <1>1, <2>2 DEF Returned
    <3>2. /\ req'[r].phase = "done" /\ req'[r].leg = req[r].leg /\ req'[r].reply = req[r].reply
          /\ req'[r].attempt = req[r].attempt /\ req'[r].fetch = req[r].fetch
          /\ req'[r].auth = req[r].auth /\ req'[r].csrf = req[r].csrf
      BY <1>1, <3>1 DEF Request
    <3>3. SecondTry(r) => SecondTry(r)'
      BY <1>2, <3>2 DEF SecondTry, Prompted, TokenReady, CsrfReady, Accepted
    <3>4. FirstTry(r) => FirstTry(r)'
      BY <1>2, <3>2 DEF FirstTry, Prompted, TokenReady, CsrfReady, Accepted, Deliver
    <3> QED
      BY <1>4, <3>2, <3>3, <3>4 DEF MaskInv, Masked
  <2> QED
    BY <2>1, <2>2
<1> QED
  BY <1>1, <1>2, <1>3, <1>4, OneRequest

LEMMA CancelPromptMasked ==
    ASSUME MaskInv, CancelPrompt
    PROVE  Masked' /\ \A x \in Requests : Orderly(x)'
<1>1. misled' /\ remote' = remote
  BY DEF CancelPrompt, middleware
<1>2. ASSUME NEW r \in Requests PROVE Orderly(r)'
  <2>1. CASE r \in prompted
    <3>1. req'[r] = Returned(r, remoteToken) /\ req[r].phase = "asking"
      BY <2>1 DEF CancelPrompt, MaskInv, ClientInv, RequestOrder
    <3> QED
      BY <1>1, <3>1, ReturnedMasked
  <2>2. CASE r \notin prompted
    <3>1. req'[r] = req[r]
      BY <2>2 DEF CancelPrompt
    <3> QED
      BY <1>1, <3>1 DEF MaskInv, Orderly, Attempt
  <2> QED
    BY <2>1, <2>2
<1> QED
  BY <1>1, <1>2 DEF Masked

\* A right answer to the prompt sends each that waits on its way: a fetch to its
\* retry, and a request that the server refused after its restart to its second try.
LEMMA SubmitTokenMasked ==
    ASSUME MaskInv, NEW t \in Secrets, SubmitToken(t)
    PROVE  Masked' /\ \A x \in Requests : Orderly(x)'
<1>1. /\ remoteToken' = t
      /\ UNCHANGED <<remote, AUTH_TOKEN, tokens, restarts>>
      /\ \A r \in Requests : req'[r] = IF r \in prompted THEN Again(r, t) ELSE req[r]
  BY DEF SubmitToken, middleware
<1>2. ~misled' => ~misled /\ Accepted(remoteToken')
  BY <1>1, ClientAssumption, Zenon DEF SubmitToken, Accepted
<1>3. ASSUME NEW r \in Requests, r \in prompted
      PROVE  /\ Orderly(r)'
             /\ r \in Mutations /\ remote /\ ~misled' =>
                   /\ restarts = 0 => FirstTry(r)'
                   /\ req'[r].attempt = 1 => SecondTry(r)'
  <2>1. /\ req'[r] = Again(r, t) /\ req[r].attempt \in 0..1
        /\ req[r].phase = "asking" /\ req[r].reply = "unauthorised"
        /\ req[r].leg \in {"fetch", "self"}
    BY <1>1, <1>3 DEF MaskInv, ClientInv, ClientTypeOK, RequestOrder, Request
  <2>2. CASE req[r].leg = "fetch"
    <3>1. req'[r] = Fetching(req[r].attempt, 1, t) /\ r \in Mutations
      BY <2>1, <2>2 DEF Again, MaskInv, ClientInv, RequestOrder
    <3>2. /\ Orderly(r)' /\ TokenReady(r)' /\ CsrfReady(r)'
          /\ req'[r].attempt = req[r].attempt /\ req'[r].fetch = 1 /\ req'[r].auth = t
          /\ req'[r].leg = "fetch" /\ req'[r].phase = "sent"
      BY <2>1, <3>1, FetchStarts
    <3>3. ~misled' => Prompted(r)' /\ Accepted(remoteToken)'
      BY <1>1, <1>2, <3>2 DEF Prompted, Accepted
    <3>4. remote /\ ~misled' /\ restarts = 0 => req[r].attempt = 0
      BY <1>2, <3>1 DEF MaskInv, Masked, FirstTry
    <3> QED
      BY <3>2, <3>3, <3>4 DEF FirstTry, SecondTry
  <2>3. CASE req[r].leg = "self"
    <3>1. req'[r] = requestRaw(r, 1, t)
      BY <2>1, <2>3 DEF Again
    <3>2. CASE r \in Mutations
      <4>1. req'[r] = Fetching(1, 0, t)
        BY <3>1, <3>2 DEF requestRaw
      <4>2. ~(remote /\ ~misled' /\ restarts = 0)
        BY <1>2, <2>1, <2>3, <3>2 DEF MaskInv, Masked, FirstTry
      <4>3. Orderly(r)' /\ SecondTry(r)'
        BY <3>2, <4>1, FetchStarts DEF SecondTry
      <4> QED
        BY <4>2, <4>3
    <3>3. CASE r \notin Mutations
      <4>1. req'[r] = Sent(1, NoSecret, t)
        BY <3>1, <3>3 DEF requestRaw
      <4> QED
        BY <3>3, <4>1, SendStarts
    <3> QED
      BY <3>2, <3>3
  <2> QED
    BY <2>1, <2>2, <2>3
<1>4. ASSUME NEW r \in Requests, r \notin prompted
      PROVE  /\ Orderly(r)'
             /\ r \in Mutations /\ remote /\ ~misled' =>
                   /\ restarts = 0 => FirstTry(r)'
                   /\ restarts = 1 /\ req'[r].attempt = 1 => SecondTry(r)'
  <2>1. req'[r] = req[r]
    BY <1>1, <1>4
  <2>2. Orderly(r)'
    BY <1>1, <1>2, <2>1 DEF MaskInv, Orderly, Attempt
  <2>3. ASSUME r \in Mutations, remote, ~misled'
        PROVE  /\ FirstTry(r) => FirstTry(r)'
               /\ SecondTry(r) => SecondTry(r)'
    BY <1>1, <1>2, <2>1, <2>3, Undisturbed DEF MaskInv
  <2> QED
    BY <1>2, <2>1, <2>2, <2>3 DEF MaskInv, Masked
<1> QED
  BY <1>1, <1>3, <1>4 DEF Masked, Requests

\* An answer leaves the request where it was in its protocol.
LEMMA AnswerOrderly ==
    ASSUME MaskInv, NEW r \in Requests, NEW reply \in Replies \ {"none"}, Answer(r, reply),
           req[r].phase \in {"sent", "answered"},
           reply = "badCsrf" => r \in Mutations /\ remote /\ req[r].leg = "self",
           remote' = remote
    PROVE  Orderly(r)'
<1>1. ClientTypeOK
  BY DEF MaskInv, ClientInv
<1>2. /\ req'[r].phase = "answered" /\ req'[r].reply = reply
      /\ req'[r].leg = req[r].leg /\ req'[r].attempt = req[r].attempt
      /\ req'[r].fetch = req[r].fetch /\ req'[r].csrf = req[r].csrf
  BY <1>1, AnswerIsRequest
<1> QED
  BY <1>2 DEF MaskInv, Orderly

\* So an answer keeps the invariant if each try is still as it should be.
LEMMA AnswerMasked ==
    ASSUME MaskInv, NEW r \in Requests, NEW reply \in Replies \ {"none"}, Answer(r, reply),
           req[r].phase \in {"sent", "answered"},
           reply = "badCsrf" => r \in Mutations /\ remote /\ req[r].leg = "self",
           UNCHANGED <<remote, AUTH_TOKEN, restarts, remoteToken, misled>>,
           \A x \in Requests \ {r} : tokens \cap TokensOf(x) \subseteq tokens',
           r \in Mutations /\ remote => /\ FirstTry(r) => FirstTry(r)'
                                        /\ SecondTry(r) => SecondTry(r)'
    PROVE  Masked' /\ \A x \in Requests : Orderly(x)'
<1>1. Orderly(r)'
  BY AnswerOrderly
<1>2. req'[r].attempt = req[r].attempt /\ \A x \in Requests \ {r} : req'[x] = req[x]
  BY AnswerIsRequest DEF MaskInv, ClientInv
<1>3. r \in Mutations /\ remote /\ ~misled =>
          /\ restarts = 0 => FirstTry(r)'
          /\ restarts = 1 /\ req'[r].attempt = 1 => SecondTry(r)'
  BY <1>2 DEF MaskInv, Masked
<1> QED
  BY <1>1, <1>2, <1>3, OneRequest

\* The fields of a request that has been answered.
LEMMA AnswerFields ==
    ASSUME MaskInv, NEW r \in Requests, NEW reply \in Replies \ {"none"}, Answer(r, reply)
    PROVE  /\ req'[r].phase = "answered" /\ req'[r].reply = reply
           /\ req'[r].leg = req[r].leg /\ req'[r].attempt = req[r].attempt
           /\ req'[r].fetch = req[r].fetch /\ req'[r].auth = req[r].auth
           /\ req'[r].csrf = req[r].csrf
           /\ req[r].leg \in {"fetch", "self"} /\ req[r].fetch \in 0..1
BY AnswerIsRequest DEF MaskInv, ClientInv, ClientTypeOK, Request

\* Neither a fetch with the right secret is refused, nor a first try.
LEMMA RefuseMasked ==
    ASSUME MaskInv, NEW r \in Requests, Refuse(r)
    PROVE  Masked' /\ \A x \in Requests : Orderly(x)'
<1>1. /\ UNCHANGED <<remote, AUTH_TOKEN, tokens, restarts, remoteToken, misled>>
      /\ req[r].phase = "sent"
  BY DEF Refuse, middleware
<1>2. ASSUME NEW reply \in {"disabled", "unauthorised"}, Answer(r, reply),
             reply = "disabled" => AUTH_TOKEN = NoSecret,
             reply = "unauthorised" => AUTH_TOKEN # NoSecret /\ req[r].auth # AUTH_TOKEN
      PROVE  Masked' /\ \A x \in Requests : Orderly(x)'
  <2>1. reply \in Replies \ {"none"}
    BY DEF Replies
  <2>2. /\ req'[r].phase = "answered" /\ req'[r].reply = reply
        /\ req'[r].leg = req[r].leg /\ req'[r].attempt = req[r].attempt
        /\ req'[r].fetch = req[r].fetch /\ req'[r].auth = req[r].auth
        /\ req'[r].csrf = req[r].csrf
        /\ req[r].leg \in {"fetch", "self"} /\ req[r].fetch \in 0..1
    BY <1>2, <2>1, AnswerFields
  <2>3. Prompted(r) => Prompted(r)' /\ TokenReady(r)'
    BY <1>1, <1>2, <2>2 DEF Prompted, TokenReady, Accepted
  <2>4. CsrfReady(r)'
    BY <2>2, <1>2 DEF CsrfReady
  <2>5. SecondTry(r) => SecondTry(r)'
    BY <2>3, <2>4 DEF SecondTry
  <2>6. FirstTry(r) => FirstTry(r)'
    BY <1>1, <1>2, <2>2, <2>3, <2>4 DEF FirstTry
  <2> QED
    BY <1>1, <1>2, <2>1, <2>5, <2>6, AnswerMasked
<1> QED
  BY <1>2 DEF Refuse

LEMMA IssueTokenMasked ==
    ASSUME MaskInv, NEW r \in Requests, IssueToken(r)
    PROVE  Masked' /\ \A x \in Requests : Orderly(x)'
<1>1. /\ UNCHANGED <<remote, AUTH_TOKEN, restarts, remoteToken, misled>>
      /\ tokens' = tokens \cup {<<r, req[r].attempt, req[r].fetch>>}
      /\ req[r].phase = "sent" /\ req[r].leg = "fetch" /\ Answer(r, "ok")
      /\ remote => Accepted(req[r].auth)
  BY DEF IssueToken, Trusted, Accepted
<1>2. "ok" \in Replies \ {"none"}
  BY DEF Replies
<1>3. /\ req'[r].phase = "answered" /\ req'[r].reply = "ok"
      /\ req'[r].leg = req[r].leg /\ req'[r].attempt = req[r].attempt
      /\ req'[r].fetch = req[r].fetch /\ req'[r].auth = req[r].auth
  BY <1>1, <1>2, AnswerFields
<1>4. Prompted(r) => Prompted(r)' /\ TokenReady(r)' /\ CsrfReady(r)'
  BY <1>1, <1>3 DEF Prompted, TokenReady, CsrfReady, Accepted
<1>5. SecondTry(r) => SecondTry(r)'
  BY <1>4 DEF SecondTry
<1>6. remote /\ FirstTry(r) => FirstTry(r)'
  BY <1>1, <1>3, <1>4 DEF FirstTry, Accepted
<1> QED
  BY <1>1, <1>2, <1>5, <1>6, AnswerMasked

\* A request spends its own token, which it needs no more.
LEMMA AdmitMasked ==
    ASSUME MaskInv, NEW r \in Requests, Admit(r)
    PROVE  Masked' /\ \A x \in Requests : Orderly(x)'
<1>1. /\ UNCHANGED <<remote, AUTH_TOKEN, restarts, remoteToken, misled>>
      /\ tokens' = tokens \/ (req[r].csrf \in tokens /\ tokens' = tokens \ {req[r].csrf})
      /\ req[r].phase = "sent" /\ req[r].leg = "self" /\ Answer(r, "ok")
  BY DEF Admit, validate
<1>2. "ok" \in Replies \ {"none"}
  BY DEF Replies
<1>3. /\ req'[r].phase = "answered" /\ req'[r].reply = "ok"
      /\ req'[r].leg = req[r].leg /\ req'[r].attempt = req[r].attempt
      /\ req'[r].auth = req[r].auth
  BY <1>1, <1>2, AnswerFields
<1>4. \A x \in Requests \ {r} : tokens \cap TokensOf(x) \subseteq tokens'
  <2>1. req[r].csrf \in tokens => req[r].csrf \in TokensOf(r)
    BY ClientAssumption DEF MaskInv, ClientInv, ClientTypeOK, Orderly
  <2> QED
    BY <1>1, <2>1 DEF TokensOf
<1>5. Prompted(r)' /\ TokenReady(r)' /\ CsrfReady(r)'
  BY <1>1, <1>3 DEF Prompted, TokenReady, CsrfReady
<1>6. FirstTry(r) => FirstTry(r)'
  BY <1>1, <1>3, <1>5 DEF FirstTry
<1> QED
  BY <1>1, <1>2, <1>4, <1>5, <1>6, AnswerMasked DEF SecondTry

\* A rejected token was neither that of a first try nor that of a second.
LEMMA RejectCsrfMasked ==
    ASSUME MaskInv, NEW r \in Requests, RejectCsrf(r)
    PROVE  Masked' /\ \A x \in Requests : Orderly(x)'
<1>1. /\ UNCHANGED <<remote, AUTH_TOKEN, tokens, restarts, remoteToken, misled>>
      /\ req[r].phase = "sent" /\ req[r].leg = "self" /\ Answer(r, "badCsrf")
      /\ remote /\ r \in Mutations /\ req[r].csrf \notin tokens /\ AUTH_TOKEN # NoSecret
  BY DEF RejectCsrf, Trusted, middleware
<1>2. "badCsrf" \in Replies \ {"none"}
  BY DEF Replies
<1>3. ~FirstTry(r) /\ ~SecondTry(r)
  BY <1>1 DEF FirstTry, SecondTry, CsrfReady
<1> QED
  BY <1>1, <1>2, <1>3, AnswerMasked

LEMMA LoseMasked ==
    ASSUME MaskInv, NEW r \in Requests, Lose(r)
    PROVE  Masked' /\ \A x \in Requests : Orderly(x)'
<1>1. /\ UNCHANGED <<remote, AUTH_TOKEN, tokens, restarts, remoteToken, misled>>
      /\ req[r].phase \in {"sent", "answered"} /\ Answer(r, "lost")
  BY DEF Lose, middleware
<1>2. "lost" \in Replies \ {"none"}
  BY DEF Replies
<1>3. /\ req'[r].phase = "answered" /\ req'[r].reply = "lost"
      /\ req'[r].leg = req[r].leg /\ req'[r].attempt = req[r].attempt
      /\ req'[r].fetch = req[r].fetch /\ req'[r].auth = req[r].auth
  BY <1>1, <1>2, AnswerFields
<1>4. Prompted(r) => Prompted(r)' /\ TokenReady(r)' /\ CsrfReady(r)'
  BY <1>1, <1>3 DEF Prompted, TokenReady, CsrfReady, Accepted
<1>5. SecondTry(r) => SecondTry(r)'
  BY <1>4 DEF SecondTry
<1>6. FirstTry(r) => FirstTry(r)'
  BY <1>1, <1>3, <1>4 DEF FirstTry
<1> QED
  BY <1>1, <1>2, <1>5, <1>6, AnswerMasked

\* The restart finds no mutation in its second try.
LEMMA RestartMasked ==
    ASSUME MaskInv, Restart
    PROVE  Masked' /\ \A x \in Requests : Orderly(x)'
<1>1. /\ UNCHANGED <<remote, req, misled>> /\ restarts' = restarts + 1
      /\ restarts \in Nat
  BY ClientAssumption DEF Restart, MaskInv, ClientInv, ClientTypeOK
<1>2. \A x \in Requests : Orderly(x)'
  BY <1>1 DEF MaskInv, Orderly, Attempt
<1>3. Masked'
  <2>1. remote /\ ~misled /\ restarts' = 1 => \A r \in Mutations : req'[r].attempt # 1
    BY <1>1 DEF MaskInv, Masked, FirstTry
  <2>2. restarts' # 0
    BY <1>1
  <2> QED
    BY <1>1, <2>1, <2>2 DEF Masked
<1> QED
  BY <1>2, <1>3

-----------------------------------------------------------------------------
LEMMA MaskStarts == ClientInit => MaskInv
<1> SUFFICES ASSUME ClientInit PROVE MaskInv
  OBVIOUS
<1>1. \A r \in Requests : req[r] = Unsent
  BY DEF ClientInit
<1>2. \A r \in Requests : Orderly(r)
  BY <1>1 DEF Orderly, Unsent
<1>3. \A r \in Mutations : FirstTry(r)
  BY <1>1 DEF FirstTry, Prompted, TokenReady, CsrfReady, Unsent, Requests
<1>4. restarts = 0
  BY DEF ClientInit
<1> QED
  BY <1>2, <1>3, <1>4, ClientStarts DEF MaskInv, Masked

LEMMA MaskSteps == MaskInv /\ [ClientNext]_clientVars => MaskInv'
<1> SUFFICES ASSUME MaskInv, [ClientNext]_clientVars PROVE MaskInv'
  OBVIOUS
<1>1. ClientInv'
  BY ClientSteps DEF MaskInv
<1>2. CASE UNCHANGED clientVars
  <2>1. Masked' /\ \A x \in Requests : Orderly(x)'
    BY <1>2 DEF clientVars, middleware, MaskInv, Masked, Orderly, Attempt, FirstTry,
                SecondTry, Prompted, TokenReady, CsrfReady, Accepted
  <2> QED
    BY <1>1, <2>1 DEF MaskInv
<1>3. CASE ClientNext
  <2>1. Masked' /\ \A x \in Requests : Orderly(x)'
    BY <1>3, BeginMasked, CsrfRejectedMasked, UnauthorisedMasked, DeliverMasked,
       SubmitTokenMasked, CancelPromptMasked, RefuseMasked, IssueTokenMasked, AdmitMasked,
       RejectCsrfMasked, LoseMasked, RestartMasked
       DEF ClientNext, Receive, AnswerPrompt, Handle
  <2> QED
    BY <1>1, <2>1 DEF MaskInv
<1> QED
  BY <1>2, <1>3

\* One restart of the server, at whatever point of however many overlapping
\* requests, never makes a mutation fail for its CSRF token, as long as the
\* prompts are answered rightly: the one retry of api-client.js:156 is enough.
THEOREM OneRestartIsMasked == ClientSpec => []RestartIsMasked
<1>1. MaskInv => RestartIsMasked
  <2> SUFFICES ASSUME MaskInv, ~misled, restarts <= 1,
                      NEW r \in Requests, req[r].phase = "done", req[r].reply = "badCsrf"
               PROVE  FALSE
    BY DEF RestartIsMasked
  <2>1. r \in Mutations /\ remote /\ req[r].leg = "self" /\ req[r].attempt = 1
    BY DEF MaskInv, Orderly
  <2>2. restarts = 0 \/ restarts = 1
    BY ClientAssumption DEF MaskInv, ClientInv, ClientTypeOK
  <2> QED
    BY <2>1, <2>2 DEF MaskInv, Masked, FirstTry, SecondTry, CsrfReady
<1> QED
  BY <1>1, MaskStarts, MaskSteps, PTL DEF ClientSpec
=============================================================================
