------------------------------ MODULE SdkCalls ------------------------------
(***************************************************************************)
(* A client of the gateway: the retry loops of the Python SDK              *)
(* (sdk/src/a2a_client/client.py) and of the TypeScript SDK                *)
(* (sdk-ts/src/client.ts).  The requests whose job has a "try" are the     *)
(* attempts of one call, and are sent one after the other; "retries" is    *)
(* the option of the client.  The delays are left out.                     *)
(***************************************************************************)
EXTENDS Coroutines

VARIABLES attempt,      \* how many attempts were sent
          client,       \* "none", "waiting", "returned", "raised"
          heard,        \* whether an attempt had a response: "resp" is bound
          givenUp     \* history: attempts given up without an answer

clientVars == <<attempt, client, heard, givenUp>>

\* The attempts of the one call are numbered, and are of one operation.
ASSUME AttemptConstants == \A w \in Workloads :
    LET attempts == {r \in Requests : "try" \in DOMAIN w[r]} IN
    /\ \A r \in attempts : w[r].try \in Nat \ {0} /\ w[r].retries \in Nat
    /\ \A q, r \in attempts : w[q].op = w[r].op /\ (w[q].try = w[r].try => q = r)

IsAttempt(r) == "try" \in DOMAIN job[r]
Sent(r) == IsAttempt(r) => job[r].try <= attempt
Latest(r) == IsAttempt(r) /\ job[r].try = attempt /\ client = "waiting"
Python(r) == job[r].sdk = "python"
LastTry(r) == job[r].try = job[r].retries + 1

Again == attempt' = attempt + 1 /\ UNCHANGED client
Raise == client' = "raised" /\ UNCHANGED attempt

\* An answer that is not in RETRYABLE_STATUS_CODES.
TakeAnswer(r) ==
    /\ Latest(r) /\ pc[r] \in {"done", "rejected"}
    /\ client' = IF pc[r] = "done" THEN "returned" ELSE "raised"
    /\ heard' = TRUE
    /\ UNCHANGED <<pc, attempt, givenUp>>

\* 429, 500 and 504; the last one is raised.
RetryStatus(r) ==
    /\ Latest(r) /\ pc[r] \in {"429", "error", "504"}
    /\ IF LastTry(r) THEN Raise ELSE Again
    /\ heard' = TRUE
    /\ UNCHANGED <<pc, givenUp>>

\* The gateway admits no more of this caller.
Limited(r) ==
    /\ Latest(r) /\ pc[r] = "new"
    /\ Go(r, "429")
    /\ UNCHANGED clientVars

\* No answer in time, whatever becomes of the request.  The Python loop comes
\* to "resp.status_code" after it: unbound, unless an earlier attempt had a
\* response.
GiveUp(r) ==
    /\ Latest(r) /\ pc[r] # "lost"
    /\ IF LastTry(r) \/ (Python(r) /\ ~heard) THEN Raise ELSE Again
    /\ givenUp' = givenUp \cup {r}
    /\ UNCHANGED <<pc, heard>>

\* The connection breaks, which is not among the exceptions of the Python loop.
Broken(r) ==
    /\ Latest(r) /\ pc[r] = "lost"
    /\ IF LastTry(r) \/ Python(r) THEN Raise ELSE Again
    /\ givenUp' = givenUp \cup {r}
    /\ UNCHANGED <<pc, heard>>

ClientStep(r) ==
    TakeAnswer(r) \/ RetryStatus(r) \/ Limited(r) \/ GiveUp(r) \/ Broken(r)

ClientInit ==
    LET calling == \E r \in Requests : IsAttempt(r) IN
    /\ attempt = IF calling THEN 1 ELSE 0
    /\ client = IF calling THEN "waiting" ELSE "none"
    /\ heard = FALSE
    /\ givenUp = {}

-----------------------------------------------------------------------------
(***************************************************************************)
(* A method of an SDK against the route it calls: the attempts carry what  *)
(* the method says (SdkMethods), the gateway takes them, does and answers  *)
(* what the route and its tool say (RestRoutes), and the client reads the  *)
(* answer.                                                                 *)
(* Requests of "rest" jobs have no SDK.  A refusal for want of rights, or  *)
(* of the thing asked for, is a choice.                                    *)
(***************************************************************************)

CONSTANTS RouteAt, ToolNamed,        \* the routes by URL, the tools by name
          PythonSdk, TypeScriptSdk,  \* the methods by name
          TextFields                 \* the fields that are answered as texts

VARIABLES made,       \* the requests that did what was asked, in the database
          noted,      \* the request whose key the tool has recorded
          slot,       \* the row of the gate: "empty", "placeholder", "answer"
          replied,    \* the fields of each request's answer
          outcome     \* of the call: "none", "value" or "invalid"

callVars == <<made, noted, slot, replied, outcome>>

ByMethod(r) == Op(r) = "sdk"
IsCall(r) == Op(r) \in {"sdk", "rest"}
MethodOf(r) == (IF Python(r) THEN PythonSdk ELSE TypeScriptSdk)[job[r].method]
RouteOf(r) == RouteAt[IF ByMethod(r) THEN MethodOf(r).url ELSE job[r].url]
ToolOf(r) == ToolNamed[RouteOf(r).tool]

\* The key is the caller's: the SDKs make none, and few methods take one.
KeyIn(r) == CASE ~job[r].key   -> "none"
              [] ByMethod(r)   -> MethodOf(r).key
              [] OTHER         -> "header"
ArgumentsOf(method, full) == method.sends \cup (IF full THEN method.may ELSE {})
InputOf(r) ==
    IF ByMethod(r)
    THEN ArgumentsOf(MethodOf(r), job[r].full)
         \cup (IF KeyIn(r) = "body" THEN {"idempotency_key"} ELSE {})
    ELSE RouteOf(r).input.needs
AtGate(r) == RouteOf(r).key = "gate" /\ KeyIn(r) = "header"
ToolKeyed(r) == \/ RouteOf(r).key = "header" /\ KeyIn(r) = "header"
                \/ RouteOf(r).key = "body" /\ KeyIn(r) # "none"

\* A request fits when it has what is needed, and nothing that is forbidden.
FitsInput(sent, input) ==
    /\ input.needs \subseteq sent
    /\ input.strict => sent \subseteq input.takes

\* 422 for the input, 410 for what is elsewhere by now, 428 for want of the
\* header that confirms.
Misfit(r) == \/ ~FitsInput(InputOf(r), RouteOf(r).input)
             \/ RouteOf(r).open \in {"gone", "confirmed"}

Memory(r) == IF ToolKeyed(r) THEN ToolOf(r).memory ELSE "none"
Effect(r) == ToolOf(r).effect
AfterFind(r) == IF Effect(r) = "once" THEN "check" ELSE "run"
AfterGate(r) == IF Memory(r) \in {"after", "within"} THEN "find" ELSE AfterFind(r)
AfterNote(r) == IF AtGate(r) THEN "record" ELSE "reply"
AfterEffect(r) == IF Memory(r) = "after" THEN "note" ELSE AfterNote(r)

Reply(r, fields) ==
    /\ Go(r, "done")
    /\ replied' = [replied EXCEPT ![r] = fields]

-----------------------------------------------------------------------------
Receive(r) ==
    /\ IsCall(r) /\ pc[r] = "new"
    /\ Go(r, IF Misfit(r) THEN "rejected" ELSE IF AtGate(r) THEN "reserve" ELSE AfterGate(r))
    /\ UNCHANGED callVars

\* check_idempotency: an answer that is there goes out again, a placeholder
\* keeps nobody away.
Reserve(r) ==
    /\ IsCall(r) /\ pc[r] = "reserve"
    /\ IF slot = "answer"
       THEN Reply(r, ToolOf(r).fields) /\ UNCHANGED slot
       ELSE slot' = "placeholder" /\ Go(r, AfterGate(r)) /\ UNCHANGED replied
    /\ UNCHANGED <<made, noted, outcome>>

\* The tool looks for the key, and answers as before.
FindKey(r) ==
    /\ IsCall(r) /\ pc[r] = "find"
    /\ IF noted # {}
       THEN Reply(r, ToolOf(r).fields)
       ELSE Go(r, AfterFind(r)) /\ UNCHANGED replied
    /\ UNCHANGED <<made, noted, slot, outcome>>

\* What was done already is refused, unless the key excuses it.
CheckState(r) ==
    /\ IsCall(r) /\ pc[r] = "check"
    /\ \/ made = {} /\ Go(r, "run") /\ UNCHANGED replied
       \/ made # {} /\ Memory(r) = "state" /\ Reply(r, ToolOf(r).fields)
       \/ made # {} /\ Memory(r) # "state" /\ Go(r, "rejected") /\ UNCHANGED replied
    /\ UNCHANGED <<made, noted, slot, outcome>>

Refuse(r) ==
    /\ IsCall(r) /\ pc[r] \in {"check", "run"}
    /\ \E status \in {"rejected", "error"} : Go(r, status)
    /\ UNCHANGED callVars

Look(r) ==
    /\ IsCall(r) /\ pc[r] = "run" /\ Effect(r) = "reads"
    /\ Reply(r, ToolOf(r).fields)
    /\ UNCHANGED <<made, noted, slot, outcome>>

\* Nothing to do it to, and an answer that says so.
Miss(r) ==
    /\ IsCall(r) /\ pc[r] = "run" /\ ToolOf(r).misses # {}
    /\ Reply(r, ToolOf(r).misses)
    /\ UNCHANGED <<made, noted, slot, outcome>>

Make(r) ==
    /\ IsCall(r) /\ pc[r] = "run" /\ Effect(r) # "reads"
    /\ Effect(r) = "claims" => made = {}
    /\ Memory(r) = "within" => noted = {}
    /\ made' = made \cup {r}
    /\ noted' = IF Memory(r) = "within" THEN {r} ELSE noted
    /\ Go(r, AfterEffect(r))
    /\ UNCHANGED <<slot, replied, outcome>>

\* Another call was faster: the claim fails, or the row is found that has the key.
Beaten(r) ==
    /\ IsCall(r) /\ pc[r] = "run"
    /\ \/ Effect(r) = "claims" /\ made # {} /\ Go(r, "rejected") /\ UNCHANGED replied
       \/ Memory(r) = "within" /\ noted # {} /\ Reply(r, ToolOf(r).fields)
    /\ UNCHANGED <<made, noted, slot, outcome>>

\* The key is UNIQUE: who comes second has done it, and fails.
NoteKey(r) ==
    /\ IsCall(r) /\ pc[r] = "note"
    /\ IF noted = {} THEN noted' = {r} /\ Go(r, AfterNote(r))
                     ELSE Go(r, "error") /\ UNCHANGED noted
    /\ UNCHANGED <<made, slot, replied, outcome>>

\* record_idempotent_response
RecordAnswer(r) ==
    /\ IsCall(r) /\ pc[r] = "record"
    /\ slot' = "answer"
    /\ Go(r, "reply")
    /\ UNCHANGED <<made, noted, replied, outcome>>

Respond(r) ==
    /\ IsCall(r) /\ pc[r] = "reply"
    /\ Reply(r, ToolOf(r).fields)
    /\ UNCHANGED <<made, noted, slot, outcome>>

CallStep(r) ==
    \/ Receive(r) \/ Reserve(r) \/ FindKey(r) \/ CheckState(r) \/ Refuse(r) \/ Look(r)
    \/ Miss(r) \/ Make(r) \/ Beaten(r) \/ NoteKey(r) \/ RecordAnswer(r) \/ Respond(r)

\* from_dict looks for every field of the model, and pydantic takes no date for
\* a number; a cast looks for nothing.
ModelOf(r) == MethodOf(r).reads
Missing(r) == ModelOf(r).fields \ replied[r]
Mistyped(r) == ModelOf(r).numbers \cap TextFields \cap replied[r]
Parse(r) ==
    /\ ByMethod(r) /\ client = "returned" /\ outcome = "none" /\ job[r].try = attempt
    /\ outcome' = IF Python(r) /\ (Missing(r) # {} \/ Mistyped(r) # {})
                  THEN "invalid" ELSE "value"
    /\ UNCHANGED <<pc, clientVars, made, noted, slot, replied>>

CallInit ==
    /\ made = {} /\ noted = {} /\ slot = "empty" /\ outcome = "none"
    /\ replied = [r \in Requests |-> {}]

-----------------------------------------------------------------------------
\* What is done twice was not known to be done: the client had no answer, or
\* one of failure.  The tools that keep a key in a table of its own, or in the
\* row they make, answer one of two calls with it at most.
KeyKept == {"create_split_intent", "create_escrow", "create_performance_escrow", "release_escrow",
            "capture_intent", "partial_capture", "refund_settlement", "deposit", "withdraw",
            "create_subscription", "submit_verification"}
RowKept == {"create_subscription", "submit_verification"}
DoneOnce == \A p, q \in made : p # q =>
    /\ IsAttempt(p) /\ IsAttempt(q) /\ job[p].try < job[q].try =>
          p \in givenUp \/ pc[p] \in {"504", "error", "lost"}
    /\ KeyIn(p) # "none" /\ RouteOf(p).tool \in KeyKept => ~(pc[p] = "done" /\ pc[q] = "done")
    /\ ~(KeyIn(p) # "none" /\ RouteOf(p).tool \in RowKept)

\* No method is refused for what it sends, whoever calls it, but these.
NeverServed == [python |-> {"rate_service", "create_api_key", "rotate_key"},
                typescript |-> {"rateService", "registerAgent", "createApiKey", "rotateKey"}]
ServedWithSecret == {"register_webhook", "registerWebhook"}
InputsTaken == \A r \in Requests : ByMethod(r) /\ pc[r] # "new" =>
    (Misfit(r) <=> \/ job[r].method \in NeverServed[job[r].sdk]
                   \/ job[r].method \in ServedWithSecret /\ ~job[r].full)

\* Who gets a value had the thing done, or reads in it that there was nothing to
\* do; who gets none had it not done, or it was lost on the way, or, with these
\* methods, it was done and the answer cannot be read.
SaysMiss == {"delete_webhook", "deleteWebhook", "addAgentToOrg"}
Unreadable == {"submit_metrics", "negotiate_price", "execute"}
OutcomeTrue == \A r \in Requests : ByMethod(r) /\ job[r].try = attempt /\ ~Misfit(r) =>
    /\ outcome = "value" /\ Effect(r) # "reads" => made # {} \/ job[r].method \in SaysMiss
    /\ client = "raised" \/ outcome = "invalid" =>
          \/ made = {} \/ job[r].method \in Unreadable
          \/ \E q \in Requests : q \in givenUp \/ pc[q] \in {"504", "error", "lost"}

\* A value of the TypeScript client is what its interface says, but for the
\* fields of these, and for amounts and dates, which are texts.
Incomplete == {"checkout", "negotiatePrice", "execute", "getOrg", "addAgentToOrg"}
ValuesTyped == \A r \in Requests :
    ByMethod(r) /\ outcome = "value" /\ job[r].try = attempt =>
        /\ Missing(r) # {} => job[r].method \in Incomplete
        /\ Mistyped(r) \subseteq {"amount", "balance", "created_at", "verified_at"}

\* A call of an SDK is taken, carried out and understood.
CallsAnswered == DoneOnce /\ InputsTaken /\ OutcomeTrue /\ ValuesTyped
=============================================================================
