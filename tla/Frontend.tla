------------------------------ MODULE Frontend ------------------------------
(***************************************************************************)
(* From the process' start to the edge of a request: main() loads the      *)
(* tenants (src/src/main.rs, tenants.rs), authenticate() finds a request's *)
(* tenant by its key, and chat_completions_handler() (lib.rs) counts the   *)
(* request in and out and by its outcome (error.rs).                       *)
(*                                                                         *)
(* serve(), between the two, is modules Gateway and Scheduler: here it     *)
(* returns any result it has, or is dropped when the client hangs up.      *)
(***************************************************************************)
EXTENDS Integers, FiniteSets, Sequences

CONSTANTS Settings,  \* what OXIDEGATE_TENANTS may be: see SettingsAssumption
          Requests,  \* names of requests; each is sent once
          Headers,   \* Authorization headers: none, or a scheme and a key's text
          anonymous, \* the tenant of single-tenant mode
          NaN        \* the f64 that is no number

\* A key is a text with or without white space around it.
KeyText == [text : STRING, padded : BOOLEAN]

\* TenantConfig, with what from_configs() looks at.
Entries == [id : STRING, key : KeyText, rps : Int \cup {NaN}]

ASSUME SettingsAssumption ==
    /\ NaN \notin Int
    /\ \A s \in Settings :
          \/ s.is \in {"unset", "not unicode", "no file", "no JSON"}
          \/ s.is = "tenants" /\ s.tenants \in Seq(Entries)

ASSUME RequestsAssumption ==
    /\ IsFiniteSet(Requests)
    /\ \A h \in Headers : h.scheme = "none" \/ (h.scheme \in {"Bearer", "other"} /\ h.key \in KeyText)

VARIABLES setting,    \* the environment
          state,      \* where main() is
          entry,      \* the entry from_configs() looks at next
          byKey,      \* by_key: from an api_key to the entry it was made from
          failure,    \* the error main() exits with
          handler,    \* each request: on its way, or what became of it
          tenant,     \* the tenant a request was given, {} before
          header,     \* the header it came with
          inflight,   \* the gauge INFLIGHT
          counted     \* the counter REQUESTS_TOTAL, by outcome

loadVars    == <<setting, state, entry, byKey, failure>>
requestVars == <<handler, tenant, header, inflight, counted>>
vars        == <<loadVars, requestVars>>

\* GatewayError as the handler sees it.
Errors == {"BackendUnreachable", "BackendStatus", "QueueFull", "SchedulerGone",
           "RateLimited", "ConcurrencyLimited", "TokenBudget"}
AdmitErrors == {"RateLimited", "ConcurrencyLimited", "TokenBudget"}
Outcomes == {"ok", "rejected", "error", "unauthorized"}

Init ==
    /\ setting \in Settings
    /\ state = "start" /\ entry = 1 /\ byKey = << >> /\ failure = << >>
    /\ handler = [r \in Requests |-> "new"]
    /\ tenant = [r \in Requests |-> {}]
    /\ header = [r \in Requests |-> {}]
    /\ inflight = 0
    /\ counted = [o \in Outcomes |-> 0]

------------------------------------------------------------------------------
(* main() and Tenants::from_configs.                                        *)

\* std::env::var() fails on a value that is not UTF-8, as on none.
Anonymous == setting.is \in {"unset", "not unicode"}

StartAnonymous ==
    /\ state = "start" /\ Anonymous
    /\ state' = "serving"
    /\ UNCHANGED <<setting, entry, byKey, failure, requestVars>>

StartFails ==
    /\ state = "start" /\ setting.is \in {"no file", "no JSON"}
    /\ state' = "failed"
    /\ failure' = <<IF setting.is = "no file" THEN "Io" ELSE "Parse">>
    /\ UNCHANGED <<setting, entry, byKey, requestVars>>

StartLoading ==
    /\ state = "start" /\ setting.is = "tenants"
    /\ state' = "loading"
    /\ UNCHANGED <<setting, entry, byKey, failure, requestVars>>

Loading == state = "loading" /\ entry \in DOMAIN setting.tenants

\* Mutation of BadRate: NaN is let through, as `rps <= 0.0` alone would.
BadRateNaN(rps) == rps \in Int /\ rps =< 0

BadRate(rps) == rps \in Int => rps =< 0

\* A pass of the loop that returns an error: BadRate, or DuplicateKey.
Reject ==
    LET e == setting.tenants[entry]
    IN  /\ Loading
        /\ BadRate(e.rps) \/ e.key \in DOMAIN byKey
        /\ failure' = <<IF BadRate(e.rps) THEN "BadRate" ELSE "DuplicateKey", e.id>>
        /\ state' = "failed"
        /\ UNCHANGED <<setting, entry, byKey, requestVars>>

Insert ==
    LET e == setting.tenants[entry]
    IN  /\ Loading
        /\ ~BadRate(e.rps) /\ e.key \notin DOMAIN byKey
        /\ byKey' = [k \in DOMAIN byKey \cup {e.key} |-> IF k = e.key THEN entry ELSE byKey[k]]
        /\ entry' = entry + 1
        /\ UNCHANGED <<setting, state, failure, requestVars>>

Loaded ==
    /\ state = "loading" /\ ~Loading
    /\ state' = "serving"
    /\ UNCHANGED <<setting, entry, byKey, failure, requestVars>>

------------------------------------------------------------------------------
(* authenticate().                                                          *)

\* bearer(): the key with white space trimmed, if there is one.
Bearer(h) == IF h.scheme = "Bearer" THEN {[h.key EXCEPT !.padded = FALSE]} ELSE {}

\* Mutation of Resolve: without a key of its own a request is anonymous's.
ResolveOpen(key) ==
    IF key \subseteq DOMAIN byKey /\ key # {} THEN {byKey[k] : k \in key} ELSE {anonymous}

Resolve(key) ==
    IF Anonymous THEN {anonymous} ELSE {byKey[k] : k \in key \cap DOMAIN byKey}

Arrive(r, h) ==
    /\ state = "serving" /\ handler[r] = "new"
    /\ header' = [header EXCEPT ![r] = {h}]
    /\ tenant' = [tenant EXCEPT ![r] = Resolve(Bearer(h))]

Unauthorized(r, h) ==
    /\ Arrive(r, h) /\ tenant'[r] = {}
    /\ handler' = [handler EXCEPT ![r] = "Unauthorized"]
    /\ counted' = [counted EXCEPT !["unauthorized"] = @ + 1]
    /\ UNCHANGED <<loadVars, inflight>>

\* The body is no request: axum answers, and the handler is never called.
BadBody(r, h) ==
    /\ Arrive(r, h) /\ tenant'[r] # {}
    /\ handler' = [handler EXCEPT ![r] = "bad body"]
    /\ UNCHANGED <<loadVars, inflight, counted>>

Serve(r, h) ==
    /\ Arrive(r, h) /\ tenant'[r] # {}
    /\ handler' = [handler EXCEPT ![r] = "serving"]
    /\ inflight' = inflight + 1
    /\ UNCHANGED <<loadVars, counted>>

------------------------------------------------------------------------------
(* chat_completions_handler(), once serve() has returned or is dropped.     *)

\* GatewayError::parts(): the status of an answer.
Status(result) ==
    CASE result \in {"BackendUnreachable", "BackendStatus"} -> 502
      [] result \in {"QueueFull"} \cup AdmitErrors -> 429
      [] result = "SchedulerGone" -> 500
      [] result = "Unauthorized" -> 401
      [] OTHER -> 200

\* Mutation of Outcome: a tenant's limits are taken for errors.
OutcomeQueueFull(result) ==
    IF result = "ok" THEN "ok" ELSE IF result = "QueueFull" THEN "rejected" ELSE "error"

Outcome(result) ==
    IF result = "ok" THEN "ok"
    ELSE IF result = "QueueFull" \/ result \in AdmitErrors THEN "rejected" ELSE "error"

\* Mutation of Return: an error lowers the gauge where it is made, and again.
ReturnTwice(r, result) ==
    /\ handler[r] = "serving"
    /\ handler' = [handler EXCEPT ![r] = result]
    /\ inflight' = inflight - (IF result = "ok" THEN 1 ELSE 2)
    /\ counted' = [counted EXCEPT ![Outcome(result)] = @ + 1]
    /\ UNCHANGED <<loadVars, tenant, header>>

Return(r, result) ==
    /\ handler[r] = "serving"
    /\ handler' = [handler EXCEPT ![r] = result]
    /\ inflight' = inflight - 1
    /\ counted' = [counted EXCEPT ![Outcome(result)] = @ + 1]
    /\ UNCHANGED <<loadVars, tenant, header>>

\* The handler is dropped at its await: neither line after it runs.
HangUp(r) ==
    /\ handler[r] = "serving"
    /\ handler' = [handler EXCEPT ![r] = "dropped"]
    /\ UNCHANGED <<loadVars, tenant, header, inflight, counted>>

------------------------------------------------------------------------------

Start == StartAnonymous \/ StartFails \/ StartLoading \/ Reject \/ Insert \/ Loaded

Next ==
    \/ Start
    \/ \E r \in Requests :
          \/ \E h \in Headers : Unauthorized(r, h) \/ BadBody(r, h) \/ Serve(r, h)
          \/ \E result \in Errors \cup {"ok"} : Return(r, result)
          \/ HangUp(r)

Spec == Init /\ [][Next]_vars

------------------------------------------------------------------------------
(* Properties.                                                              *)

\* The first entry of a tenants file with something wrong, if there is one.
Offends(n) ==
    LET entries == setting.tenants
    IN  \/ entries[n].rps \notin Int \/ entries[n].rps =< 0
        \/ \E m \in 1 .. n - 1 : entries[m].key = entries[n].key

FirstOffender == {n \in DOMAIN setting.tenants : Offends(n) /\ \A m \in 1 .. n - 1 : ~Offends(m)}

\* The gateway serves a tenants file only if each entry can be told from the
\* others by its key and has a rate, and otherwise exits with the name of the
\* first entry at fault ("duplicate_keys_are_a_config_error", tenants.rs:449).
ServesOnlySoundFiles ==
    setting.is = "tenants" =>
        /\ state = "serving" => FirstOffender = {} /\ Cardinality(DOMAIN byKey) = Len(setting.tenants)
        /\ state = "failed" => \E n \in FirstOffender : failure[2] = setting.tenants[n].id

\* The one entry whose key the header brings.
IsOwner(n, h) ==
    /\ h.scheme = "Bearer"
    /\ setting.tenants[n].key = [text |-> h.key.text, padded |-> FALSE]
    /\ \A m \in DOMAIN setting.tenants : m # n => setting.tenants[m].key # setting.tenants[n].key

Charged(r) ==
    \/ tenant[r] = {anonymous} /\ setting.is # "tenants"
    \/ \E h \in header[r], n \in DOMAIN setting.tenants : IsOwner(n, h) /\ tenant[r] = {n}

\* A request is charged to the tenant whose key it brought and to no other;
\* with a tenants file nobody is served without one ("keyed_mode_rejects_
\* unknown_and_missing_keys", tenants.rs:441), the anonymous tenant never.
ChargedToOwner == \A r \in Requests : tenant[r] # {} => Charged(r)

Having(results) == Cardinality({r \in Requests : handler[r] \in results})

\* The outcome counters agree with the answers that went out: "rejected" is
\* the 429s and nothing else (lib.rs:146-148), every answer of the handler is
\* counted once, and a request whose client hung up nowhere.
CountersMatchAnswers ==
    /\ counted["rejected"] = Having({x \in Errors : Status(x) = 429})
    /\ counted["error"] = Having({x \in Errors : Status(x) >= 500})
    /\ counted["ok"] = Having({"ok"}) /\ counted["unauthorized"] = Having({"Unauthorized"})

\* INFLIGHT never reads lower than the requests being served, whatever mix of
\* answers, refusals and hang-ups went before: no end of a request lowers it
\* that did not raise it, and none lowers it twice (lib.rs:140-144).
InflightCoversServed == inflight >= Having({"serving"})
==============================================================================
