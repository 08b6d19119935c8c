---------------------------- MODULE FrontendProofs ----------------------------
(***************************************************************************)
(* Theorems about Frontend, for any tenants files, requests and headers.   *)
(*                                                                         *)
(* The first part follows from_configs(): while it loads, `by_key` is the  *)
(* inverse of the entries read so far, none of which is at fault.  The     *)
(* second part is the bookkeeping of the handler: each step of a request   *)
(* takes it from one state to another, and the gauge and the counters move *)
(* with it.                                                                *)
(***************************************************************************)
EXTENDS Frontend, FiniteSetTheorems, TLAPS

File == setting.tenants

\* The entries from_configs() has been through.
Read == 1 .. entry - 1

LoadInv ==
    /\ setting \in Settings
    /\ state \in {"start", "loading", "serving", "failed"}
    /\ setting.is = "tenants" =>
          /\ File \in Seq(Entries) /\ entry \in 1 .. Len(File) + 1
          /\ DOMAIN byKey = {File[n].key : n \in Read}
          /\ \A n \in Read : byKey[File[n].key] = n /\ ~BadRate(File[n].rps)
          /\ \A m, n \in Read : m # n => File[m].key # File[n].key
          /\ state = "serving" => entry = Len(File) + 1
          /\ state = "failed" =>
                /\ entry \in DOMAIN File /\ failure[2] = File[entry].id
                /\ BadRate(File[entry].rps) \/ \E n \in Read : File[n].key = File[entry].key
    /\ setting.is # "tenants" => Anonymous \/ state \in {"start", "failed"}
    /\ state = "loading" => setting.is = "tenants"

RequestStates == Errors \cup {"new", "bad body", "serving", "ok", "dropped", "Unauthorized"}

\* The answers of the handler by their status, named.
Refusals == {"QueueFull", "RateLimited", "ConcurrencyLimited", "TokenBudget"}
Faults == {"BackendUnreachable", "BackendStatus", "SchedulerGone"}

CountInv ==
    /\ handler \in [Requests -> RequestStates]
    /\ counted \in [Outcomes -> Nat]
    /\ inflight \in Nat
    /\ counted["rejected"] = Having(Refusals) /\ counted["error"] = Having(Faults)
    /\ counted["ok"] = Having({"ok"}) /\ counted["unauthorized"] = Having({"Unauthorized"})
    /\ inflight = Having({"serving"}) + Having({"dropped"})

OwnerInv ==
    /\ tenant \in [Requests -> SUBSET ({anonymous} \cup Nat)]
    /\ DOMAIN header = Requests
    /\ ChargedToOwner

------------------------------------------------------------------------------
(* Loading the tenants.                                                     *)

LEMMA SettingTypes ==
    ASSUME setting \in Settings
    PROVE  /\ setting.is \in {"unset", "not unicode", "no file", "no JSON", "tenants"}
           /\ setting.is = "tenants" => File \in Seq(Entries)
BY SettingsAssumption DEF File

LEMMA InitLoad == Init => LoadInv
<1> SUFFICES ASSUME Init PROVE LoadInv
  OBVIOUS
<1>1. setting \in Settings /\ state = "start" /\ entry = 1 /\ byKey = << >>
  BY DEF Init
<1>2. Read = {} /\ DOMAIN byKey = {}
  BY <1>1 DEF Read
<1>3. setting.is = "tenants" => File \in Seq(Entries) /\ entry \in 1 .. Len(File) + 1
  BY <1>1, SettingTypes
<1> QED
  BY <1>1, <1>2, <1>3 DEF LoadInv

LEMMA NextLoad ==
    ASSUME LoadInv, [Next]_vars
    PROVE  LoadInv'
<1>1. CASE UNCHANGED loadVars
  <2>1. UNCHANGED <<setting, state, entry, byKey, failure>>
    BY <1>1 DEF loadVars
  <2>2. File' = File /\ Read' = Read /\ Anonymous' = Anonymous
    BY <2>1 DEF File, Read, Anonymous
  <2> QED
    BY <2>1, <2>2 DEF LoadInv
<1>2. CASE StartAnonymous
  BY <1>2 DEF StartAnonymous, Anonymous, LoadInv, File, Read
<1>3. CASE StartFails
  BY <1>3 DEF StartFails, Anonymous, LoadInv, File, Read
<1>4. CASE StartLoading
  <2>1. UNCHANGED <<setting, entry, byKey>> /\ setting.is = "tenants" /\ state' = "loading"
    BY <1>4 DEF StartLoading
  <2>2. File' = File /\ Read' = Read
    BY <2>1 DEF File, Read
  <2> QED
    BY <2>1, <2>2 DEF LoadInv
<1>5. CASE Reject
  <2>1. setting.is = "tenants" /\ entry \in DOMAIN File
    BY <1>5 DEF Reject, Loading, LoadInv, File
  <2>2. /\ state' = "failed" /\ failure'[2] = File[entry].id
        /\ BadRate(File[entry].rps) \/ File[entry].key \in DOMAIN byKey
        /\ UNCHANGED <<setting, entry, byKey>>
    BY <1>5 DEF Reject, File
  <2>3. BadRate(File[entry].rps) \/ \E n \in Read : File[n].key = File[entry].key
    BY <2>1, <2>2 DEF LoadInv
  <2> QED
    BY <2>1, <2>2, <2>3 DEF LoadInv, File, Read, Anonymous
<1>6. CASE Insert
  <2> DEFINE key == File[entry].key
  <2>1. /\ setting.is = "tenants" /\ state = "loading" /\ entry \in 1 .. Len(File)
        /\ File \in Seq(Entries)
    BY <1>6 DEF Insert, Loading, LoadInv, File
  <2>2. /\ ~BadRate(File[entry].rps) /\ key \notin DOMAIN byKey
        /\ byKey' = [k \in DOMAIN byKey \cup {key} |-> IF k = key THEN entry ELSE byKey[k]]
        /\ entry' = entry + 1
        /\ UNCHANGED <<setting, state, failure>>
    BY <1>6 DEF Insert, File
  <2>3. Read' = Read \cup {entry} /\ entry \notin Read /\ entry' \in 1 .. Len(File) + 1
    BY <2>1, <2>2 DEF Read
  <2>4. DOMAIN byKey = {File[n].key : n \in Read}
    BY <2>1 DEF LoadInv
  <2>5. DOMAIN byKey' = {File[n].key : n \in Read'}
    BY <2>2, <2>3, <2>4
  <2>6. \A n \in Read : File[n].key # key
    BY <2>2, <2>4
  <2>7. \A n \in Read' : byKey'[File[n].key] = n /\ ~BadRate(File[n].rps)
    <3>1. byKey'[key] = entry
      BY <2>2
    <3>2. ASSUME NEW n \in Read PROVE byKey'[File[n].key] = n /\ ~BadRate(File[n].rps)
      <4>1. File[n].key \in DOMAIN byKey /\ File[n].key # key
        BY <2>4, <2>6
      <4> QED
        BY <2>1, <2>2, <4>1 DEF LoadInv
    <3> QED
      BY <2>2, <2>3, <3>1, <3>2
  <2>8. \A m, n \in Read' : m # n => File[m].key # File[n].key
    BY <2>1, <2>3, <2>6 DEF LoadInv
  <2>9. File' = File /\ setting' = setting /\ state' = "loading"
    BY <2>1, <2>2 DEF File
  <2> QED
    BY <2>1, <2>3, <2>5, <2>7, <2>8, <2>9 DEF LoadInv, BadRate
<1>7. CASE Loaded
  <2>1. setting.is = "tenants" /\ entry = Len(File) + 1
    BY <1>7 DEF Loaded, Loading, LoadInv, File
  <2> QED
    BY <1>7, <2>1 DEF Loaded, LoadInv, File, Read, Anonymous
<1>8. CASE Next /\ ~Start
  <2>1. UNCHANGED loadVars
    BY <1>8 DEF Next, Unauthorized, BadBody, Serve, Return, HangUp
  <2> QED
    BY <1>1, <2>1
<1> QED
  BY <1>1, <1>2, <1>3, <1>4, <1>5, <1>6, <1>7, <1>8 DEF Start, vars

LEMMA LoadInvHolds == Spec => []LoadInv
BY InitLoad, NextLoad, PTL DEF Spec

\* The gateway serves a tenants file only if its entries have a rate and keys
\* that tell them apart, and exits with the first one at fault otherwise.
THEOREM OnlySoundFilesAreServed == Spec => []ServesOnlySoundFiles
<1>1. LoadInv => ServesOnlySoundFiles
  <2> SUFFICES ASSUME LoadInv, setting.is = "tenants"
               PROVE  /\ state = "serving" =>
                            FirstOffender = {} /\ Cardinality(DOMAIN byKey) = Len(File)
                      /\ state = "failed" =>
                            \E n \in FirstOffender : failure[2] = File[n].id
    BY DEF ServesOnlySoundFiles, File
  <2>1. File \in Seq(Entries) /\ DOMAIN File = 1 .. Len(File) /\ Len(File) \in Nat
    BY DEF LoadInv
  <2>2. \A n \in DOMAIN File :
            Offends(n) <=> BadRate(File[n].rps) \/ \E m \in 1 .. n - 1 : File[m].key = File[n].key
    BY DEF Offends, BadRate, File
  <2>3. \A n \in Read : n \in DOMAIN File /\ 1 .. n - 1 \subseteq Read
    BY <2>1 DEF LoadInv, Read
  <2>4. \A n \in Read : ~Offends(n)
    BY <2>2, <2>3 DEF LoadInv, Read
  <2>5. CASE state = "serving"
    <3>1. Read = 1 .. Len(File)
      BY <2>1, <2>5 DEF LoadInv, Read
    <3>2. FirstOffender = {}
      BY <2>1, <2>4, <3>1 DEF FirstOffender, File
    <3>3. [n \in Read |-> File[n].key] \in Bijection(Read, DOMAIN byKey)
      BY DEF LoadInv, Bijection, Injection, IsInjective, Surjection
    <3>4. IsFiniteSet(Read) /\ Cardinality(Read) = Len(File)
      BY <2>1, <3>1, FS_Interval
    <3> QED
      BY <2>5, <3>2, <3>3, <3>4, FS_Bijection DEF ExistsBijection
  <2>6. CASE state = "failed"
    <3>1. entry \in DOMAIN File /\ Offends(entry) /\ failure[2] = File[entry].id
      BY <2>2, <2>6 DEF LoadInv, Read
    <3>2. \A m \in 1 .. entry - 1 : ~Offends(m)
      BY <2>4 DEF Read
    <3> QED
      BY <2>6, <3>1, <3>2 DEF FirstOffender, File
  <2> QED
    BY <2>5, <2>6
<1> QED
  BY <1>1, LoadInvHolds, PTL

------------------------------------------------------------------------------
(* Whom a request is charged to.                                            *)

\* Once the gateway serves, a key leads to the one entry that has it.
LEMMA KeyHasOneOwner ==
    ASSUME LoadInv, state = "serving", setting.is = "tenants", NEW k \in DOMAIN byKey
    PROVE  /\ byKey[k] \in DOMAIN File /\ byKey[k] \in Nat
           /\ File[byKey[k]].key = k
           /\ \A m \in DOMAIN File : m # byKey[k] => File[m].key # k
<1>1. Read = DOMAIN File /\ Read \subseteq Nat
  BY DEF LoadInv, Read
<1>2. PICK n \in Read : k = File[n].key
  BY DEF LoadInv
<1>3. byKey[k] = n
  BY <1>2 DEF LoadInv
<1> QED
  BY <1>1, <1>2, <1>3 DEF LoadInv

LEMMA ArrivalIsCharged ==
    ASSUME LoadInv, OwnerInv, NEW r \in Requests, NEW h \in Headers, Arrive(r, h),
           UNCHANGED loadVars
    PROVE  OwnerInv'
<1>1. /\ state = "serving" /\ setting' = setting
      /\ header' = [header EXCEPT ![r] = {h}]
      /\ tenant' = [tenant EXCEPT ![r] = Resolve(Bearer(h))]
  BY DEF Arrive, loadVars
<1>2. tenant'[r] = Resolve(Bearer(h)) /\ header'[r] = {h}
  BY <1>1 DEF OwnerInv
<1>3. /\ DOMAIN header' = Requests
      /\ \A s \in Requests \ {r} : tenant[s] # {} => Charged(s)'
      /\ \A s \in Requests \ {r} : tenant'[s] = tenant[s]
  <2>1. \A n, g : IsOwner(n, g)' = IsOwner(n, g)
    BY <1>1 DEF IsOwner
  <2>2. \A s \in Requests \ {r} : tenant'[s] = tenant[s] /\ header'[s] = header[s]
    BY <1>1 DEF OwnerInv
  <2>3. \A s \in Requests \ {r} : Charged(s) => Charged(s)'
    BY <1>1, <2>1, <2>2 DEF Charged
  <2> QED
    BY <1>1, <2>2, <2>3 DEF OwnerInv, ChargedToOwner
<1>4. CASE Anonymous
  <2>1. tenant'[r] = {anonymous} /\ setting.is # "tenants"
    BY <1>2, <1>4 DEF Resolve, Anonymous
  <2>2. Charged(r)'
    BY <1>1, <2>1 DEF Charged
  <2>3. tenant' \in [Requests -> SUBSET ({anonymous} \cup Nat)]
    BY <1>1, <1>2, <2>1 DEF OwnerInv
  <2> QED
    BY <1>1, <1>3, <2>2, <2>3 DEF OwnerInv, ChargedToOwner
<1>5. CASE ~Anonymous
  <2>1. setting.is = "tenants"
    BY <1>1, <1>5 DEF LoadInv
  <2>2. tenant'[r] = {byKey[k] : k \in Bearer(h) \cap DOMAIN byKey}
    BY <1>2, <1>5 DEF Resolve
  <2>3. CASE Bearer(h) \cap DOMAIN byKey = {}
    <3>1. tenant'[r] = {}
      BY <2>2, <2>3
    <3>2. tenant' \in [Requests -> SUBSET ({anonymous} \cup Nat)]
      BY <1>1, <1>2, <3>1 DEF OwnerInv
    <3> QED
      BY <1>3, <3>1, <3>2 DEF OwnerInv, ChargedToOwner
  <2>4. ASSUME NEW k \in Bearer(h) \cap DOMAIN byKey PROVE OwnerInv'
    <3>1. h.scheme = "Bearer" /\ Bearer(h) = {k} /\ k = [h.key EXCEPT !.padded = FALSE]
      BY <2>4 DEF Bearer
    <3>2. k = [text |-> h.key.text, padded |-> FALSE]
      BY <3>1, RequestsAssumption DEF KeyText
    <3>3. PICK n : n = byKey[k]
      OBVIOUS
    <3>4. /\ n \in DOMAIN File /\ n \in Nat /\ File[n].key = k
          /\ \A m \in DOMAIN File : m # n => File[m].key # File[n].key
      BY <1>1, <2>1, <2>4, <3>3, KeyHasOneOwner
    <3>5. tenant'[r] = {n}
      BY <2>2, <2>4, <3>1, <3>3
    <3>6. Charged(r)'
      <4>1. IsOwner(n, h)'
        BY <1>1, <3>1, <3>2, <3>4 DEF File, IsOwner
      <4> QED
        BY <1>1, <1>2, <3>4, <3>5, <4>1 DEF File, Charged
    <3>7. tenant' \in [Requests -> SUBSET ({anonymous} \cup Nat)]
      BY <1>1, <1>2, <3>4, <3>5 DEF OwnerInv
    <3> QED
      BY <1>3, <3>6, <3>7 DEF OwnerInv, ChargedToOwner
  <2> QED
    BY <2>3, <2>4
<1> QED
  BY <1>4, <1>5

LEMMA NextOwner ==
    ASSUME LoadInv, OwnerInv, [Next]_vars
    PROVE  OwnerInv'
<1>1. CASE UNCHANGED <<setting, tenant, header>>
  <2>1. \A n, g : IsOwner(n, g)' = IsOwner(n, g)
    BY <1>1 DEF IsOwner
  <2>2. \A r \in Requests : Charged(r)' = Charged(r)
    BY <1>1, <2>1 DEF Charged
  <2> QED
    BY <1>1, <2>2 DEF OwnerInv, ChargedToOwner
<1>2. ASSUME NEW r \in Requests, NEW h \in Headers, Unauthorized(r, h) \/ BadBody(r, h) \/ Serve(r, h)
      PROVE  OwnerInv'
  BY <1>2, ArrivalIsCharged DEF Unauthorized, BadBody, Serve
<1>3. CASE Start \/ UNCHANGED vars
  BY <1>1, <1>3
  DEF Start, StartAnonymous, StartFails, StartLoading, Reject, Insert, Loaded, requestVars,
      loadVars, vars
<1>4. ASSUME NEW r \in Requests, HangUp(r) \/ \E result \in Errors \cup {"ok"} : Return(r, result)
      PROVE  OwnerInv'
  BY <1>1, <1>4 DEF HangUp, Return, loadVars
<1> QED
  BY <1>2, <1>3, <1>4 DEF Next

LEMMA OwnerInvHolds == Spec => []OwnerInv
<1>1. Init => OwnerInv
  BY DEF Init, OwnerInv, ChargedToOwner
<1> QED
  BY <1>1, NextOwner, LoadInvHolds, PTL DEF Spec

\* A request is charged to the tenant whose key it brought and to no other.
THEOREM RequestsAreChargedToOwners == Spec => []ChargedToOwner
<1>1. OwnerInv => ChargedToOwner
  BY DEF OwnerInv
<1> QED
  BY <1>1, OwnerInvHolds, PTL

------------------------------------------------------------------------------
(* The gauge and the counters.                                              *)

LEMMA HavingTypes ==
    ASSUME NEW results
    PROVE  IsFiniteSet({r \in Requests : handler[r] \in results}) /\ Having(results) \in Nat
<1>1. {r \in Requests : handler[r] \in results} \subseteq Requests
  OBVIOUS
<1> QED
  BY <1>1, RequestsAssumption, FS_Subset, FS_CardinalityType DEF Having

\* Where a count stands after a request has gone from one state to another.
Moved(from, to, results) ==
    /\ Having(results)' \in Nat
    /\ Having(results)' = Having(results) + (IF to \in results THEN 1 ELSE 0)
                                          - (IF from \in results THEN 1 ELSE 0)

\* A request that goes to another state is one more there and one less here.
LEMMA HavingMoves ==
    ASSUME handler \in [Requests -> RequestStates], NEW r \in Requests, NEW s \in RequestStates,
           handler' = [handler EXCEPT ![r] = s], NEW CONSTANT results
    PROVE  Moved(handler[r], s, results)
<1> DEFINE old == {x \in Requests : handler[x] \in results}
           new == {x \in Requests : handler'[x] \in results}
           rest == old \ {r}
<1>1. /\ IsFiniteSet(rest) /\ Cardinality(rest) \in Nat
      /\ Having(results)' = Cardinality(new) /\ Having(results) = Cardinality(old)
  BY HavingTypes, FS_Subset, FS_CardinalityType DEF Having
<1>2. /\ s \in results => new = rest \cup {r}
      /\ s \notin results => new = rest
      /\ handler[r] \in results => old = rest \cup {r}
      /\ handler[r] \notin results => old = rest
      /\ r \notin rest
  OBVIOUS
<1>3. Cardinality(rest \cup {r}) = Cardinality(rest) + 1
  BY <1>1, <1>2, FS_AddElement
<1>4. Having(results) = Cardinality(rest) + (IF handler[r] \in results THEN 1 ELSE 0)
  <2>1. CASE handler[r] \in results
    BY <1>1, <1>2, <1>3, <2>1
  <2>2. CASE handler[r] \notin results
    <3>1. old = rest
      BY <1>2, <2>2
    <3> HIDE DEF old, rest
    <3> QED
      BY <1>1, <2>2, <3>1
  <2> QED
    BY <2>1, <2>2
<1>5. Having(results)' = Cardinality(rest) + (IF s \in results THEN 1 ELSE 0)
  <2>1. CASE s \in results
    BY <1>1, <1>2, <1>3, <2>1
  <2>2. CASE s \notin results
    BY <1>1, <1>2, <2>2
  <2> QED
    BY <2>1, <2>2
<1> HIDE DEF old, new, rest
<1> QED
  BY <1>1, <1>4, <1>5 DEF Moved

\* The answers by their status.
LEMMA StatusSets ==
    {x \in Errors : Status(x) = 429} = Refusals /\ {x \in Errors : Status(x) >= 500} = Faults
<1>1. \A x \in Refusals : Status(x) = 429
  BY DEF Status, AdmitErrors, Refusals
<1>2. \A x \in {"BackendUnreachable", "BackendStatus"} : Status(x) = 502
  BY DEF Status, AdmitErrors
<1>3. Status("SchedulerGone") = 500
  BY DEF Status, AdmitErrors
<1> QED
  BY <1>1, <1>2, <1>3 DEF Errors, Refusals, Faults

LEMMA InitCount == Init => CountInv
<1> SUFFICES ASSUME Init PROVE CountInv
  OBVIOUS
<1>1. handler = [r \in Requests |-> "new"] /\ inflight = 0 /\ counted = [o \in Outcomes |-> 0]
  BY DEF Init
<1>2. ASSUME NEW results, "new" \notin results PROVE Having(results) = 0
  <2>1. {r \in Requests : handler[r] \in results} = {}
    BY <1>1, <1>2
  <2> QED
    BY <2>1, FS_EmptySet DEF Having
<1>3. /\ Having(Refusals) = 0 /\ Having(Faults) = 0 /\ Having({"ok"}) = 0
      /\ Having({"Unauthorized"}) = 0 /\ Having({"serving"}) = 0 /\ Having({"dropped"}) = 0
  BY <1>2 DEF Refusals, Faults
<1> QED
  BY <1>1, <1>3 DEF CountInv, Outcomes, RequestStates

LEMMA NextCount ==
    ASSUME CountInv, [Next]_vars
    PROVE  CountInv'
<1>2. /\ Having(Refusals) \in Nat /\ Having(Faults) \in Nat /\ Having({"ok"}) \in Nat
      /\ Having({"Unauthorized"}) \in Nat /\ Having({"serving"}) \in Nat /\ Having({"dropped"}) \in Nat
  BY HavingTypes
<1>4. CASE UNCHANGED <<handler, inflight, counted>>
  <2>1. \A results : Having(results)' = Having(results)
    BY <1>4 DEF Having
  <2> QED
    BY <1>4, <2>1 DEF CountInv
<1>5. CASE Start \/ UNCHANGED vars
  BY <1>4, <1>5
  DEF Start, StartAnonymous, StartFails, StartLoading, Reject, Insert, Loaded, requestVars, vars
<1>6. ASSUME NEW r \in Requests, NEW s \in RequestStates, handler' = [handler EXCEPT ![r] = s]
      PROVE  /\ Moved(handler[r], s, Refusals) /\ Moved(handler[r], s, Faults)
             /\ Moved(handler[r], s, {"ok"}) /\ Moved(handler[r], s, {"Unauthorized"})
             /\ Moved(handler[r], s, {"serving"}) /\ Moved(handler[r], s, {"dropped"})
             /\ handler' \in [Requests -> RequestStates]
  BY <1>6, HavingMoves DEF CountInv
<1>7. ASSUME NEW r \in Requests, NEW h \in Headers, Unauthorized(r, h)
      PROVE  CountInv'
  <2>1. /\ handler[r] = "new" /\ handler' = [handler EXCEPT ![r] = "Unauthorized"]
        /\ counted' = [counted EXCEPT !["unauthorized"] = @ + 1] /\ inflight' = inflight
    BY <1>7 DEF Unauthorized, Arrive
  <2>2. /\ Moved("new", "Unauthorized", Refusals) /\ Moved("new", "Unauthorized", Faults)
        /\ Moved("new", "Unauthorized", {"ok"}) /\ Moved("new", "Unauthorized", {"Unauthorized"})
        /\ Moved("new", "Unauthorized", {"serving"}) /\ Moved("new", "Unauthorized", {"dropped"})
        /\ handler' \in [Requests -> RequestStates]
    BY <1>6, <2>1 DEF RequestStates
  <2> QED
    BY <1>2, <2>1, <2>2 DEF CountInv, Moved, Refusals, Faults, Outcomes
<1>8. ASSUME NEW r \in Requests, NEW h \in Headers, BadBody(r, h)
      PROVE  CountInv'
  <2>1. /\ handler[r] = "new" /\ handler' = [handler EXCEPT ![r] = "bad body"]
        /\ counted' = counted /\ inflight' = inflight
    BY <1>8 DEF BadBody, Arrive
  <2>2. /\ Moved("new", "bad body", Refusals) /\ Moved("new", "bad body", Faults)
        /\ Moved("new", "bad body", {"ok"}) /\ Moved("new", "bad body", {"Unauthorized"})
        /\ Moved("new", "bad body", {"serving"}) /\ Moved("new", "bad body", {"dropped"})
        /\ handler' \in [Requests -> RequestStates]
    BY <1>6, <2>1 DEF RequestStates
  <2>3. /\ Having(Refusals)' = Having(Refusals) /\ Having(Faults)' = Having(Faults)
        /\ Having({"ok"})' = Having({"ok"}) /\ Having({"Unauthorized"})' = Having({"Unauthorized"})
        /\ Having({"serving"})' = Having({"serving"}) /\ Having({"dropped"})' = Having({"dropped"})
    BY <1>2, <2>2 DEF Moved, Refusals, Faults
  <2> QED
    BY <2>1, <2>2, <2>3 DEF CountInv
<1>9. ASSUME NEW r \in Requests, NEW h \in Headers, Serve(r, h)
      PROVE  CountInv'
  <2>1. /\ handler[r] = "new" /\ handler' = [handler EXCEPT ![r] = "serving"]
        /\ counted' = counted /\ inflight' = inflight + 1
    BY <1>9 DEF Serve, Arrive
  <2>2. /\ Moved("new", "serving", Refusals) /\ Moved("new", "serving", Faults)
        /\ Moved("new", "serving", {"ok"}) /\ Moved("new", "serving", {"Unauthorized"})
        /\ Moved("new", "serving", {"serving"}) /\ Moved("new", "serving", {"dropped"})
        /\ handler' \in [Requests -> RequestStates]
    BY <1>6, <2>1 DEF RequestStates
  <2> QED
    BY <1>2, <2>1, <2>2 DEF CountInv, Moved, Refusals, Faults, Outcomes
<1>10. ASSUME NEW r \in Requests, HangUp(r)
       PROVE  CountInv'
  <2>1. /\ handler[r] = "serving" /\ handler' = [handler EXCEPT ![r] = "dropped"]
        /\ counted' = counted /\ inflight' = inflight
    BY <1>10 DEF HangUp
  <2>2. /\ Moved("serving", "dropped", Refusals) /\ Moved("serving", "dropped", Faults)
        /\ Moved("serving", "dropped", {"ok"}) /\ Moved("serving", "dropped", {"Unauthorized"})
        /\ Moved("serving", "dropped", {"serving"}) /\ Moved("serving", "dropped", {"dropped"})
        /\ handler' \in [Requests -> RequestStates]
    BY <1>6, <2>1 DEF RequestStates
  <2> QED
    BY <1>2, <2>1, <2>2 DEF CountInv, Moved, Refusals, Faults, Outcomes
<1>11. ASSUME NEW r \in Requests, NEW result \in Errors \cup {"ok"}, Return(r, result)
       PROVE  CountInv'
  <2>1. /\ handler[r] = "serving" /\ handler' = [handler EXCEPT ![r] = result]
        /\ counted' = [counted EXCEPT ![Outcome(result)] = @ + 1] /\ inflight' = inflight - 1
        /\ result \in RequestStates
    BY <1>11 DEF Return, RequestStates
  <2>2. /\ Moved("serving", result, Refusals) /\ Moved("serving", result, Faults)
        /\ Moved("serving", result, {"ok"}) /\ Moved("serving", result, {"Unauthorized"})
        /\ Moved("serving", result, {"serving"}) /\ Moved("serving", result, {"dropped"})
        /\ handler' \in [Requests -> RequestStates]
    BY <1>6, <2>1
  <2>3. inflight' \in Nat /\ inflight' = Having({"serving"})' + Having({"dropped"})'
    <3>1. result # "serving" /\ result # "dropped"
      BY DEF Errors
    <3> QED
      BY <1>2, <2>1, <2>2, <3>1 DEF CountInv, Moved
  <2>4. CASE result = "ok"
    BY <1>2, <2>1, <2>2, <2>3, <2>4 DEF CountInv, Moved, Outcome, Outcomes, Refusals, Faults
  <2>5. CASE result \in Refusals
    <3>1. Outcome(result) = "rejected"
      BY <2>5 DEF Outcome, Refusals, AdmitErrors
    <3> QED
      BY <1>2, <2>1, <2>2, <2>3, <2>5, <3>1 DEF CountInv, Moved, Outcomes, Refusals, Faults
  <2>6. CASE result \in Faults
    <3>1. Outcome(result) = "error"
      BY <2>6 DEF Outcome, Faults, AdmitErrors
    <3> QED
      BY <1>2, <2>1, <2>2, <2>3, <2>6, <3>1 DEF CountInv, Moved, Outcomes, Refusals, Faults
  <2> QED
    BY <2>4, <2>5, <2>6 DEF Errors, Refusals, Faults
<1> QED
  BY <1>5, <1>7, <1>8, <1>9, <1>10, <1>11 DEF Next

LEMMA CountInvHolds == Spec => []CountInv
BY InitCount, NextCount, PTL DEF Spec

\* The outcome counters are those of the answers that went out, "rejected" the
\* 429s, and a request whose client hung up is in none of them.
THEOREM CountersAreOfAnswers == Spec => []CountersMatchAnswers
<1>1. CountInv => CountersMatchAnswers
  BY StatusSets DEF CountInv, CountersMatchAnswers
<1> QED
  BY <1>1, CountInvHolds, PTL

\* INFLIGHT is never too low, because what it counts, exactly, is the requests
\* being served and those dropped between its two lines.
THEOREM InflightIsNeverLow == Spec => []InflightCoversServed
<1>1. CountInv => InflightCoversServed
  <2>1. Having({"serving"}) \in Nat /\ Having({"dropped"}) \in Nat
    BY HavingTypes
  <2> QED
    BY <2>1 DEF CountInv, InflightCoversServed
<1> QED
  BY <1>1, CountInvHolds, PTL
==============================================================================
