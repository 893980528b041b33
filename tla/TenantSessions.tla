--------------------------- MODULE TenantSessions ---------------------------
(***************************************************************************)
(* Lab 39: row-level security behind a connection pool.  A script runs its *)
(* queries through withTenantSession, which sets app.current_tenant_id on  *)
(* the pooled connection of a role, and clears it again before the         *)
(* connection goes back; one script switches the policy off for a while.   *)
(* Two scripts run at a time, as two processes with their own pools; each  *)
(* awaits its calls one by one, so it uses one connection per role.        *)
(***************************************************************************)
EXTENDS Integers, Sequences, FiniteSets

VARIABLES
    rowSecurity,   \* ROW LEVEL SECURITY is enabled on support_tickets
    tickets,       \* per tenant: the number of its rows
    process,       \* per script: [stage, op, error]
    setting,       \* per script and role: current_tenant_id of its connection
    answers        \* per script: what its queries returned

tenantVars == <<rowSecurity, tickets, process, setting, answers>>

(***************************************************************************)
(* The scripts: a stage is a tenant session, or one call on a pool.        *)
(***************************************************************************)
Tenants == {"acme", "globex"}
\* What current_tenant_id is cleared to.
NoTenant == ""
Roles == {"admin", "migrator", "app", "readonly"}
Session(role, tenant, ops) == [role |-> role, tenant |-> tenant, session |-> TRUE, ops |-> ops]
PoolCall(role, op) == [role |-> role, tenant |-> NoTenant, session |-> FALSE, ops |-> <<op>>]

NaiveLeak ==
    << PoolCall("migrator", "disable"),
       Session("app", "acme", <<"control", "forgottenWhereClause">>),
       Session("app", "acme", <<"wrongTenantId">>),
       PoolCall("migrator", "enable") >>
RlsFix ==
    << PoolCall("migrator", "rlsState"),
       Session("app", "acme", <<"forgottenWhereClause">>),
       Session("app", "acme", <<"wrongTenantId">>),
       Session("app", NoTenant, <<"forgottenWhereClause">>) >>
OwnerBypass ==
    << Session("migrator", NoTenant, <<"forgottenWhereClause">>),
       Session("admin", NoTenant, <<"forgottenWhereClause">>),
       Session("app", NoTenant, <<"forgottenWhereClause">>) >>
LeastPrivilege ==
    << Session("readonly", "acme", <<"insert", "update", "delete">>),
       Session("app", "acme", <<"create_table", "drop_table", "alter_table", "insertOther">>),
       PoolCall("migrator", "create_role"), PoolCall("migrator", "alter_role") >>
TenantScripts == [naive_leak |-> NaiveLeak, rls_fix |-> RlsFix, owner_bypass |-> OwnerBypass,
              least_privilege |-> LeastPrivilege]

Stage(p) == TenantScripts[p][process[p].stage]
Running(p) == p \in DOMAIN process /\ process[p].stage <= Len(TenantScripts[p])
Ops(p) == Stage(p).ops
Op(p) == Ops(p)[process[p].op]
\* op 0 sets the tenant, the ops follow, and one more clears it.
AtOp(p) == Running(p) /\ process[p].op \in 1..Len(Ops(p))

(***************************************************************************)
(* Grants and the policy tenant_isolation.                                 *)
(***************************************************************************)
Reads == {"control", "forgottenWhereClause", "wrongTenantId"}
Writes == {"insert", "insertOther", "update", "delete"}
OwnerOps == {"disable", "enable", "rlsState", "create_table", "drop_table", "alter_table"}
Granted(role) ==
    CASE role = "readonly" -> Reads
      [] role = "app" -> Reads \cup Writes
      [] role = "migrator" -> Reads \cup Writes \cup OwnerOps
      [] role = "admin" -> Reads \cup Writes \cup OwnerOps \cup {"create_role", "alter_role"}
Bypasses(role) == role \in {"migrator", "admin"}
\* Mutant: an unset tenant matches every row.
MutIsolated(role, current, tenant) == current \in {tenant, NoTenant} \/ Bypasses(role)
\* USING and WITH CHECK: tenant_id = current_tenant_id(), which is NULL for ''.
Isolated(role, current, tenant) == current = tenant \/ Bypasses(role)
Allowed(role, current, tenant) == rowSecurity => Isolated(role, current, tenant)
Asks(op) ==
    CASE op = "control" -> {"acme"}
      [] op = "wrongTenantId" -> {"globex"}
      [] OTHER -> Tenants
Rows(p) == {t \in Asks(Op(p)) : tickets[t] > 0 /\ Allowed(Stage(p).role, setting[p][Stage(p).role], t)}
Denied(p) ==
    \/ Op(p) \notin Granted(Stage(p).role)
    \/ Op(p) = "insertOther" /\ ~Allowed(Stage(p).role, setting[p][Stage(p).role], "globex")

TenantInit ==
    /\ rowSecurity = TRUE /\ tickets = [t \in Tenants |-> 1]
    /\ \E pair \in {s \in SUBSET DOMAIN TenantScripts : Cardinality(s) = 2} :
          /\ process = [p \in pair |-> [stage |-> 1, op |-> 0, error |-> "none"]]
          /\ setting = [p \in pair |-> [r \in Roles |-> NoTenant]]
          /\ answers = [p \in pair |-> <<>>]

(***************************************************************************)
(* withTenantSession.                                                      *)
(***************************************************************************)
\* On to the next stage, or out: naive-leak has its two sessions in a try block
\* whose finally is stage 4, every other error ends the process.
Leave(p, error) ==
    LET inTry == p = "naive_leak" /\ process[p].stage \in {2, 3}
        next == IF error = "none" THEN process[p].stage + 1
                ELSE IF inTry THEN 4 ELSE Len(TenantScripts[p]) + 1
    IN  process' = [process EXCEPT ![p] = [stage |-> next, op |-> 0, error |-> error]]
GotoOp(p, op, error) == process' = [process EXCEPT ![p] = [@ EXCEPT !.op = op,
                                                                    !.error = error]]
\* The end of an operation; in a session a throw still passes the reset.
OpDone(p, error) ==
    IF ~Stage(p).session /\ (error # "none" \/ process[p].op = Len(Ops(p)))
    THEN Leave(p, IF error = "none" THEN process[p].error ELSE error)
    ELSE GotoOp(p, IF error = "none" THEN process[p].op + 1 ELSE Len(Ops(p)) + 1,
                IF error = "none" THEN process[p].error ELSE error)

\* set_config in a session.
TenantIsSet(p) ==
    setting' = IF Stage(p).session THEN [setting EXCEPT ![p][Stage(p).role] = Stage(p).tenant] ELSE setting
\* poolFor(role).connect(), and set_config in a session.
SetTenant(p) ==
    /\ Running(p) /\ process[p].op = 0
    /\ TenantIsSet(p)
    /\ GotoOp(p, 1, process[p].error)
    /\ UNCHANGED <<rowSecurity, tickets, answers>>
\* rls-fix throws when a row of another tenant comes back, least-privilege when
\* an operation is not denied.
Refuted(p) ==
    \/ Op(p) = "rlsState" /\ ~rowSecurity
    \/ p = "rls_fix" /\ Op(p) \in Reads /\ ~(Rows(p) \subseteq {Stage(p).tenant})
    \/ p = "least_privilege" /\ ~Denied(p)
\* Each query is a transaction of its own.
TakesEffect(p) ==
    /\ rowSecurity' = IF Op(p) = "disable" THEN FALSE ELSE rowSecurity \/ Op(p) = "enable"
    /\ tickets' = IF Op(p) = "insertOther" /\ ~Denied(p) THEN [tickets EXCEPT !["globex"] = @ + 1] ELSE tickets
RunOp(p) ==
    /\ AtOp(p) /\ TakesEffect(p)
    /\ answers' = [answers EXCEPT ![p] = IF Op(p) \in Reads
          THEN Append(@, [role |-> Stage(p).role, tenant |-> Stage(p).tenant, op |-> Op(p),
                          rows |-> Rows(p), enforced |-> rowSecurity]) ELSE @]
    /\ OpDone(p, IF Refuted(p) THEN "refuted" ELSE "none")
    /\ UNCHANGED setting
\* A query throws: it was refused or cancelled, or the connection broke before it
\* ran, or after it had taken effect, its answer being lost.  Behind the calls
\* that switch the policy stands no finally block: DISABLE is sent before the
\* try, ENABLE is in the finally block itself.
OpFails(p) ==
    /\ Running(p) /\ process[p].op <= Len(Ops(p))
    /\ \/ UNCHANGED <<rowSecurity, tickets, setting>>
       \/ AtOp(p) /\ TakesEffect(p) /\ UNCHANGED setting
       \/ process[p].op = 0 /\ TenantIsSet(p) /\ UNCHANGED <<rowSecurity, tickets>>
    /\ OpDone(p, IF Ops(p)[1] \in {"disable", "enable"} THEN "unrestored" ELSE "failed")
    /\ UNCHANGED answers
\* The finally block: clear the tenant and release the connection.  If clearing
\* throws, the connection is never released: the next session gets a new one.
ResetTenant(p) ==
    /\ Running(p) /\ Stage(p).session /\ process[p].op = Len(Ops(p)) + 1
    /\ setting' = [setting EXCEPT ![p][Stage(p).role] = NoTenant]
    /\ \E error \in {process[p].error, "failed"} : Leave(p, error)
    /\ UNCHANGED <<rowSecurity, tickets, answers>>
\* The process is killed: no finally block runs.
Killed(p) ==
    /\ Running(p)
    /\ process' = [process EXCEPT ![p] = [stage |-> Len(TenantScripts[p]) + 1, op |-> 0, error |-> "killed"]]
    /\ UNCHANGED <<rowSecurity, tickets, setting, answers>>

ScriptSteps(p) == SetTenant(p) \/ RunOp(p) \/ OpFails(p) \/ ResetTenant(p)
TenantNext == \E p \in DOMAIN process : ScriptSteps(p) \/ Killed(p)
TenantSpec == TenantInit /\ [][TenantNext]_tenantVars
(***************************************************************************)
(* Properties.                                                             *)
(***************************************************************************)
Ended(p) == ~Running(p)
\* The window in which naive-leak has the policy off.
Overlapped == "naive_leak" \in DOMAIN process /\ process["naive_leak"].stage > 1
Untouched(p) == Ended(p) /\ process[p].error = "none"
Returned(p, i) == answers[p][i].rows
\* What owner-bypass throws on at its end.
BypassVerdict ==
    "owner_bypass" \in DOMAIN process /\ Untouched("owner_bypass") /\ ~Overlapped =>
        /\ Returned("owner_bypass", 1) = Tenants /\ Returned("owner_bypass", 2) = Tenants
        /\ Returned("owner_bypass", 3) = {}
\* With the policy on, a query of the app or of the readonly role returns only
\* rows of the tenant its session is for, and none without a tenant, whatever
\* its WHERE clause; no idle connection of a pool carries a tenant into the next
\* session; naive-leak ends with the policy on again, whichever of its queries
\* throws, unless it was killed or its DISABLE or ENABLE itself threw, which may
\* leave the policy off (PolicyAlwaysReenabled); the scripts that check the policy
\* fail only when the policy was off meanwhile, and the bypasses are those of
\* owner and superuser.
TenantsIsolated ==
    /\ \A p \in DOMAIN process : \A i \in 1..Len(answers[p]) : LET a == answers[p][i] IN
          a.enforced /\ ~Bypasses(a.role) => a.rows \subseteq {a.tenant}
    /\ \A p \in DOMAIN process : Running(p) => \A r \in Roles :
          setting[p][r] # NoTenant => Stage(p).session /\ Stage(p).role = r /\ process[p].op > 0
    /\ "naive_leak" \in DOMAIN process /\ Ended("naive_leak") /\ process["naive_leak"].error \notin {"killed", "unrestored"}
          => rowSecurity
    /\ \A p \in DOMAIN process : process[p].error = "refuted" => Overlapped
    /\ tickets["globex"] > 1 => Overlapped
    /\ BypassVerdict
\* What naive-leak and the lab say of it: the script always leaves the policy on
\* before it exits, even if a query throws.  It does not: a DISABLE that has taken
\* effect and loses its answer throws before the try block, and an ENABLE that
\* fails throws out of the finally block.
PolicyAlwaysReenabled ==
    "naive_leak" \in DOMAIN process /\ Ended("naive_leak") /\ process["naive_leak"].error # "killed"
        => rowSecurity
\* No session keeps its connection.
TenantScriptsOver == \A p \in DOMAIN process : Ended(p)
=============================================================================
