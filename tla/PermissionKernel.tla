-------------------------- MODULE PermissionKernel --------------------------
(***************************************************************************)
(* PermissionKernelService.evaluate                                        *)
(* (apps/api/src/PermissionKernelService.ts), which every service asks     *)
(* before it acts.                                                         *)
(*                                                                         *)
(* A request whose boundaries agree is held against the rules enabled when *)
(* it reads them; a rule is read for every project alike.  Nobody but an   *)
(* operator's SQL writes the rules.  Conditions other than is_admin and    *)
(* sensitivity compare a field of the request with a value, and each       *)
(* request says which of them it meets.  The record of the decision, that  *)
(* of an override and the audit rows are written after it and their        *)
(* failures are swallowed: they are left out, as is the wording of the     *)
(* reason.                                                                 *)
(***************************************************************************)
CONSTANTS
  Rule,           \* the rules the table may hold
  BuiltIn,        \* the rules of the code
  Ask,            \* the requests
  StaticFallback  \* a test environment, in which a failed read yields the built-in rules

ASSUME KernelAssumption == StaticFallback \in BOOLEAN

VARIABLES
  policies,  \* the enabled rules of permission_policies
  ruling,    \* the evaluation in flight
  tables     \* history: the tables that stood from its start until its rules were read

kernelVars == <<policies, ruling, tables>>

RulingIdle == [pc |-> "idle"]

RulingSlot ==
  {RulingIdle}
    \union [pc: {"load"}, ask: Ask]
    \union [pc: {"decide"}, ask: Ask, rules: SUBSET (Rule \union BuiltIn), readable: BOOLEAN]
    \union [pc: {"done"}, ask: Ask, readable: BOOLEAN, decision: {"allow", "deny"}]

KernelTypeOK ==
  /\ policies \subseteq Rule
  /\ ruling \in RulingSlot
  /\ tables \subseteq SUBSET Rule

KernelInit == policies = {} /\ ruling = RulingIdle /\ tables = {}

-----------------------------------------------------------------------------
\* evaluateConditions: attributes.is_admin, the role, or an override asked for, make an admin.
Admin(q) == q.is_admin \/ q.role = "admin" \/ q.override # "none"

Fulfils(q, condition) ==
  CASE condition = "is_admin" -> Admin(q)
    [] condition = "sensitivity" -> q.secret => Admin(q) \/ q.subject = "system"
    [] OTHER -> condition \in q.meets

\* matchRules
Applies(rule, q) ==
  /\ rule.subject \in {"*", q.subject}
  /\ rule.resource \in {"*", q.resource}
  /\ rule.action \in {"*", q.action}
  /\ \A condition \in rule.conditions : Fulfils(q, condition)

Holds(effect, rules, q) == \E rule \in rules : rule.effect = effect /\ Applies(rule, q)

Elevated(q) == q.override = "reasoned" /\ (q.role = "admin" \/ q.subject = "system")

\* A denying rule beats an allowing one, and an override, granted or refused, beats both.
Decision(rules, q) ==
  IF \/ Elevated(q)
     \/ q.override = "none" /\ Holds("allow", rules, q) /\ ~ Holds("deny", rules, q)
  THEN "allow" ELSE "deny"

-----------------------------------------------------------------------------
EditPolicies(rule) ==
  /\ policies' = IF rule \in policies THEN policies \ {rule} ELSE policies \union {rule}
  /\ tables' = IF ruling.pc = "load" THEN tables \union {policies'} ELSE tables
  /\ UNCHANGED ruling

\* A request between two projects, tasks or workers, or for a file out of bounds, is denied before
\* the rules are read.
Evaluate(q) ==
  /\ ruling.pc = "idle"
  /\ ruling' = IF q.breach THEN [pc |-> "done", ask |-> q, readable |-> TRUE, decision |-> "deny"]
               ELSE [pc |-> "load", ask |-> q]
  /\ tables' = {policies}
  /\ UNCHANGED policies

\* Slip: a read that fails yields the built-in rules too.
Loaded_FailOpen(readable) == IF readable /\ policies # {} THEN policies ELSE BuiltIn

\* loadPolicies: a table without an enabled rule yields the built-in ones, a read that fails none.
Loaded(readable) ==
  CASE readable /\ policies # {} -> policies
    [] ~ readable /\ ~ StaticFallback -> {}
    [] OTHER -> BuiltIn

LoadPolicies(readable) ==
  /\ ruling.pc = "load"
  /\ ruling' = [pc |-> "decide", ask |-> ruling.ask, rules |-> Loaded(readable),
                readable |-> readable]
  /\ UNCHANGED <<policies, tables>>

Decide ==
  /\ ruling.pc = "decide"
  /\ ruling' = [pc |-> "done", ask |-> ruling.ask, readable |-> ruling.readable,
                decision |-> Decision(ruling.rules, ruling.ask)]
  /\ UNCHANGED <<policies, tables>>

Ruled ==
  /\ ruling.pc = "done"
  /\ ruling' = RulingIdle
  /\ tables' = {}
  /\ UNCHANGED policies

KernelNext ==
  \/ \E rule \in Rule : EditPolicies(rule)
  \/ \E q \in Ask : Evaluate(q)
  \/ \E readable \in BOOLEAN : LoadPolicies(readable)
  \/ Decide \/ Ruled

KernelSpec == KernelInit /\ [][KernelNext]_kernelVars

-----------------------------------------------------------------------------
(* Properties *)

\* The rules that answer for a table: its own, or those of the code if it has none.
InForce(table) == IF table = {} THEN BuiltIn ELSE table

\* Some rule allows the request and none denies it.
Allows(rules, q) ==
  /\ \E rule \in rules : rule.effect = "allow" /\ Applies(rule, q)
  /\ \A rule \in rules : rule.effect = "deny" => ~ Applies(rule, q)

\* What is allowed has a ground, however the rules are edited meanwhile.  It crosses no boundary,
\* an override included.  An override needs its rationale and an admin role or the system, whatever
\* became of the rules, though asking for one makes anybody meet is_admin.  Without one, a table
\* that stood while the request was evaluated allows it, and none of that table's rules denies it;
\* and when the rules could not be read nobody is allowed anything, but for a test environment.
AllowedHasGround ==
  ruling.pc = "done" /\ ruling.decision = "allow" =>
    LET q == ruling.ask IN
    /\ ~ q.breach
    /\ CASE q.override # "none" ->
              q.override = "reasoned" /\ (q.role = "admin" \/ q.subject = "system")
         [] q.override = "none" /\ ruling.readable ->
              \E table \in tables : Allows(InForce(table), q)
         [] q.override = "none" /\ ~ ruling.readable ->
              StaticFallback /\ Allows(BuiltIn, q)
=============================================================================
