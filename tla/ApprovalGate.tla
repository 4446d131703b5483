---------------------------- MODULE ApprovalGate ----------------------------
(***************************************************************************)
(* The gate every command of a webview passes (lib.rs, capability.rs) and  *)
(* the policy that decides about it (policy.rs).  A command that needs an  *)
(* approval is rejected with a pending row; lib/invoke.ts of the front end *)
(* asks the user, resolves the row and invokes once more, and the gate     *)
(* lets that invocation through by consuming a row approved for the same   *)
(* command and arguments.  A command of the phone takes the same way.      *)
(*                                                                         *)
(* A decision is its restriction_level: 0 allow, 1 require_approval, n the *)
(* n approvals, Deny.  Arguments are their canonical hash.                 *)
(***************************************************************************)
EXTENDS Naturals, FiniteSets

CONSTANTS Commands,  \* ids of commands, with unknown ones
          Default,   \* evaluate_default: the level of each command
          Eligible,  \* mobile_eligible: what the phone may ask for
          Args,      \* hashes of arguments
          NoArgs,    \* the hash of {}
          RuleIds, Levels, \* ids of custom rules, and the levels they may state
          Matched,   \* commands a custom rule may name, Any for a rule that names none
          Windows,   \* invocations of the front end that may be under way
          MaxRows, TTL \* bound on the rows of approvals; APPROVAL_TTL_SECS in ticks

Allow == 0
Deny == 255
Any == "any"
NoRow == 0
Rows == 1 .. MaxRows

ApprovalAssumption ==
  /\ Default \in [Commands -> {Allow, 1}]
  /\ Eligible \subseteq Commands /\ NoArgs \in Args
  /\ Levels \subseteq 0 .. Deny /\ MaxRows \in Nat /\ TTL \in Nat
  /\ IsFiniteSet(RuleIds) /\ RuleIds = 1 .. Cardinality(RuleIds)

VARIABLES rules,    \* policy_rules: id -> [cmd, level]; the others do not exist
          custom,   \* policy.custom_enabled
          approval, \* approvals: id -> [cmd, args, status, age, consumed]
          window,   \* what each invocation of the front end is about to do
          runs      \* how often each command ran with each arguments under an approval

vars == <<rules, custom, approval, window, runs>>

Statuses == {"pending", "approved", "rejected"}
Used == DOMAIN approval
Idle == [pc |-> "idle", cmd |-> "none", args |-> NoArgs, level |-> 0, row |-> NoRow]

TypeOK ==
  /\ \E R \in SUBSET RuleIds : rules \in [R -> [cmd : Matched, level : Levels]]
  /\ custom \in BOOLEAN
  /\ Used \subseteq Rows
  /\ \A i \in Used : approval[i] \in
       [cmd : Commands, args : Args, status : Statuses, age : 0 .. TTL + 1, consumed : BOOLEAN]
  /\ window \in [Windows -> [pc : {"idle", "gate", "asking"},
                             cmd : Commands \cup {"none"}, args : Args,
                             level : 0 .. Deny, row : Rows \cup {NoRow}]]
  /\ runs \in [Commands \X Args -> 0 .. MaxRows]

Init == /\ rules = [r \in {} |-> Any] /\ custom = FALSE
        /\ approval = [i \in {} |-> Any]
        /\ window = [w \in Windows |-> Idle]
        /\ runs = [x \in Commands \X Args |-> 0]

----------------------------------------------------------------------------
\* policy.rs

IsValidHardening(rule) == rule.level # Allow
Matches(rule, cmd) == rule.cmd \in {cmd, Any}

\* Mutant: the last rule that matches has the word, though it be softer.
EvaluateLastWins(cmd) ==
  LET step[n \in 0 .. Cardinality(RuleIds)] ==
        IF n = 0 THEN Default[cmd]
        ELSE IF n \in DOMAIN rules /\ IsValidHardening(rules[n]) /\ Matches(rules[n], cmd)
             THEN rules[n].level ELSE step[n - 1]
  IN  IF custom THEN step[Cardinality(RuleIds)] ELSE Default[cmd]

\* evaluate: rules in the order of their ids; one takes over if it is stricter
\* than the strictest so far.
Evaluate(cmd) ==
  LET step[n \in 0 .. Cardinality(RuleIds)] ==
        IF n = 0 THEN Default[cmd]
        ELSE IF /\ n \in DOMAIN rules
                /\ IsValidHardening(rules[n]) /\ Matches(rules[n], cmd)
                /\ rules[n].level > step[n - 1]
             THEN rules[n].level ELSE step[n - 1]
  IN  IF custom THEN step[Cardinality(RuleIds)] ELSE Default[cmd]

\* store::upsert refuses a rule that would soften.
SetRule(r, rule) ==
  /\ IsValidHardening(rule)
  /\ rules' = [s \in DOMAIN rules \cup {r} |-> IF s = r THEN rule ELSE rules[s]]
  /\ UNCHANGED <<custom, approval, window, runs>>

RemoveRule(r) ==
  /\ r \in DOMAIN rules
  /\ rules' = [s \in DOMAIN rules \ {r} |-> rules[s]]
  /\ UNCHANGED <<custom, approval, window, runs>>

SetCustomEnabled ==
  /\ custom' = ~custom
  /\ UNCHANGED <<rules, approval, window, runs>>

----------------------------------------------------------------------------
\* capability.rs

CreatePending(cmd, args) ==
  LET i == Cardinality(Used) + 1 IN
    /\ i \in Rows
    /\ approval' = [j \in Used \cup {i} |->
         IF j = i THEN [cmd |-> cmd, args |-> args, status |-> "pending", age |-> 0,
                        consumed |-> FALSE]
         ELSE approval[j]]

\* Mutant: an old approval is good for ever.
ConsumableForEver(i, cmd, args) ==
  LET a == approval[i] IN
    a.cmd = cmd /\ a.args = args /\ a.status = "approved" /\ ~a.consumed

\* The rows consume_approved looks for, and the one it takes: the newest.
Consumable(i, cmd, args) ==
  LET a == approval[i] IN
    a.cmd = cmd /\ a.args = args /\ a.status = "approved" /\ ~a.consumed /\ a.age <= TTL
Candidates(cmd, args) == {i \in Used : Consumable(i, cmd, args)}
Newest(C, i) == i \in C /\ \A j \in C : approval[j].age >= approval[i].age

Consume(i) == approval' = [approval EXCEPT ![i].consumed = TRUE]

Ran(cmd, args) == runs' = [runs EXCEPT ![<<cmd, args>>] = @ + 1]

\* A webview invokes; effective_decision reads the switch and the rules.
Invoke(w, cmd, args) ==
  /\ window[w].pc = "idle"
  /\ window' = [window EXCEPT ![w] = [pc |-> "gate", cmd |-> cmd, args |-> args,
                                      level |-> Evaluate(cmd), row |-> NoRow]]
  /\ UNCHANGED <<rules, custom, approval, runs>>

\* dispatch_gate: allowed, or denied.
PassOrDeny(w) ==
  /\ window[w].pc = "gate" /\ window[w].level \in {Allow, Deny}
  /\ window' = [window EXCEPT ![w] = Idle]
  /\ UNCHANGED <<rules, custom, approval, runs>>

\* A row is consumed and the command runs.
PassApproved(w) ==
  LET cmd == window[w].cmd
      args == window[w].args IN
    /\ window[w].pc = "gate" /\ window[w].level \notin {Allow, Deny}
    /\ \E i \in Used : Newest(Candidates(cmd, args), i) /\ Consume(i)
    /\ Ran(cmd, args) /\ runs[<<cmd, args>>] < MaxRows
    /\ window' = [window EXCEPT ![w] = Idle]
    /\ UNCHANGED <<rules, custom>>

\* No row: a pending one is made for a command that is known.  The second
\* invocation does not ask again.
Pend(w) ==
  LET cmd == window[w].cmd
      args == window[w].args IN
    /\ window[w].pc = "gate" /\ window[w].level \notin {Allow, Deny}
    /\ Candidates(cmd, args) = {}
    /\ CreatePending(cmd, args)
    /\ window' = [window EXCEPT ![w] = IF @.row = NoRow
                    THEN [@ EXCEPT !.pc = "asking", !.row = Cardinality(Used) + 1] ELSE Idle]
    /\ UNCHANGED <<rules, custom, runs>>

\* authorize_mobile_command: a command of the phone that needs an approval gets
\* a pending row; the others are invoked by a window, through the gate.
MobileExecute(cmd) ==
  /\ cmd \in Eligible /\ Default[cmd] # Allow
  /\ CreatePending(cmd, NoArgs)
  /\ UNCHANGED <<rules, custom, window, runs>>

\* resolve: a row is resolved once.
Resolve(i, status) ==
  /\ i \in Used /\ approval[i].status = "pending"
  /\ approval' = [approval EXCEPT ![i].status = status, ![i].age = 0]
  /\ UNCHANGED <<rules, custom, window, runs>>

\* lib/invoke.ts: the row was resolved; the same invocation once more, or an end.
InvokeAgain(w) ==
  /\ window[w].pc = "asking" /\ approval[window[w].row].status # "pending"
  /\ window' = [window EXCEPT ![w] =
       IF approval[window[w].row].status = "approved"
       THEN [window[w] EXCEPT !.pc = "gate", !.level = Evaluate(window[w].cmd)] ELSE Idle]
  /\ UNCHANGED <<rules, custom, approval, runs>>

\* Time passes for the approved rows.
Tick ==
  /\ \E i \in Used : approval[i].status = "approved" /\ approval[i].age <= TTL
  /\ approval' = [i \in Used |-> IF approval[i].status = "approved" /\ approval[i].age <= TTL
                                   /\ ~approval[i].consumed
                                 THEN [approval[i] EXCEPT !.age = @ + 1] ELSE approval[i]]
  /\ UNCHANGED <<rules, custom, window, runs>>

\* The front end reloads: rows stay, invocations do not.
Reload ==
  /\ window' = [w \in Windows |-> Idle]
  /\ UNCHANGED <<rules, custom, approval, runs>>

Next ==
  \/ \E r \in RuleIds : \/ \E c \in Matched, l \in Levels : SetRule(r, [cmd |-> c, level |-> l])
                        \/ RemoveRule(r)
  \/ SetCustomEnabled
  \/ \E w \in Windows : \/ \E c \in Commands, a \in Args : Invoke(w, c, a)
                        \/ PassOrDeny(w) \/ PassApproved(w) \/ Pend(w) \/ InvokeAgain(w)
  \/ \E c \in Commands : MobileExecute(c)
  \/ \E i \in Rows, s \in {"approved", "rejected"} : Resolve(i, s)
  \/ Tick \/ Reload

Spec == Init /\ [][Next]_vars
----------------------------------------------------------------------------
\* What the gate promises

\* Whatever windows, phone and user do in whatever order, a command runs under
\* an approval as often as the user approved it with these arguments, and never
\* by an approval that was rejected, used or older than its TTL.
RunsAreApproved ==
  /\ \A x \in DOMAIN runs :
       runs[x] = Cardinality({i \in Used : approval[i].consumed /\ <<approval[i].cmd, approval[i].args>> = x})
  /\ \A i \in Used : approval[i].consumed => approval[i].status = "approved" /\ approval[i].age <= TTL

\* Custom rules harden: in whatever order they were made, the decision is the
\* strictest of the default and of those that match, and the default alone while
\* they are switched off.
PolicyOnlyHardens ==
  \A c \in Commands :
    LET stated == {rules[r].level : r \in {s \in DOMAIN rules : rules[s].cmd \in {c, Any}}}
    IN  /\ Evaluate(c) \in {Default[c]} \cup (IF custom THEN stated ELSE {})
        /\ Evaluate(c) >= Default[c]
        /\ custom => \A l \in stated : Evaluate(c) >= l

\* The gate as a whole.
GateIsKept == RunsAreApproved /\ PolicyOnlyHardens
=============================================================================
