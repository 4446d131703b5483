---------------------------- MODULE AccessProofs ----------------------------
(***************************************************************************)
(* Proofs about the components of Access that MCAccess checks on small     *)
(* instances, one section for each, for every value of their constants.    *)
(***************************************************************************)
EXTENDS Access, Sequences, Integers, FiniteSetTheorems, WellFoundedInduction, TLAPS

----------------------------------------------------------------------------
\* A set of natural numbers that is not empty has a least member.
LEMMA LeastNatural ==
  ASSUME NEW T \in SUBSET Nat, T # {}
  PROVE  \E m \in T : \A n \in T : m <= n
<1> DEFINE Less == {ss \in Nat \X Nat : ss[1] < ss[2]}
<1>1. IsWellFoundedOn(Less, Nat)
  BY NatLessThanWellFounded DEF OpToRel
<1>2. PICK m \in T : \A n \in T : <<n, m>> \notin Less
  BY <1>1, WFMin
<1>3. \A n \in T : ~ (n < m)
  BY <1>2
<1> QED BY <1>2, <1>3

\* A set of natural numbers with a bound has a greatest member.
LEMMA GreatestNatural ==
  ASSUME NEW b \in Nat, NEW S \in SUBSET (0 .. b), S # {}
  PROVE  \E m \in S : \A l \in S : l <= m
<1> DEFINE T == {b - l : l \in S}
<1>1. T \in SUBSET Nat /\ T # {}
  <2>1. \A l \in S : b - l \in Nat
    OBVIOUS
  <2>2. T # {}
    OBVIOUS
  <2> QED BY <2>1, <2>2
<1>2. PICK d \in T : \A n \in T : d <= n
  BY <1>1, LeastNatural
<1>3. PICK m \in S : d = b - m
  BY <1>2
<1>4. ASSUME NEW l \in S PROVE l <= m
  <2>1. b - l \in T
    OBVIOUS
  <2>2. b - m <= b - l
    BY <1>2, <1>3, <2>1
  <2> QED BY <2>2
<1> QED BY <1>4

----------------------------------------------------------------------------
(* ApprovalGate                                                            *)

\* The instance counts as everybody does.
LEMMA GateCardinality ==
  \A S : Gate!Cardinality(S) = Cardinality(S) /\ Gate!IsFiniteSet(S) = IsFiniteSet(S)
BY DEF Gate!Cardinality, Cardinality, Gate!IsFiniteSet, IsFiniteSet

\* The rules are numbered from 1.
LEMMA RuleIdsAreNumbers ==
  Cardinality(RuleIds) \in Nat /\ RuleIds = 1 .. Cardinality(RuleIds)
BY GateAssumption, GateCardinality, FS_CardinalityType DEF Gate!ApprovalAssumption

\* The rules that have the word about a command, up to an id.
Speaking(c, n) ==
  {r \in DOMAIN rules : r <= n /\ Gate!IsValidHardening(rules[r]) /\ Gate!Matches(rules[r], c)}

\* What is stated about a command up to an id, with the default, and the
\* strictest of it.
Stated(c, n) == {Default[c]} \cup {rules[r].level : r \in Speaking(c, n)}
Strictest(c, n) == CHOOSE m \in Stated(c, n) : \A l \in Stated(c, n) : l <= m

\* The table of rules holds rules.
RulesTyped ==
  /\ DOMAIN rules \subseteq RuleIds
  /\ \A r \in DOMAIN rules : rules[r].level \in Levels

\* There is a strictest of what is stated.
LEMMA StrictestIsStated ==
  ASSUME RulesTyped, NEW c \in Commands, NEW n \in Nat
  PROVE  /\ Strictest(c, n) \in Stated(c, n)
         /\ \A l \in Stated(c, n) : l <= Strictest(c, n)
         /\ Stated(c, n) \subseteq 0 .. 255
<1>1. Stated(c, n) \subseteq 0 .. 255 /\ Stated(c, n) # {}
  <2>1. Default[c] \in 0 .. 255 /\ Levels \subseteq 0 .. 255
    BY GateAssumption DEF Gate!ApprovalAssumption, Gate!Allow, Gate!Deny
  <2>2. \A r \in Speaking(c, n) : rules[r].level \in Levels
    BY DEF Speaking, RulesTyped
  <2> QED BY <2>1, <2>2 DEF Stated
<1>2. \E m \in Stated(c, n) : \A l \in Stated(c, n) : l <= m
  <2>1. 255 \in Nat
    OBVIOUS
  <2> QED BY <1>1, <2>1, GreatestNatural
<1> QED BY <1>1, <1>2 DEF Strictest

\* The loop of policy.rs, one rule further: the next rule takes over if it has
\* the word and is stricter.
LEMMA StrictestGrows ==
  ASSUME RulesTyped, NEW c \in Commands, NEW n \in Nat \ {0}
  PROVE  Strictest(c, n) =
           IF n \in Speaking(c, n) /\ rules[n].level > Strictest(c, n - 1)
           THEN rules[n].level ELSE Strictest(c, n - 1)
<1>1. n - 1 \in Nat /\ DOMAIN rules \subseteq Nat
  BY RuleIdsAreNumbers DEF RulesTyped
<1>2. Speaking(c, n) = Speaking(c, n - 1) \cup {r \in {n} : r \in Speaking(c, n)}
  BY <1>1 DEF Speaking
<1>3. Stated(c, n) = Stated(c, n - 1) \cup {rules[r].level : r \in {r \in {n} : r \in Speaking(c, n)}}
  BY <1>2 DEF Stated
<1>4. /\ Strictest(c, n) \in Stated(c, n) /\ Strictest(c, n - 1) \in Stated(c, n - 1)
      /\ \A l \in Stated(c, n) : l <= Strictest(c, n)
      /\ \A l \in Stated(c, n - 1) : l <= Strictest(c, n - 1)
      /\ Stated(c, n) \subseteq 0 .. 255 /\ Stated(c, n - 1) \subseteq 0 .. 255
  BY <1>1, StrictestIsStated
<1>5. CASE n \in Speaking(c, n)
  <2>1. Stated(c, n) = Stated(c, n - 1) \cup {rules[n].level}
    BY <1>3, <1>5
  <2> DEFINE high == Strictest(c, n)
             low  == Strictest(c, n - 1)
             A    == Stated(c, n - 1)
             l    == rules[n].level
  <2>2. /\ high \in A \cup {l} /\ low \in A /\ l <= high /\ l \in 0 .. 255
        /\ A \subseteq 0 .. 255
        /\ \A x \in A : x <= high /\ x <= low
    BY <1>4, <2>1
  <2>3. high = IF l > low THEN l ELSE low
    <3> HIDE DEF high, low, A, l
    <3> QED BY <2>2
  <2> QED BY <1>5, <2>3
<1>6. CASE n \notin Speaking(c, n)
  <2>1. Stated(c, n) = Stated(c, n - 1)
    BY <1>3, <1>6
  <2>2. Strictest(c, n) = Strictest(c, n - 1)
    BY <2>1 DEF Strictest
  <2> QED BY <1>6, <2>2
<1> QED BY <1>5, <1>6

\* What evaluate answers with the custom rules switched on: its loop over the
\* rules ends with the strictest of all that is stated.
LEMMA EvaluateIsStrictest ==
  ASSUME RulesTyped, NEW c \in Commands
  PROVE  Gate!Evaluate(c) =
           IF custom THEN Strictest(c, Cardinality(RuleIds)) ELSE Default[c]
<1> DEFINE N == Gate!Cardinality(RuleIds)
           Body(f) == [n \in 0 .. N |->
             IF n = 0 THEN Default[c]
             ELSE IF /\ n \in DOMAIN rules
                     /\ Gate!IsValidHardening(rules[n]) /\ Gate!Matches(rules[n], c)
                     /\ rules[n].level > f[n - 1]
                  THEN rules[n].level ELSE f[n - 1]]
           g == [n \in 0 .. N |-> Strictest(c, n)]
           step == CHOOSE f : f = Body(f)
<1>1. N \in Nat /\ DOMAIN rules \subseteq 1 .. N
  BY RuleIdsAreNumbers, GateCardinality DEF RulesTyped
<1>2. \A n \in 1 .. N : n \in Speaking(c, n) <=>
        n \in DOMAIN rules /\ Gate!IsValidHardening(rules[n]) /\ Gate!Matches(rules[n], c)
  BY <1>1 DEF Speaking
<1>3. Strictest(c, 0) = Default[c]
  <2>1. Stated(c, 0) = {Default[c]}
    BY <1>1 DEF Stated, Speaking
  <2> QED BY <2>1, StrictestIsStated
<1>4. g = Body(g)
  <2>1. ASSUME NEW n \in 0 .. N PROVE g[n] = Body(g)[n]
    <3>1. CASE n = 0
      BY <1>3, <3>1
    <3>2. CASE n # 0
      <4>1. n \in Nat \ {0} /\ n \in 1 .. N /\ n - 1 \in 0 .. N
        BY <1>1, <3>2
      <4>2. g[n] = Strictest(c, n) /\ g[n - 1] = Strictest(c, n - 1)
        BY <4>1
      <4>3. Body(g)[n] = IF n \in Speaking(c, n) /\ rules[n].level > g[n - 1]
                         THEN rules[n].level ELSE g[n - 1]
        BY <1>2, <3>2, <4>1
      <4> HIDE DEF g, Body
      <4> QED BY <4>1, <4>2, <4>3, StrictestGrows
    <3> QED BY <3>1, <3>2
  <2> QED BY <2>1
<1>5. step = Body(step)
  <2> HIDE DEF g, Body
  <2> QED BY <1>4
<1>6. ASSUME NEW n \in 0 .. N PROVE step[n] = g[n]
  <2> DEFINE Wrong == {m \in 0 .. N : step[m] # g[m]}
  <2>1. SUFFICES ASSUME n \in Wrong PROVE FALSE
    OBVIOUS
  <2>2. PICK m \in Wrong : \A k \in Wrong : m <= k
    <3>1. Wrong \in SUBSET Nat
      <4> HIDE DEF step, g, N
      <4> QED BY <1>1
    <3>2. Wrong # {}
      BY <2>1
    <3> HIDE DEF Wrong
    <3> QED BY <3>1, <3>2, LeastNatural
  <2>3. m \in 0 .. N /\ step[m] # g[m]
    BY <2>2
  <2>4. step[m] = Body(step)[m] /\ g[m] = Body(g)[m]
    <3> HIDE DEF step, g, Body
    <3> QED BY <1>4, <1>5
  <2>5. CASE m = 0
    <3> HIDE DEF step, g
    <3> QED BY <1>1, <2>3, <2>4, <2>5
  <2>6. CASE m # 0
    <3>1. m - 1 \in 0 .. N /\ m - 1 < m
      BY <1>1, <2>3, <2>6
    <3>2. step[m - 1] = g[m - 1]
      BY <2>2, <3>1
    <3> HIDE DEF step, g
    <3> QED BY <2>3, <2>4, <2>6, <3>2
  <2> QED BY <2>5, <2>6
<1>7. Gate!Evaluate(c) = IF custom THEN step[N] ELSE Default[c]
  BY DEF Gate!Evaluate
<1>8. step[N] = Strictest(c, N)
  <2> HIDE DEF step, Body, N
  <2> QED BY <1>1, <1>6
<1>9. N = Cardinality(RuleIds)
  BY GateCardinality
<1> QED
  <2> HIDE DEF step, N
  <2> QED BY <1>7, <1>8, <1>9

\* The rows under which a command ran with some arguments.
SpentOn(x) ==
  {i \in DOMAIN approval : approval[i].consumed /\ <<approval[i].cmd, approval[i].args>> = x}

\* A row of approvals is whole, and what was used is an approval in time.
RowIsSound(a) ==
  /\ DOMAIN a = {"cmd", "args", "status", "age", "consumed"}
  /\ a.age \in Nat /\ a.consumed \in BOOLEAN
  /\ a.consumed => a.status = "approved" /\ a.age <= Approved

\* The rows are numbered as they come.
RowsAreSound ==
  /\ \E n \in Nat : DOMAIN approval = 1 .. n
  /\ \A i \in DOMAIN approval : RowIsSound(approval[i])

\* Every run is a row that was used for it.
RunsAreRows ==
  \A x \in DOMAIN runs : runs[x] = Cardinality(SpentOn(x))

\* The inductive invariant of the gate.
GateInv == RulesTyped /\ RowsAreSound /\ RunsAreRows

\* At first there is no rule, no row and no run.
LEMMA GateInit == Gate!Init => GateInv
<1> SUFFICES ASSUME Gate!Init PROVE GateInv
  OBVIOUS
<1>1. DOMAIN approval = 1 .. 0 /\ DOMAIN rules = {} /\ \A x \in DOMAIN runs : runs[x] = 0
  BY DEF Gate!Init
<1>2. \A x : SpentOn(x) = {}
  BY <1>1 DEF SpentOn
<1>3. RulesTyped /\ RowsAreSound
  <2>1. \E n \in Nat : DOMAIN approval = 1 .. n
    BY <1>1
  <2>2. DOMAIN approval = {}
    BY <1>1
  <2> QED BY <1>1, <2>1, <2>2 DEF RulesTyped, RowsAreSound
<1>4. RunsAreRows
  BY <1>1, <1>2, FS_EmptySet DEF RunsAreRows
<1> QED BY <1>3, <1>4 DEF GateInv

\* A step that uses no row, runs nothing and keeps what was used.
LEMMA NothingUsed ==
  ASSUME RunsAreRows, UNCHANGED runs,
         \A i : i \in DOMAIN approval /\ approval[i].consumed <=>
                i \in DOMAIN approval' /\ approval'[i].consumed,
         \A i \in DOMAIN approval : approval[i].consumed =>
            approval'[i].cmd = approval[i].cmd /\ approval'[i].args = approval[i].args
  PROVE  RunsAreRows'
<1>1. ASSUME NEW x PROVE SpentOn(x)' = SpentOn(x)
  BY DEF SpentOn
<1> QED BY <1>1 DEF RunsAreRows

\* A new row is pending, and the next number is its own.
LEMMA PendingIsSound ==
  ASSUME GateInv, NEW cmd, NEW args, Gate!CreatePending(cmd, args), UNCHANGED runs
  PROVE  RowsAreSound' /\ RunsAreRows'
<1>1. PICK n \in Nat : DOMAIN approval = 1 .. n
  BY DEF GateInv, RowsAreSound
<1>2. Gate!Cardinality(Gate!Used) = n
  BY <1>1, FS_Interval, GateCardinality DEF Gate!Used
<1> DEFINE new == [cmd |-> cmd, args |-> args, status |-> "pending", age |-> 0,
                   consumed |-> FALSE]
<1>3. /\ DOMAIN approval' = 1 .. n + 1
      /\ \A j \in 1 .. n : approval'[j] = approval[j]
      /\ approval'[n + 1] = new
  BY <1>1, <1>2 DEF Gate!CreatePending, Gate!Used
<1>4. RowIsSound(new)
  BY DEF RowIsSound
<1>5. RowsAreSound'
  <2>1. n + 1 \in Nat
    OBVIOUS
  <2>2. ASSUME NEW j \in DOMAIN approval' PROVE RowIsSound(approval'[j])
    <3>1. j \in 1 .. n \/ j = n + 1
      BY <1>3
    <3>2. CASE j \in 1 .. n
      BY <1>1, <1>3, <3>2 DEF GateInv, RowsAreSound
    <3>3. CASE j = n + 1
      BY <1>3, <1>4, <3>3
    <3> QED BY <3>1, <3>2, <3>3
  <2> QED BY <1>3, <2>1, <2>2 DEF RowsAreSound, RowIsSound
<1>6. RunsAreRows'
  <2>1. \A i : i \in DOMAIN approval /\ approval[i].consumed <=>
               i \in DOMAIN approval' /\ approval'[i].consumed
    BY <1>1, <1>3
  <2> QED BY <1>1, <1>3, <2>1, NothingUsed DEF GateInv
<1> QED BY <1>5, <1>6

\* Every step keeps the rules, the rows and their runs in agreement: an invocation
\* at any step of its way through the gate, the phone, the user who resolves a row
\* or edits the rules meanwhile, the clock and the reload.
LEMMA GateStep == GateInv /\ [Gate!Next]_(Gate!vars) => GateInv'
<1> SUFFICES ASSUME GateInv, [Gate!Next]_(Gate!vars) PROVE GateInv'
  OBVIOUS
<1>a. ASSUME UNCHANGED <<approval, runs>> PROVE RowsAreSound' /\ RunsAreRows'
  BY <1>a DEF GateInv, RowsAreSound, RowIsSound, RunsAreRows, SpentOn
<1>b. ASSUME UNCHANGED rules PROVE RulesTyped'
  BY <1>b DEF GateInv, RulesTyped
<1>1. ASSUME NEW r \in RuleIds, NEW c \in Matched, NEW l \in Levels,
             Gate!SetRule(r, [cmd |-> c, level |-> l])
      PROVE  GateInv'
  <2>1. RulesTyped'
    BY <1>1 DEF Gate!SetRule, GateInv, RulesTyped
  <2> QED BY <1>1, <1>a, <2>1 DEF Gate!SetRule, GateInv
<1>2. ASSUME NEW r \in RuleIds, Gate!RemoveRule(r) PROVE GateInv'
  <2>1. RulesTyped'
    BY <1>2 DEF Gate!RemoveRule, GateInv, RulesTyped
  <2> QED BY <1>2, <1>a, <2>1 DEF Gate!RemoveRule, GateInv
<1>3. CASE Gate!SetCustomEnabled
  BY <1>3, <1>a, <1>b DEF Gate!SetCustomEnabled, GateInv
<1>4. ASSUME NEW w \in Views, NEW c \in Commands, NEW a \in Args, Gate!Invoke(w, c, a)
      PROVE  GateInv'
  BY <1>4, <1>a, <1>b DEF Gate!Invoke, GateInv
<1>5. ASSUME NEW w \in Views, Gate!PassOrDeny(w) PROVE GateInv'
  BY <1>5, <1>a, <1>b DEF Gate!PassOrDeny, GateInv
<1>6. ASSUME NEW w \in Views, Gate!PassApproved(w) PROVE GateInv'
  <2> DEFINE cmd == view[w].cmd
             args == view[w].args
  <2>1. PICK i \in DOMAIN approval : Gate!Newest(Gate!Candidates(cmd, args), i) /\ Gate!Consume(i)
    BY <1>6 DEF Gate!PassApproved, Gate!Used
  <2>2. /\ approval[i].cmd = cmd /\ approval[i].args = args
        /\ approval[i].status = "approved" /\ ~approval[i].consumed
        /\ approval[i].age <= Approved
    BY <2>1 DEF Gate!Newest, Gate!Candidates, Gate!Consumable
  <2>3. approval' = [approval EXCEPT ![i].consumed = TRUE]
    BY <2>1 DEF Gate!Consume
  <2>4. /\ runs' = [runs EXCEPT ![<<cmd, args>>] = @ + 1]
        /\ UNCHANGED rules
    BY <1>6 DEF Gate!PassApproved, Gate!Ran
  <2>5. \A j \in DOMAIN approval : RowIsSound(approval[j])
    BY DEF GateInv, RowsAreSound
  <2>6. /\ DOMAIN approval' = DOMAIN approval
        /\ \A j \in DOMAIN approval : j # i => approval'[j] = approval[j]
        /\ approval'[i].cmd = cmd /\ approval'[i].args = args /\ approval'[i].consumed
        /\ RowIsSound(approval'[i])
    BY <2>2, <2>3, <2>5 DEF RowIsSound
  <2>7. RowsAreSound'
    <3>1. \A j \in DOMAIN approval' : RowIsSound(approval'[j])
      BY <2>5, <2>6
    <3> QED BY <2>6, <3>1 DEF GateInv, RowsAreSound, RowIsSound
  <2>8. RunsAreRows'
    <3>1. ASSUME NEW x
          PROVE  SpentOn(x)' = IF x = <<cmd, args>> THEN SpentOn(x) \cup {i} ELSE SpentOn(x)
      BY <2>2, <2>6 DEF SpentOn
    <3>2. ASSUME NEW x PROVE IsFiniteSet(SpentOn(x)) /\ i \notin SpentOn(x)
      <4>1. PICK n \in Nat : DOMAIN approval = 1 .. n
        BY DEF GateInv, RowsAreSound
      <4>2. SpentOn(x) \in SUBSET (1 .. n)
        BY <4>1 DEF SpentOn
      <4>3. IsFiniteSet(1 .. n)
        BY FS_Interval
      <4> QED BY <2>2, <4>2, <4>3, FS_Subset DEF SpentOn
    <3>3. ASSUME NEW x
          PROVE  Cardinality(SpentOn(x))' =
                   IF x = <<cmd, args>> THEN Cardinality(SpentOn(x)) + 1 ELSE Cardinality(SpentOn(x))
      BY <3>1, <3>2, FS_AddElement
    <3> QED BY <2>4, <3>3 DEF GateInv, RunsAreRows
  <2> QED BY <2>4, <2>7, <2>8, <1>b DEF GateInv
<1>7. ASSUME NEW w \in Views, Gate!Pend(w) PROVE GateInv'
  BY <1>7, <1>b, PendingIsSound DEF Gate!Pend, GateInv
<1>8. ASSUME NEW w \in Views, Gate!InvokeAgain(w) PROVE GateInv'
  BY <1>8, <1>a, <1>b DEF Gate!InvokeAgain, GateInv
<1>9. ASSUME NEW c \in Commands, Gate!MobileExecute(c) PROVE GateInv'
  BY <1>9, <1>b, PendingIsSound DEF Gate!MobileExecute, GateInv
<1>10. ASSUME NEW i, NEW s, Gate!Resolve(i, s) PROVE GateInv'
  <2>1. /\ i \in DOMAIN approval /\ approval[i].status = "pending"
        /\ approval' = [approval EXCEPT ![i].status = s, ![i].age = 0]
        /\ UNCHANGED <<rules, runs>>
    BY <1>10 DEF Gate!Resolve, Gate!Used
  <2>2. \A j \in DOMAIN approval : RowIsSound(approval[j])
    BY DEF GateInv, RowsAreSound
  <2>3. ~approval[i].consumed
    BY <2>1, <2>2 DEF RowIsSound
  <2>4. /\ DOMAIN approval' = DOMAIN approval
        /\ \A j \in DOMAIN approval : j # i => approval'[j] = approval[j]
        /\ ~approval'[i].consumed /\ RowIsSound(approval'[i])
    BY <2>1, <2>2, <2>3 DEF RowIsSound
  <2>5. RowsAreSound'
    BY <2>2, <2>4 DEF GateInv, RowsAreSound, RowIsSound
  <2>6. RunsAreRows'
    BY <2>1, <2>3, <2>4, NothingUsed DEF GateInv
  <2> QED BY <2>1, <2>5, <2>6, <1>b DEF GateInv
<1>11. CASE Gate!Tick
  <2>1. /\ approval' = [i \in DOMAIN approval |->
              IF approval[i].status = "approved" /\ approval[i].age <= Approved
                 /\ ~approval[i].consumed
              THEN [approval[i] EXCEPT !.age = @ + 1] ELSE approval[i]]
        /\ UNCHANGED <<rules, runs>>
    BY <1>11 DEF Gate!Tick, Gate!Used
  <2>2. \A j \in DOMAIN approval : RowIsSound(approval[j])
    BY DEF GateInv, RowsAreSound
  <2>3. DOMAIN approval' = DOMAIN approval
    BY <2>1
  <2>4. ASSUME NEW j \in DOMAIN approval
        PROVE  /\ approval[j].consumed => approval'[j] = approval[j]
               /\ ~approval[j].consumed => ~approval'[j].consumed
               /\ RowIsSound(approval'[j])
    <3>1. RowIsSound(approval[j])
      BY <2>2
    <3> QED BY <2>1, <3>1 DEF RowIsSound
  <2>5. RowsAreSound'
    BY <2>3, <2>4 DEF GateInv, RowsAreSound, RowIsSound
  <2>6. RunsAreRows'
    BY <2>1, <2>3, <2>4, NothingUsed DEF GateInv
  <2> QED BY <2>1, <2>5, <2>6, <1>b DEF GateInv
<1>12. CASE Gate!Reload
  BY <1>12, <1>a, <1>b DEF Gate!Reload, GateInv
<1>13. CASE UNCHANGED Gate!vars
  BY <1>13, <1>a, <1>b DEF Gate!vars, GateInv
<1> QED
  BY <1>1, <1>2, <1>3, <1>4, <1>5, <1>6, <1>7, <1>8, <1>9, <1>10, <1>11, <1>12, <1>13
  DEF Gate!Next

\* The decision of evaluate is among what is stated about the command, and the
\* strictest of it; a rule that would soften has no word, whoever put it there.
LEMMA PolicyHardens == RulesTyped => Gate!PolicyOnlyHardens
<1> SUFFICES ASSUME RulesTyped, NEW c \in Commands
             PROVE  LET stated == {rules[r].level :
                          r \in {s \in DOMAIN rules : rules[s].cmd \in {c, Gate!Any}}}
                    IN  /\ Gate!Evaluate(c) \in {Default[c]} \cup (IF custom THEN stated ELSE {})
                        /\ Gate!Evaluate(c) >= Default[c]
                        /\ custom => \A l \in stated : Gate!Evaluate(c) >= l
  BY DEF Gate!PolicyOnlyHardens
<1> DEFINE N == Cardinality(RuleIds)
           matching == {s \in DOMAIN rules : rules[s].cmd \in {c, Gate!Any}}
           stated == {rules[r].level : r \in matching}
<1>1. N \in Nat /\ DOMAIN rules \subseteq 1 .. N
  BY RuleIdsAreNumbers DEF RulesTyped
<1>2. /\ Strictest(c, N) \in Stated(c, N)
      /\ \A l \in Stated(c, N) : l <= Strictest(c, N)
      /\ Stated(c, N) \subseteq 0 .. 255
  <2> HIDE DEF N
  <2> QED BY <1>1, StrictestIsStated
<1>3. Default[c] \in Stated(c, N)
  BY DEF Stated
<1>4. ASSUME NEW r \in matching PROVE rules[r].level = 0 \/ rules[r].level \in Stated(c, N)
  <2>1. CASE rules[r].level = 0
    BY <2>1
  <2>2. CASE rules[r].level # 0
    <3>1. r \in DOMAIN rules /\ r <= N
      <4> HIDE DEF N
      <4> QED BY <1>1
    <3>2. r \in Speaking(c, N)
      <4> HIDE DEF N
      <4> QED BY <2>2, <3>1
          DEF Speaking, Gate!IsValidHardening, Gate!Matches, Gate!Allow
    <3> QED BY <3>2 DEF Stated
  <2> QED BY <2>1, <2>2
<1>5. Stated(c, N) \subseteq {Default[c]} \cup stated
  BY DEF Stated, Speaking, Gate!Matches
<1>6. Gate!Evaluate(c) = IF custom THEN Strictest(c, N) ELSE Default[c]
  BY EvaluateIsStrictest
<1>7. CASE custom
  <2>1. Gate!Evaluate(c) \in {Default[c]} \cup stated
    <3> HIDE DEF N, stated
    <3> QED BY <1>2, <1>5, <1>6, <1>7
  <2>2. Gate!Evaluate(c) >= Default[c]
    <3> HIDE DEF N
    <3> QED BY <1>2, <1>3, <1>6, <1>7
  <2>3. ASSUME NEW r \in matching PROVE Gate!Evaluate(c) >= rules[r].level
    <3> HIDE DEF N, matching
    <3> QED BY <1>2, <1>4, <1>6, <1>7
  <2> QED BY <1>7, <2>1, <2>2, <2>3
<1>8. CASE ~custom
  <2>1. Default[c] >= Default[c]
    BY GateAssumption DEF Gate!ApprovalAssumption, Gate!Allow
  <2> QED BY <1>6, <1>8, <2>1
<1> QED BY <1>7, <1>8

\* Whatever windows, phone and user do in whatever order, a command runs under
\* an approval as often as it was approved with these arguments, never by one that
\* was rejected, used or too old (capability.rs); and the loop of policy.rs ends
\* with the strictest of the default and the rules that match.
THEOREM GateIsKeptAlways == Gate!Spec => []GateIsKept
<1>1. GateInv => GateIsKept
  <2>1. GateInv => Gate!RunsAreApproved
    BY GateCardinality
    DEF GateInv, RowsAreSound, RowIsSound, RunsAreRows, SpentOn, Gate!RunsAreApproved, Gate!Used
  <2>2. GateInv => Gate!PolicyOnlyHardens
    BY PolicyHardens DEF GateInv
  <2> QED BY <2>1, <2>2 DEF GateIsKept, Gate!GateIsKept
<1> QED BY <1>1, GateInit, GateStep, PTL DEF Gate!Spec

----------------------------------------------------------------------------
(* Cards                                                                   *)

\* What is known of a frame: its age by our clock, and what it says.
FramesTyped ==
  /\ DOMAIN frame = Frames
  /\ \A f \in Frames :
       /\ DOMAIN frame[f] = {"age", "card", "decision", "acted"}
       /\ frame[f].age \in (-Skew .. 3 * Skew + 1) \cup {Inbox!Unsent}
       /\ frame[f].acted \in {"never", "before", "now"}
  /\ update \in Frames \cup {Inbox!NoFrame}

\* A card has its four fields.
CardsTyped ==
  /\ DOMAIN card = CardIds
  /\ \A c \in CardIds : DOMAIN card[c] = {"status", "decision", "snooze", "reopened"}

\* The cache of nonces: each one once, and only of frames that were sent.
CacheTyped ==
  /\ \E n \in 0 .. CacheSize : cache \in [1 .. n -> Frames]
  /\ \A i, j \in DOMAIN cache : cache[i] = cache[j] => i = j
  /\ \A i \in DOMAIN cache : frame[cache[i]].age # Inbox!Unsent

\* A nonce in front came later: its frame was good then, and the one behind it was
\* sent, so that it is older by no more than twice the skew.
CacheInOrder ==
  \A i, j \in DOMAIN cache : i < j =>
    frame[cache[i]].age <= frame[cache[j]].age + 2 * Skew

\* The frames the cache must have room for.
RecentFrames == {f \in Frames : Inbox!Recent(f)}
RecentFit == IsFiniteSet(RecentFrames) /\ Cardinality(RecentFrames) <= CacheSize

\* A frame that was taken in since the start is remembered for as long as its time
\* is good.
Taken(f) == frame[f].acted = "now" \/ update = f
TakenIsSeen ==
  \A f \in Frames : Taken(f) =>
    /\ frame[f].age # Inbox!Unsent
    /\ frame[f].age <= Skew => \E i \in DOMAIN cache : cache[i] = f

\* The frame whose decision is being written has not acted since the start.
UpdateIsFirst == update # Inbox!NoFrame => frame[update].acted \in {"never", "before"}

\* The inductive invariant of the inbox.
InboxInv ==
  /\ FramesTyped /\ CacheTyped /\ CacheInOrder /\ RecentFit /\ TakenIsSeen /\ UpdateIsFirst
  /\ CardsTyped /\ Inbox!DecisionIsLogged

\* The bounds as numbers.
LEMMA InboxBounds ==
  /\ CacheSize \in Nat \ {0} /\ Skew \in Nat \ {0} /\ SnoozeTicks \in Nat \ {0}
  /\ Inbox!NoFrame \notin Frames
BY InboxAssumption DEF Inbox!CardsAssumption

LEMMA InboxCardinality == \A S : Inbox!Cardinality(S) = Cardinality(S)
BY DEF Inbox!Cardinality, Cardinality

\* At first no frame was sent, and no card is decided.
LEMMA InboxInit == Inbox!Init => InboxInv
<1> SUFFICES ASSUME Inbox!Init PROVE InboxInv
  OBVIOUS
<1> USE InboxBounds
<1>1. /\ FramesTyped
      /\ \A f \in Frames : frame[f].age = Inbox!Unsent /\ frame[f].acted = "never"
      /\ update = Inbox!NoFrame
  BY DEF Inbox!Init, FramesTyped, Inbox!NoFrame
<1>2. cache \in [1 .. 0 -> Frames]
  BY DEF Inbox!Init
<1>3. RecentFrames = {}
  BY <1>1 DEF RecentFrames, Inbox!Recent, Inbox!Unsent
<1>4. RecentFit
  BY <1>3, FS_EmptySet DEF RecentFit
<1>5. CacheTyped /\ CacheInOrder
  <2>1. DOMAIN cache = {}
    BY <1>2
  <2>2. 0 \in 0 .. CacheSize
    OBVIOUS
  <2> QED BY <1>2, <2>1, <2>2 DEF CacheTyped, CacheInOrder
<1>6. TakenIsSeen /\ UpdateIsFirst
  BY <1>1 DEF TakenIsSeen, Taken, UpdateIsFirst, Inbox!NoFrame
<1>7. Inbox!DecisionIsLogged
  BY DEF Inbox!Init, Inbox!DecisionIsLogged, Inbox!Undecided
<1>8. CardsTyped
  BY DEF Inbox!Init, CardsTyped, Inbox!Undecided
<1> QED BY <1>1, <1>4, <1>5, <1>6, <1>7, <1>8 DEF InboxInv

\* The cache after a frame has come: its nonce in front of the others, and the
\* last one gone if there was no room.
LEMMA CacheAfter ==
  ASSUME InboxInv, NEW f \in Frames, Inbox!Receive(f), NEW n \in Nat, DOMAIN cache = 1 .. n
  PROVE  \E k \in 1 .. CacheSize :
           /\ k = IF n < CacheSize THEN n + 1 ELSE CacheSize
           /\ cache' \in [1 .. k -> Frames]
           /\ cache'[1] = f
           /\ \A i \in 2 .. k : cache'[i] = cache[i - 1]
<1> USE InboxBounds
<1>1. cache \in Seq(Frames) /\ Len(cache) = n
  BY DEF InboxInv, CacheTyped
<1> DEFINE k == IF n < CacheSize THEN n + 1 ELSE CacheSize
<1> DEFINE s == <<f>> \o cache
<1>2. cache' = SubSeq(s, 1, k)
  BY <1>1 DEF Inbox!Receive
<1>3. /\ s \in Seq(Frames) /\ Len(s) = n + 1 /\ s[1] = f
      /\ \A i \in 2 .. n + 1 : s[i] = cache[i - 1]
  <2>1. <<f>> \in Seq(Frames) /\ Len(<<f>>) = 1 /\ <<f>>[1] = f
    OBVIOUS
  <2> QED BY <1>1, <2>1
<1>4. k \in 1 .. CacheSize /\ k <= n + 1
  OBVIOUS
<1>5. /\ cache' \in [1 .. k -> Frames]
      /\ \A i \in 1 .. k : cache'[i] = s[i]
  <2> HIDE DEF s, k
  <2>1. /\ Len(SubSeq(s, 1, k)) = k /\ SubSeq(s, 1, k) \in Seq(Frames)
        /\ \A i \in 1 .. k : SubSeq(s, 1, k)[i] = s[i]
    BY <1>3, <1>4
  <2>2. cache' \in Seq(Frames) /\ Len(cache') = k
    BY <1>2, <2>1
  <2>3. cache' \in [1 .. k -> Frames]
    BY <2>2
  <2>4. \A i \in 1 .. k : cache'[i] = s[i]
    BY <1>2, <2>1
  <2> QED BY <2>3, <2>4
<1>6. cache'[1] = f /\ \A i \in 2 .. k : cache'[i] = cache[i - 1]
  <2> HIDE DEF s, k
  <2> QED BY <1>3, <1>4, <1>5
<1> QED BY <1>4, <1>5, <1>6

\* A step that decides nothing leaves what is on record on record.
LEMMA NothingDecided ==
  ASSUME InboxInv,
         \A c \in CardIds : card'[c].decision = card[c].decision,
         log \subseteq log',
         \A f \in Frames : /\ frame[f].acted # "never" => frame'[f].acted # "never"
                           /\ frame'[f].card = frame[f].card
                           /\ frame'[f].decision = frame[f].decision
  PROVE  Inbox!DecisionIsLogged'
<1> SUFFICES ASSUME NEW c \in CardIds, card'[c].decision # "none"
             PROVE  \/ \E k \in CardKeys : <<c, k, card'[c].decision>> \in log'
                    \/ \E f \in Frames : /\ frame'[f].acted # "never" /\ frame'[f].card = c
                                         /\ frame'[f].decision = card'[c].decision
  BY DEF Inbox!DecisionIsLogged
<1>1. card[c].decision # "none"
  OBVIOUS
<1>2. CASE \E k \in CardKeys : <<c, k, card[c].decision>> \in log
  BY <1>2
<1>3. CASE \E f \in Frames : /\ frame[f].acted # "never" /\ frame[f].card = c
                             /\ frame[f].decision = card[c].decision
  BY <1>3
<1> QED BY <1>1, <1>2, <1>3 DEF InboxInv, Inbox!DecisionIsLogged

\* A frame that is taken in finds room in the cache, and what was taken in before
\* it is remembered for as long as its time is good: all that stands in front of
\* such a nonce is recent, and the cache has room for what is.
LEMMA ReceiveStep ==
  ASSUME InboxInv, NEW f \in Frames, Inbox!Receive(f)
  PROVE  InboxInv'
<1> USE InboxBounds
<1>1. /\ update = Inbox!NoFrame /\ update' = f /\ UNCHANGED <<card, log, frame>>
      /\ frame[f].age \in -Skew .. Skew
      /\ \A i \in DOMAIN cache : cache[i] # f
  BY DEF Inbox!Receive, Inbox!Verify, Inbox!ToSet
<1>2. PICK n \in 0 .. CacheSize : cache \in [1 .. n -> Frames]
  BY DEF InboxInv, CacheTyped
<1>3. DOMAIN cache = 1 .. n
  BY <1>2
<1>4. PICK k \in 1 .. CacheSize :
        /\ k = IF n < CacheSize THEN n + 1 ELSE CacheSize
        /\ cache' \in [1 .. k -> Frames]
        /\ cache'[1] = f
        /\ \A i \in 2 .. k : cache'[i] = cache[i - 1]
  BY <1>3, CacheAfter
<1>5. DOMAIN cache' = 1 .. k
  BY <1>4
<1>6. frame[f].age # Inbox!Unsent
  BY <1>1 DEF Inbox!Unsent
<1>7. FramesTyped' /\ RecentFit' /\ CardsTyped'
  BY <1>1 DEF InboxInv, FramesTyped, RecentFit, RecentFrames, Inbox!Recent, CardsTyped
<1>8. \A i \in 2 .. k : i - 1 \in 1 .. n
  BY <1>2, <1>4
<1>9. CacheTyped'
  <2>1. \E m \in 0 .. CacheSize : cache' \in [1 .. m -> Frames]
    <3>1. k \in 0 .. CacheSize
      OBVIOUS
    <3> QED BY <1>4, <3>1
  <2>2. ASSUME NEW i \in 1 .. k, NEW j \in 1 .. k, cache'[i] = cache'[j] PROVE i = j
    <3>1. \A h \in 2 .. k : cache'[h] = cache[h - 1] /\ cache[h - 1] # f
      BY <1>1, <1>3, <1>4, <1>8
    <3>2. CASE i = 1 \/ j = 1
      BY <1>4, <2>2, <3>1, <3>2
    <3>3. CASE i # 1 /\ j # 1
      <4>1. cache[i - 1] = cache[j - 1] /\ i - 1 \in DOMAIN cache /\ j - 1 \in DOMAIN cache
        BY <1>3, <1>8, <2>2, <3>1, <3>3
      <4>2. i - 1 = j - 1
        BY <4>1 DEF InboxInv, CacheTyped
      <4> QED BY <4>2
    <3> QED BY <3>2, <3>3
  <2>3. ASSUME NEW i \in 1 .. k PROVE frame'[cache'[i]].age # Inbox!Unsent
    <3>1. CASE i = 1
      BY <1>1, <1>4, <1>6, <3>1
    <3>2. CASE i # 1
      <4>1. cache'[i] = cache[i - 1] /\ i - 1 \in DOMAIN cache
        BY <1>3, <1>4, <1>8, <3>2
      <4> QED BY <1>1, <4>1 DEF InboxInv, CacheTyped
    <3> QED BY <3>1, <3>2
  <2> QED BY <1>5, <2>1, <2>2, <2>3 DEF CacheTyped, Inbox!Unsent
<1>10. CacheInOrder'
  <2> SUFFICES ASSUME NEW i \in 1 .. k, NEW j \in 1 .. k, i < j
               PROVE  frame[cache'[i]].age <= frame[cache'[j]].age + 2 * Skew
    BY <1>1, <1>5 DEF CacheInOrder
  <2>1. cache'[j] = cache[j - 1] /\ j - 1 \in DOMAIN cache
    BY <1>3, <1>4, <1>8
  <2>2. CASE i = 1
    <3>1. frame[cache'[j]].age \in Int /\ frame[cache'[j]].age >= -Skew
      BY <1>2, <1>3, <2>1 DEF InboxInv, FramesTyped, Inbox!Unsent
    <3> QED BY <1>1, <1>4, <2>2, <3>1
  <2>3. CASE i # 1
    <3>1. cache'[i] = cache[i - 1] /\ i - 1 \in DOMAIN cache /\ i - 1 < j - 1
      BY <1>3, <1>4, <1>8, <2>3
    <3> QED BY <2>1, <3>1 DEF InboxInv, CacheInOrder
  <2> QED BY <2>2, <2>3
<1>11. TakenIsSeen'
  <2> SUFFICES ASSUME NEW g \in Frames, Taken(g)'
               PROVE  /\ frame[g].age # Inbox!Unsent
                      /\ frame[g].age <= Skew => \E i \in 1 .. k : cache'[i] = g
    BY <1>1, <1>5 DEF TakenIsSeen, Inbox!Unsent
  <2>1. CASE g = f
    BY <1>4, <1>6, <2>1
  <2>2. CASE g # f
    <3>1. Taken(g)
      BY <1>1, <2>2 DEF Taken
    <3>2. frame[g].age # Inbox!Unsent
      BY <3>1 DEF InboxInv, TakenIsSeen
    <3>3. ASSUME frame[g].age <= Skew PROVE \E i \in 1 .. k : cache'[i] = g
      <4>1. PICK j \in 1 .. n : cache[j] = g
        BY <1>3, <3>1, <3>3 DEF InboxInv, TakenIsSeen
      <4> DEFINE front == [i \in 1 .. j + 1 |-> IF i = 1 THEN f ELSE cache[i - 1]]
      <4>2. \A i \in 1 .. j : cache[i] \in RecentFrames
        <5> TAKE i \in 1 .. j
        <5>1. cache[i] \in Frames /\ i \in DOMAIN cache /\ j \in DOMAIN cache
          BY <1>2, <1>3
        <5>2. frame[cache[i]].age <= frame[cache[j]].age + 2 * Skew \/ i = j
          BY <5>1 DEF InboxInv, CacheInOrder
        <5>3. frame[cache[i]].age \in Int /\ frame[g].age \in Int
          BY <5>1 DEF InboxInv, FramesTyped, Inbox!Unsent
        <5>4. frame[cache[i]].age <= 3 * Skew
          BY <3>3, <4>1, <5>2, <5>3
        <5> QED BY <5>1, <5>4 DEF RecentFrames, Inbox!Recent
      <4>3. f \in RecentFrames
        BY <1>1 DEF RecentFrames, Inbox!Recent
      <4>4. front \in Injection(1 .. j + 1, RecentFrames)
        <5>1. \A i \in 2 .. j + 1 : i - 1 \in 1 .. j /\ i - 1 \in DOMAIN cache
          BY <1>3
        <5>2. front \in [1 .. j + 1 -> RecentFrames]
          BY <4>2, <4>3, <5>1
        <5>3. ASSUME NEW a \in 1 .. j + 1, NEW b \in 1 .. j + 1, front[a] = front[b]
              PROVE  a = b
          <6>1. CASE a = 1 \/ b = 1
            BY <1>1, <5>1, <5>3, <6>1
          <6>2. CASE a # 1 /\ b # 1
            <7>1. /\ cache[a - 1] = cache[b - 1]
                  /\ a - 1 \in DOMAIN cache /\ b - 1 \in DOMAIN cache
              BY <5>1, <5>3, <6>2
            <7>2. a - 1 = b - 1
              BY <7>1 DEF InboxInv, CacheTyped
            <7> QED BY <7>2
          <6> QED BY <6>1, <6>2
        <5> HIDE DEF front
        <5> QED BY <5>2, <5>3 DEF Injection, IsInjective
      <4>5. Cardinality(1 .. j + 1) <= Cardinality(RecentFrames)
        <5> HIDE DEF front
        <5> QED BY <4>4, FS_Injection DEF InboxInv, RecentFit
      <4>6. Cardinality(1 .. j + 1) = j + 1
        BY FS_Interval
      <4>7. Cardinality(RecentFrames) \in Nat /\ Cardinality(RecentFrames) <= CacheSize
        BY FS_CardinalityType DEF InboxInv, RecentFit
      <4>8. j + 1 \in 2 .. k
        BY <1>4, <4>5, <4>6, <4>7
      <4> QED BY <1>4, <4>1, <4>8
    <3> QED BY <3>2, <3>3
  <2> QED BY <2>1, <2>2
<1>12. UpdateIsFirst'
  <2>1. ~Taken(f)
    BY <1>1 DEF InboxInv, TakenIsSeen
  <2>2. frame[f].acted \in {"never", "before"}
    BY <2>1 DEF Taken, InboxInv, FramesTyped
  <2> QED BY <1>1, <2>2 DEF UpdateIsFirst
<1>13. Inbox!DecisionIsLogged'
  BY <1>1 DEF InboxInv, Inbox!DecisionIsLogged
<1> QED BY <1>7, <1>9, <1>10, <1>11, <1>12, <1>13 DEF InboxInv

\* Every step keeps the invariant: a decision of the dashboard, an activity, a
\* frame sent, taken in, applied or lost, the clock, and a restart.
LEMMA InboxStep == InboxInv /\ [Inbox!Next]_(Inbox!cardVars) => InboxInv'
<1> SUFFICES ASSUME InboxInv, [Inbox!Next]_(Inbox!cardVars) PROVE InboxInv'
  OBVIOUS
<1> USE InboxBounds
<1>a. ASSUME UNCHANGED <<frame, cache, update>>
      PROVE  /\ FramesTyped' /\ CacheTyped' /\ CacheInOrder' /\ RecentFit'
             /\ TakenIsSeen' /\ UpdateIsFirst'
  BY <1>a DEF InboxInv, FramesTyped, CacheTyped, CacheInOrder, RecentFit, RecentFrames,
              Inbox!Recent, TakenIsSeen, Taken, UpdateIsFirst
<1>1. ASSUME NEW c \in CardIds, NEW k \in CardKeys, NEW d \in Inbox!Decisions,
             Inbox!Decide(c, k, d)
      PROVE  InboxInv'
  <2>1. /\ log' = log \cup {<<c, k, d>>} /\ UNCHANGED <<frame, cache, update>>
        /\ \A x \in CardIds : x # c => card'[x] = card[x]
        /\ card'[c].decision = IF d = "read" THEN card[c].decision ELSE d
        /\ CardsTyped'
    BY <1>1 DEF Inbox!Decide, Inbox!Decided, InboxInv, CardsTyped
  <2>2. Inbox!DecisionIsLogged'
    <3> SUFFICES ASSUME NEW x \in CardIds, card'[x].decision # "none"
                 PROVE  \/ \E key \in CardKeys : <<x, key, card'[x].decision>> \in log'
                        \/ \E f \in Frames : /\ frame[f].acted # "never" /\ frame[f].card = x
                                             /\ frame[f].decision = card'[x].decision
      BY <2>1 DEF Inbox!DecisionIsLogged
    <3>1. CASE x = c /\ d # "read"
      BY <2>1, <3>1
    <3>2. CASE x # c \/ d = "read"
      <4>1. card'[x].decision = card[x].decision /\ log \subseteq log'
        BY <2>1, <3>2
      <4> QED BY <4>1 DEF InboxInv, Inbox!DecisionIsLogged
    <3> QED BY <3>1, <3>2
  <2> QED BY <1>a, <2>1, <2>2 DEF InboxInv
<1>2. ASSUME NEW c \in CardIds, Inbox!RecordActivity(c) PROVE InboxInv'
  <2>1. /\ UNCHANGED <<log, frame, cache, update>> /\ CardsTyped'
        /\ \A x \in CardIds : card'[x].decision = card[x].decision
    BY <1>2 DEF Inbox!RecordActivity, InboxInv, CardsTyped
  <2>2. Inbox!DecisionIsLogged'
    BY <2>1, NothingDecided
  <2> QED BY <1>a, <2>1, <2>2 DEF InboxInv
<1>3. ASSUME NEW f \in Frames, Inbox!Receive(f) PROVE InboxInv'
  BY <1>3, ReceiveStep
<1>4. ASSUME NEW f \in Frames, NEW age \in -Skew .. 0, Inbox!Send(f, age) PROVE InboxInv'
  <2>1. /\ frame[f].age = Inbox!Unsent /\ UNCHANGED <<card, log, cache, update>>
        /\ frame' = [frame EXCEPT ![f].age = age]
        /\ Cardinality(RecentFrames) < CacheSize
    BY <1>4, InboxCardinality DEF Inbox!Send, RecentFrames
  <2>2. /\ DOMAIN frame' = Frames
        /\ \A g \in Frames : g # f => frame'[g] = frame[g]
        /\ DOMAIN frame'[f] = DOMAIN frame[f] /\ frame'[f].age = age
        /\ frame'[f].acted = frame[f].acted /\ frame'[f].card = frame[f].card
        /\ frame'[f].decision = frame[f].decision
    BY <2>1 DEF InboxInv, FramesTyped
  <2>3. FramesTyped'
    BY <2>1, <2>2 DEF InboxInv, FramesTyped, Inbox!Unsent
  <2>4. ~Taken(f) /\ \A i \in DOMAIN cache : cache[i] # f
    BY <2>1 DEF InboxInv, TakenIsSeen, CacheTyped
  <2>5. \A i \in DOMAIN cache : cache[i] \in Frames /\ frame'[cache[i]] = frame[cache[i]]
    BY <2>2, <2>4 DEF InboxInv, CacheTyped
  <2>6. CacheTyped' /\ CacheInOrder'
    BY <2>1, <2>5 DEF InboxInv, CacheTyped, CacheInOrder, Inbox!Unsent
  <2>7. RecentFit'
    <3>1. RecentFrames' = RecentFrames \cup {f}
      BY <2>2 DEF RecentFrames, Inbox!Recent
    <3>2. IsFiniteSet(RecentFrames) /\ Cardinality(RecentFrames) \in Nat
      BY FS_CardinalityType DEF InboxInv, RecentFit
    <3>3. /\ IsFiniteSet(RecentFrames \cup {f})
          /\ Cardinality(RecentFrames \cup {f}) <= Cardinality(RecentFrames) + 1
      BY <3>2, FS_AddElement
    <3>4. Cardinality(RecentFrames \cup {f}) <= CacheSize
      <4>1. Cardinality(RecentFrames \cup {f}) \in Nat
        BY <3>3, FS_CardinalityType
      <4> QED BY <2>1, <3>2, <3>3, <4>1
    <3> QED BY <3>1, <3>3, <3>4 DEF RecentFit
  <2>8. TakenIsSeen' /\ UpdateIsFirst'
    <3>1. \A g \in Frames : Taken(g)' => Taken(g) /\ g # f
      BY <2>1, <2>2, <2>4 DEF Taken
    <3> QED BY <2>1, <2>2, <2>4, <3>1
        DEF InboxInv, TakenIsSeen, UpdateIsFirst, Taken, FramesTyped, Inbox!Unsent
  <2>9. Inbox!DecisionIsLogged' /\ CardsTyped'
    <3>1. Inbox!DecisionIsLogged'
      BY <2>1, <2>2, NothingDecided
    <3> QED BY <2>1, <3>1 DEF InboxInv, CardsTyped
  <2> QED BY <2>3, <2>6, <2>7, <2>8, <2>9 DEF InboxInv
<1>5. CASE Inbox!ListCards
  <2>1. /\ UNCHANGED <<log, frame, cache, update>> /\ CardsTyped'
        /\ \A x \in CardIds : card'[x].decision = card[x].decision
    BY <1>5 DEF Inbox!ListCards, InboxInv, CardsTyped
  <2>2. Inbox!DecisionIsLogged'
    BY <2>1, NothingDecided
  <2> QED BY <1>a, <2>1, <2>2 DEF InboxInv
<1>6. CASE Inbox!ApplyApproval
  <2> DEFINE u == update
  <2>1. /\ u \in Frames /\ frame[u].acted \in {"never", "before"} /\ update' = Inbox!NoFrame
        /\ frame' = [frame EXCEPT ![u].acted =
                        IF @ \in {"never", "before"} THEN "now" ELSE "again"]
        /\ card' = [card EXCEPT ![frame[u].card].decision = frame[u].decision,
              ![frame[u].card].status = IF frame[u].decision = "snoozed" THEN "open" ELSE "closed"]
        /\ UNCHANGED <<log, cache>>
    BY <1>6 DEF Inbox!ApplyApproval, InboxInv, FramesTyped, UpdateIsFirst
  <2>2. /\ DOMAIN frame' = Frames
        /\ \A g \in Frames : /\ g # u => frame'[g] = frame[g]
                             /\ DOMAIN frame'[g] = DOMAIN frame[g]
                             /\ frame'[g].age = frame[g].age
                             /\ frame'[g].card = frame[g].card
                             /\ frame'[g].decision = frame[g].decision
        /\ frame'[u].acted = "now"
    BY <2>1 DEF InboxInv, FramesTyped
  <2>3. FramesTyped' /\ RecentFit'
    <3>1. FramesTyped'
      BY <2>1, <2>2 DEF InboxInv, FramesTyped, Inbox!Unsent
    <3>2. RecentFrames' = RecentFrames
      BY <2>2 DEF RecentFrames, Inbox!Recent
    <3> QED BY <3>1, <3>2 DEF InboxInv, RecentFit
  <2>4. CacheTyped' /\ CacheInOrder'
    <3>1. \A i \in DOMAIN cache : cache[i] \in Frames
      BY DEF InboxInv, CacheTyped
    <3> QED BY <2>1, <2>2, <3>1 DEF InboxInv, CacheTyped, CacheInOrder, Inbox!Unsent
  <2>5. TakenIsSeen' /\ UpdateIsFirst'
    <3>1. \A g \in Frames : Taken(g)' => Taken(g)
      BY <2>1, <2>2 DEF Taken
    <3> QED BY <2>1, <2>2, <3>1 DEF InboxInv, TakenIsSeen, UpdateIsFirst, Inbox!Unsent
  <2>6. /\ CardsTyped'
        /\ \A c \in CardIds : card'[c].decision =
             IF c = frame[u].card THEN frame[u].decision ELSE card[c].decision
    BY <2>1 DEF InboxInv, CardsTyped
  <2>7. Inbox!DecisionIsLogged'
    <3> SUFFICES ASSUME NEW x \in CardIds, card'[x].decision # "none"
                 PROVE  \/ \E key \in CardKeys : <<x, key, card'[x].decision>> \in log'
                        \/ \E f \in Frames : /\ frame'[f].acted # "never" /\ frame'[f].card = x
                                             /\ frame'[f].decision = card'[x].decision
      BY DEF Inbox!DecisionIsLogged
    <3>1. CASE x = frame[u].card
      <4>1. u \in Frames /\ frame'[u].acted # "never" /\ frame'[u].card = x
        BY <2>1, <2>2, <3>1
      <4>2. frame'[u].decision = card'[x].decision
        <5>1. card'[x].decision = frame[u].decision
          BY <2>6, <3>1
        <5>2. frame'[u].decision = frame[u].decision
          BY <2>2, <4>1
        <5> QED BY <5>1, <5>2
      <4> HIDE DEF u
      <4> QED BY <4>1, <4>2
    <3>2. CASE x # frame[u].card
      <4>1. card'[x].decision = card[x].decision /\ log' = log
        BY <2>1, <2>6, <3>2
      <4>2. \A f \in Frames : frame[f].acted # "never" => frame'[f].acted # "never"
        BY <2>1, <2>2
      <4>3. \/ \E key \in CardKeys : <<x, key, card[x].decision>> \in log
            \/ \E f \in Frames : /\ frame[f].acted # "never" /\ frame[f].card = x
                                 /\ frame[f].decision = card[x].decision
        BY <4>1 DEF InboxInv, Inbox!DecisionIsLogged
      <4> QED BY <2>2, <4>1, <4>2, <4>3
    <3> QED BY <3>1, <3>2
  <2> QED BY <2>3, <2>4, <2>5, <2>6, <2>7 DEF InboxInv
<1>7. CASE Inbox!UpdateFails
  <2>1. /\ UNCHANGED <<card, log, frame, cache>> /\ update' = Inbox!NoFrame
    BY <1>7 DEF Inbox!UpdateFails
  <2>2. \A g \in Frames : Taken(g)' => Taken(g)
    BY <2>1 DEF Taken
  <2>3. /\ FramesTyped' /\ CacheTyped' /\ CacheInOrder' /\ RecentFit'
    BY <2>1 DEF InboxInv, FramesTyped, CacheTyped, CacheInOrder, RecentFit, RecentFrames,
                Inbox!Recent
  <2>4. TakenIsSeen' /\ UpdateIsFirst'
    BY <2>1, <2>2 DEF InboxInv, TakenIsSeen, UpdateIsFirst
  <2>5. CardsTyped' /\ Inbox!DecisionIsLogged'
    BY <2>1 DEF InboxInv, CardsTyped, Inbox!DecisionIsLogged
  <2> QED BY <2>3, <2>4, <2>5 DEF InboxInv
<1>8. CASE Inbox!Tick
  <2>1. /\ UNCHANGED <<log, cache, update>>
        /\ frame' = [f \in Frames |-> IF frame[f].age <= 3 * Skew
                                      THEN [frame[f] EXCEPT !.age = @ + 1] ELSE frame[f]]
        /\ card' = [c \in CardIds |-> IF card[c].snooze \in 1 .. SnoozeTicks
                                      THEN [card[c] EXCEPT !.snooze = @ - 1] ELSE card[c]]
    BY <1>8 DEF Inbox!Tick, Inbox!Recent
  <2>2. ASSUME NEW f \in Frames
        PROVE  /\ DOMAIN frame'[f] = DOMAIN frame[f]
               /\ frame'[f].age = IF frame[f].age <= 3 * Skew THEN frame[f].age + 1 ELSE frame[f].age
               /\ frame'[f].acted = frame[f].acted /\ frame'[f].card = frame[f].card
               /\ frame'[f].decision = frame[f].decision
    BY <2>1 DEF InboxInv, FramesTyped
  <2>3. /\ CardsTyped'
        /\ \A c \in CardIds : card'[c].decision = card[c].decision
    BY <2>1 DEF InboxInv, CardsTyped
  <2>4. ASSUME NEW f \in Frames
        PROVE  /\ frame[f].age \in (-Skew .. 3 * Skew + 1) \cup {3 * Skew + 2}
               /\ frame'[f].age \in (-Skew .. 3 * Skew + 1) \cup {3 * Skew + 2}
               /\ frame'[f].age = 3 * Skew + 2 <=> frame[f].age = 3 * Skew + 2
    <3>1. frame[f].age \in (-Skew .. 3 * Skew + 1) \cup {3 * Skew + 2}
      BY DEF InboxInv, FramesTyped, Inbox!Unsent
    <3> QED BY <2>2, <3>1
  <2>5. FramesTyped'
    <3>1. DOMAIN frame' = Frames
      BY <2>1
    <3> QED BY <2>1, <2>2, <2>4, <3>1 DEF InboxInv, FramesTyped, Inbox!Unsent
  <2>6. \A i \in DOMAIN cache : cache[i] \in Frames /\ frame[cache[i]].age # 3 * Skew + 2
    BY DEF InboxInv, CacheTyped, Inbox!Unsent
  <2>7. CacheTyped'
    BY <2>1, <2>4, <2>6 DEF InboxInv, CacheTyped, Inbox!Unsent
  <2>8. CacheInOrder'
    <3> SUFFICES ASSUME NEW i \in DOMAIN cache, NEW j \in DOMAIN cache, i < j
                 PROVE  frame'[cache[i]].age <= frame'[cache[j]].age + 2 * Skew
      BY <2>1 DEF CacheInOrder
    <3>1. frame[cache[i]].age <= frame[cache[j]].age + 2 * Skew
      BY DEF InboxInv, CacheInOrder
    <3> QED BY <2>2, <2>4, <2>6, <3>1
  <2>9. RecentFit'
    <3>1. RecentFrames' \subseteq RecentFrames
      BY <2>2, <2>4 DEF RecentFrames, Inbox!Recent
    <3>2. /\ IsFiniteSet(RecentFrames') /\ Cardinality(RecentFrames') <= Cardinality(RecentFrames)
          /\ Cardinality(RecentFrames') \in Nat /\ Cardinality(RecentFrames) \in Nat
      BY <3>1, FS_Subset, FS_CardinalityType DEF InboxInv, RecentFit
    <3> QED BY <3>2 DEF InboxInv, RecentFit
  <2>10. TakenIsSeen' /\ UpdateIsFirst'
    <3>1. \A g \in Frames : Taken(g)' => Taken(g)
      BY <2>1, <2>2 DEF Taken
    <3>2. \A g \in Frames : frame'[g].age <= Skew => frame[g].age <= Skew
      BY <2>2, <2>4
    <3>3. UpdateIsFirst'
      BY <2>1, <2>2 DEF InboxInv, UpdateIsFirst, FramesTyped
    <3> QED BY <2>1, <2>4, <3>1, <3>2, <3>3 DEF InboxInv, TakenIsSeen, Inbox!Unsent
  <2>11. Inbox!DecisionIsLogged'
    BY <2>1, <2>2, <2>3, NothingDecided
  <2> QED BY <2>3, <2>5, <2>7, <2>8, <2>9, <2>10, <2>11 DEF InboxInv
<1>9. CASE Inbox!Restart
  <2>1. /\ UNCHANGED <<card, log>> /\ cache' = <<>> /\ update' = Inbox!NoFrame
        /\ frame' = [f \in Frames |-> IF frame[f].acted = "never"
                                      THEN frame[f] ELSE [frame[f] EXCEPT !.acted = "before"]]
    BY <1>9 DEF Inbox!Restart
  <2>2. /\ DOMAIN frame' = Frames
        /\ \A f \in Frames : /\ DOMAIN frame'[f] = DOMAIN frame[f]
                             /\ frame'[f].age = frame[f].age
                             /\ frame'[f].card = frame[f].card
                             /\ frame'[f].decision = frame[f].decision
                             /\ frame'[f].acted \in {"never", "before"}
                             /\ frame[f].acted # "never" => frame'[f].acted # "never"
    BY <2>1 DEF InboxInv, FramesTyped
  <2>3. FramesTyped' /\ RecentFit'
    <3>1. FramesTyped'
      BY <2>1, <2>2 DEF InboxInv, FramesTyped, Inbox!Unsent
    <3>2. RecentFrames' = RecentFrames
      BY <2>2 DEF RecentFrames, Inbox!Recent
    <3> QED BY <3>1, <3>2 DEF InboxInv, RecentFit
  <2>4. CacheTyped' /\ CacheInOrder'
    <3>1. cache' \in [1 .. 0 -> Frames] /\ DOMAIN cache' = {} /\ 0 \in 0 .. CacheSize
      BY <2>1
    <3> QED BY <3>1 DEF CacheTyped, CacheInOrder
  <2>5. TakenIsSeen' /\ UpdateIsFirst'
    <3>1. \A f \in Frames : ~Taken(f)'
      BY <2>1, <2>2 DEF Taken
    <3> QED BY <2>1, <3>1 DEF TakenIsSeen, UpdateIsFirst
  <2>6. CardsTyped' /\ Inbox!DecisionIsLogged'
    <3>1. Inbox!DecisionIsLogged'
      BY <2>1, <2>2, NothingDecided
    <3> QED BY <2>1, <3>1 DEF InboxInv, CardsTyped
  <2> QED BY <2>3, <2>4, <2>5, <2>6 DEF InboxInv
<1>10. CASE UNCHANGED Inbox!cardVars
  BY <1>10, <1>a DEF Inbox!cardVars, InboxInv, CardsTyped, Inbox!DecisionIsLogged
<1> QED
  BY <1>1, <1>2, <1>3, <1>4, <1>5, <1>6, <1>7, <1>8, <1>9, <1>10 DEF Inbox!Next

\* However often the network delivers a frame, in whatever order and however
\* late, it decides at most once between two starts; and every decision is one the
\* dashboard logged or one a frame made, whatever starts there were between
\* (mobile_bridge.rs, telegram_inbound.rs, commands.rs).
THEOREM DecisionsAreMadeOnce == Inbox!Spec => []DecisionsAreKept
<1>1. InboxInv => DecisionsAreKept
  BY DEF InboxInv, FramesTyped, DecisionsAreKept, Inbox!DecisionsAreKept, Inbox!FrameActsOnce
<1> QED BY <1>1, InboxInit, InboxStep, PTL DEF Inbox!Spec

----------------------------------------------------------------------------
(* Skills                                                                  *)

\* An import has no finished installation of its name beside it, and current is
\* not there; what it publishes is its source, under the hash it was gated with.
ImportIsAlone ==
  job.op = "import" =>
    /\ job.pc \in {"begin", "publish", "finalize", "undo"}
    /\ row.level = Skill!None /\ slot = Skill!None
    /\ job.src \in Sources /\ job.hash = Hash[job.src]
    /\ job.pc = "finalize" => flat = job.src

\* The directory an update or a roll-back is about to lead current to is there.
PointIsThere == job.pc = "point" => job.hash \in DOMAIN dirs \cup edited

\* A job is known by what it does, the step it is at, its source and its hash; the
\* row by its state, its level and its hash.
SkillTyped ==
  /\ job = [op |-> job.op, pc |-> job.pc, src |-> job.src, hash |-> job.hash]
  /\ row = [state |-> row.state, level |-> row.level, hash |-> row.hash]

\* The inductive invariant of a skill.
SkillInv == SkillTyped /\ InstalledIsWhole /\ ImportIsAlone /\ PointIsThere

\* At first nothing is installed.
LEMMA SkillInit == Skill!Init => SkillInv
BY DEF Skill!Init, SkillInv, SkillTyped, InstalledIsWhole, Skill!InstalledIsWhole, ImportIsAlone,
       PointIsThere, Skill!NoRow, Skill!Idle, Skill!None

\* Every step of an import, an update, a roll-back and a collection keeps the
\* invariant, and so do a failure, a crash and an edit between any two of them.
LEMMA SkillStep == SkillInv /\ [Skill!Next]_(Skill!vars) => SkillInv'
<1> SUFFICES ASSUME SkillInv, [Skill!Next]_(Skill!vars) PROVE SkillInv'
  OBVIOUS
<1> USE SkillAssumption
    DEF Skill!SkillsAssumption, SkillInv, SkillTyped, InstalledIsWhole, Skill!InstalledIsWhole, ImportIsAlone,
        PointIsThere, Skill!None, Skill!Idle, Skill!NoRow, Skill!At, Skill!Goto
<1>1. ASSUME NEW s \in Sources, Skill!Import(s) PROVE SkillInv'
  BY <1>1 DEF Skill!Import, Skill!OnDisk
<1>2. CASE Skill!BeginInstall
  BY <1>2 DEF Skill!BeginInstall
<1>3. CASE Skill!Publish
  BY <1>3 DEF Skill!Publish, Skill!OnDisk
<1>4. CASE Skill!FinalizeInstall
  BY <1>4 DEF Skill!FinalizeInstall
<1>5. CASE Skill!ImportFails
  BY <1>5 DEF Skill!ImportFails
<1>6. CASE Skill!UndoImport
  BY <1>6 DEF Skill!UndoImport
<1>7. CASE Skill!Promote
  BY <1>7 DEF Skill!Promote
<1>8. CASE Skill!SetEnabled
  BY <1>8 DEF Skill!SetEnabled
<1>9. ASSUME NEW s \in Sources, Skill!Update(s) PROVE SkillInv'
  BY <1>9 DEF Skill!Update
<1>10. CASE Skill!PublishVersion
  BY <1>10 DEF Skill!PublishVersion
<1>11. CASE Skill!PublishVersionFails
  BY <1>11 DEF Skill!PublishVersionFails
<1>12. ASSUME NEW h \in Skill!Hashes, Skill!RollBack(h) PROVE SkillInv'
  BY <1>12 DEF Skill!RollBack
<1>13. CASE Skill!PointCurrent
  BY <1>13 DEF Skill!PointCurrent
<1>14. CASE Skill!Record
  BY <1>14 DEF Skill!Record
<1>15. CASE Skill!GcDirs
  <2>1. PICK gone \in SUBSET Skill!GcVictims :
          dirs' = [h \in DOMAIN dirs \ gone |-> dirs[h]]
    BY <1>15 DEF Skill!GcDirs
  <2>2. slot \notin gone
    BY <2>1 DEF Skill!GcVictims
  <2> QED BY <1>15, <2>1, <2>2 DEF Skill!GcDirs
<1>16. CASE Skill!GcHalf
  <2>1. slot \notin Skill!GcVictims
    BY DEF Skill!GcVictims
  <2> QED BY <1>16, <2>1 DEF Skill!GcHalf
<1>17. CASE Skill!Crash
  BY <1>17 DEF Skill!Crash
<1>18. ASSUME NEW d \in Skill!Hashes \cup {"flat"}, Skill!Edit(d) PROVE SkillInv'
  BY <1>18 DEF Skill!Edit
<1>19. CASE UNCHANGED Skill!vars
  BY <1>19 DEF Skill!vars
<1> QED
  BY <1>1, <1>2, <1>3, <1>4, <1>5, <1>6, <1>7, <1>8, <1>9, <1>10, <1>11, <1>12, <1>13, <1>14,
     <1>15, <1>16, <1>17, <1>18, <1>19 DEF Skill!Next

\* Wherever an import, an update, a roll-back or a collection fails or dies, and
\* whatever comes after it: a finished installation has its tree on disk, with
\* the hash it was gated with, and current leads to a version that is there
\* (skill_import.rs, skill_update.rs).
THEOREM InstalledSkillIsWhole == Skill!Spec => []InstalledIsWhole
<1>1. SkillInv => InstalledIsWhole
  BY DEF SkillInv
<1> QED BY <1>1, SkillInit, SkillStep, PTL DEF Skill!Spec

----------------------------------------------------------------------------
(* Council                                                                  *)

\* What the proof needs of the types: a voice has one state in each run.
VoiceStates == {"no", "planned", "ready", "calling", "in", "lost"} \cup Council!Answers
RoundRows == [pc : {"idle", "filter", "wait", "status", "decide", "done"}, cur : SUBSET Voices,
              plan : Nat, attempted : Nat, listed : SUBSET (Voices \X Council!Answers), internal : Nat]
CouncilTypes ==
  /\ used \in [Council!Rows -> 0 .. Threshold]
  /\ round \in [Rounds -> RoundRows]
  /\ voice \in [Rounds -> [Voices -> VoiceStates]]
  /\ traced \in [Rounds -> SUBSET (Voices \cup {"parent"})]
  /\ streak \in [Voices -> 0 .. Threshold]

\* The voices that are asked, from the plan to the end, and those that are in.
Asked(said) == {v \in Voices : said[v] # "no"}
NowIn(said) == {v \in Voices : said[v] = "in"}

\* A run n, its voices and its traces agree at every step: what is not begun has
\* nothing, who is asked is counted, who is in is listed once, and no child is
\* traced but of several.
Agree(n, said, sent) ==
  /\ n.pc \in {"idle", "filter"} => n.plan = 0 /\ n.attempted = 0 /\ n.listed = {}
  /\ n.pc = "filter" => \A v \in Voices : said[v] \in {"no", "planned", "ready"}
  /\ n.pc \in {"wait", "status", "decide", "done"} =>
       /\ \A v \in Voices : said[v] \notin {"planned", "ready"}
       /\ n.attempted = Cardinality(Asked(said)) + n.internal
       /\ {l[1] : l \in n.listed} = NowIn(said)
       /\ Cardinality(n.listed) = Cardinality(NowIn(said))
  /\ n.pc # "done" => n.internal = 0
  /\ n.pc \in {"decide", "done"} =>
       \A v \in Voices : said[v] \notin {"calling", "ok", "limited", "down", "panic"}
  /\ n.pc = "status" => \A v \in n.cur : said[v] \in {"ok", "limited", "down"}
  /\ n.plan < 2 => sent = {}
  /\ n.pc = "done" /\ n.plan >= 2 => "parent" \in sent

RunsAgree == \A r \in Rounds : Agree(round[r], voice[r], traced[r])

\* The inductive invariant of the council.
CouncilInv == CouncilTypes /\ RunsAgree /\ Council!CountIsStreak

\* The council counts as the library does.
LEMMA CouncilCounts ==
  \A S : Council!Cardinality(S) = Cardinality(S) /\ (Council!IsFiniteSet(S) <=> IsFiniteSet(S))
BY DEF Council!Cardinality, Cardinality, Council!IsFiniteSet, IsFiniteSet

LEMMA VoicesAreFinite == \A S \in SUBSET Voices : IsFiniteSet(S) /\ Cardinality(S) \in Nat
<1>1. IsFiniteSet(Voices)
  BY VoicesAssumption, CouncilCounts DEF Council!CouncilAssumption
<1> QED BY <1>1, FS_Subset, FS_CardinalityType

\* It says what is to be shown of a run that has ended: who was asked is in or lost.
LEMMA CouncilIsAccounted ==
  CouncilInv => Council!ResultIsTheRecord /\ Council!ParentFollows /\ Council!CountIsStreak
<1> SUFFICES ASSUME CouncilInv
             PROVE  Council!ResultIsTheRecord /\ Council!ParentFollows /\ Council!CountIsStreak
  OBVIOUS
<1>1. ASSUME NEW r \in Rounds, round[r].pc \in {"decide", "done"}
      PROVE  /\ {l[1] : l \in round[r].listed} = Council!In(r, {"in"})
             /\ round[r].attempted =
                  Cardinality(round[r].listed) + Cardinality(Council!In(r, {"lost"})) + round[r].internal
  <2> DEFINE Lost == Council!In(r, {"lost"})
  <2>1. /\ \A v \in Voices : voice[r][v] \in {"no", "in", "lost"}
        /\ round[r].attempted = Cardinality(Asked(voice[r])) + round[r].internal
        /\ {l[1] : l \in round[r].listed} = NowIn(voice[r])
        /\ Cardinality(round[r].listed) = Cardinality(NowIn(voice[r]))
    BY <1>1 DEF CouncilInv, RunsAgree, Agree, CouncilTypes, VoiceStates, Council!Answers
  <2>2. NowIn(voice[r]) = Council!In(r, {"in"})
    BY DEF NowIn, Council!In
  <2>3. Asked(voice[r]) = NowIn(voice[r]) \cup Lost /\ NowIn(voice[r]) \cap Lost = {}
    BY <2>1 DEF Asked, NowIn, Council!In
  <2>4. Lost \in SUBSET Voices /\ NowIn(voice[r]) \in SUBSET Voices
    BY DEF Council!In, NowIn
  <2> HIDE DEF Lost
  <2>5. Cardinality(Asked(voice[r])) = Cardinality(NowIn(voice[r])) + Cardinality(Lost)
    <3>1. IsFiniteSet(Lost) /\ IsFiniteSet(NowIn(voice[r]))
      BY <2>4, VoicesAreFinite
    <3>2. Cardinality(Lost) \in Nat /\ Cardinality(NowIn(voice[r])) \in Nat
      BY <2>4, VoicesAreFinite
    <3>3. Cardinality(NowIn(voice[r]) \cup Lost) =
            Cardinality(NowIn(voice[r])) + Cardinality(Lost) - Cardinality(NowIn(voice[r]) \cap Lost)
      BY <3>1, FS_Union
    <3>4. Cardinality(NowIn(voice[r]) \cap Lost) = 0
      BY <2>3, FS_EmptySet
    <3>5. Cardinality(Asked(voice[r])) = Cardinality(NowIn(voice[r])) + Cardinality(Lost) - 0
      BY <2>3, <3>3, <3>4
    <3> QED BY <3>2, <3>5
  <2> QED BY <2>1, <2>2, <2>5 DEF Lost
<1>2. ASSUME NEW r \in Rounds, round[r].pc = "done", traced[r] # {} PROVE "parent" \in traced[r]
  <2>1. round[r].plan \in Nat
    BY DEF CouncilInv, CouncilTypes, RoundRows
  <2> QED BY <1>2, <2>1 DEF CouncilInv, RunsAgree, Agree
<1> QED
  BY <1>1, <1>2, CouncilCounts
  DEF Council!ResultIsTheRecord, Council!ParentFollows, CouncilInv

\* At first no run is under way.
LEMMA CouncilInit == Council!Init => CouncilInv
<1> SUFFICES ASSUME Council!Init PROVE CouncilInv
  OBVIOUS
<1>0. Threshold \in Nat
  BY VoicesAssumption DEF Council!CouncilAssumption
<1>1. CouncilTypes
  BY <1>0 DEF Council!Init, CouncilTypes, RoundRows, VoiceStates, Council!NoRun
<1>2. ASSUME NEW r \in Rounds PROVE Agree(round[r], voice[r], traced[r])
  <2>1. /\ round[r].pc = "idle" /\ round[r].plan = 0 /\ round[r].attempted = 0 /\ round[r].listed = {}
        /\ round[r].internal = 0 /\ traced[r] = {}
    BY DEF Council!Init, Council!NoRun
  <2> QED BY <2>1 DEF Agree
<1>3. Council!CountIsStreak
  BY DEF Council!Init, Council!CountIsStreak, Council!HasItsRow, Council!Rows
<1> QED BY <1>1, <1>2, <1>3 DEF CouncilInv, RunsAgree

\* A step of one run that leaves the tables as they agree.
LEMMA RoundSteps ==
  ASSUME CouncilInv, NEW r \in Rounds,
         NEW new \in RoundRows, NEW said \in [Voices -> VoiceStates], NEW sent \in SUBSET (Voices \cup {"parent"}),
         round' = [round EXCEPT ![r] = new], voice' = [voice EXCEPT ![r] = said],
         traced' = [traced EXCEPT ![r] = sent], Agree(new, said, sent),
         used' \in [Council!Rows -> 0 .. Threshold], streak' \in [Voices -> 0 .. Threshold],
         Council!CountIsStreak'
  PROVE  CouncilInv'
<1>1. CouncilTypes'
  BY DEF CouncilInv, CouncilTypes
<1>2. ASSUME NEW q \in Rounds PROVE Agree(round'[q], voice'[q], traced'[q])
  <2>1. CASE q = r
    <3>1. round'[q] = new /\ voice'[q] = said /\ traced'[q] = sent
      BY <2>1 DEF CouncilInv, CouncilTypes
    <3> QED BY <3>1
  <2>2. CASE q # r
    <3>1. round'[q] = round[q] /\ voice'[q] = voice[q] /\ traced'[q] = traced[q]
      BY <2>2 DEF CouncilInv, CouncilTypes
    <3> QED BY <3>1 DEF CouncilInv, RunsAgree
  <2> QED BY <2>1, <2>2
<1>3. RunsAgree'
  BY <1>2 DEF RunsAgree
<1> QED BY <1>1, <1>3 DEF CouncilInv

\* The same, when the tables are left alone.
LEMMA RoundStepsAlone ==
  ASSUME CouncilInv, NEW r \in Rounds,
         NEW new \in RoundRows, NEW said \in [Voices -> VoiceStates], NEW sent \in SUBSET (Voices \cup {"parent"}),
         round' = [round EXCEPT ![r] = new], voice' = [voice EXCEPT ![r] = said],
         traced' = [traced EXCEPT ![r] = sent], Agree(new, said, sent),
         used' = used, streak' = streak
  PROVE  CouncilInv'
<1>1. /\ used' \in [Council!Rows -> 0 .. Threshold] /\ streak' \in [Voices -> 0 .. Threshold]
      /\ Council!CountIsStreak'
  BY DEF CouncilInv, CouncilTypes, Council!CountIsStreak, Council!HasItsRow
<1> QED BY <1>1, RoundSteps

\* What is kept of a run.
LEMMA RoundKept ==
  ASSUME CouncilInv, NEW r \in Rounds
  PROVE  /\ round[r] \in RoundRows /\ voice[r] \in [Voices -> VoiceStates]
         /\ traced[r] \in SUBSET (Voices \cup {"parent"}) /\ Agree(round[r], voice[r], traced[r])
         /\ round' = round => round' = [round EXCEPT ![r] = round[r]]
         /\ voice' = voice => voice' = [voice EXCEPT ![r] = voice[r]]
         /\ traced' = traced => traced' = [traced EXCEPT ![r] = traced[r]]
BY DEF CouncilInv, CouncilTypes, RunsAgree

\* out.push: a voice that has answered is in, and listed.
LEMMA PushKeeps ==
  ASSUME CouncilInv, NEW r \in Rounds, NEW v \in Voices, round[r].pc \in {"wait", "status"},
         voice[r][v] \in Council!Answers, Council!Push(r, v, "wait"), UNCHANGED <<used, traced, streak>>
  PROVE  CouncilInv'
<1>0. PICK n \in RoundRows : n = round[r]
  BY RoundKept
<1>1. PICK said \in [Voices -> VoiceStates] : said = [voice[r] EXCEPT ![v] = "in"]
  BY RoundKept DEF VoiceStates
<1>2. PICK a \in Council!Answers : a = voice[r][v]
  OBVIOUS
<1>3. PICK new \in RoundRows :
        new = [n EXCEPT !.pc = "wait", !.cur = {}, !.listed = n.listed \cup {<<v, a>>}]
  <2>1. PICK all \in SUBSET (Voices \X Council!Answers) : all = n.listed \cup {<<v, a>>}
    <3>1. n.listed \in SUBSET (Voices \X Council!Answers)
      BY DEF RoundRows
    <3>2. <<v, a>> \in Voices \X Council!Answers
      OBVIOUS
    <3>3. n.listed \cup {<<v, a>>} \in SUBSET (Voices \X Council!Answers)
      BY <3>1, <3>2
    <3> QED BY <3>3
  <2>2. [n EXCEPT !.pc = "wait", !.cur = {}, !.listed = all] \in RoundRows
    BY DEF RoundRows
  <2> QED BY <2>1, <2>2
<1>4. /\ round' = [round EXCEPT ![r] = new] /\ voice' = [voice EXCEPT ![r] = said]
      /\ traced' = [traced EXCEPT ![r] = traced[r]] /\ used' = used /\ streak' = streak
  <2>1. /\ round' = [round EXCEPT ![r].pc = "wait", ![r].cur = {}, ![r].listed = @ \cup {<<v, voice[r][v]>>}]
        /\ voice' = [voice EXCEPT ![r][v] = "in"]
    BY DEF Council!Push
  <2>2. round \in [Rounds -> RoundRows] /\ voice \in [Rounds -> [Voices -> VoiceStates]]
    BY DEF CouncilInv, CouncilTypes
  <2>3. round' = [round EXCEPT ![r] = new]
    BY <1>0, <1>2, <1>3, <2>1, <2>2
  <2>4. voice' = [voice EXCEPT ![r] = said]
    BY <1>1, <2>1, <2>2
  <2> QED BY <2>3, <2>4, RoundKept
<1>5. Agree(new, said, traced[r])
  <2>1. /\ Agree(n, voice[r], traced[r]) /\ voice[r] \in [Voices -> VoiceStates] /\ n.pc \in {"wait", "status"}
    BY <1>0, RoundKept
  <2>2. /\ new.pc = "wait" /\ new.listed = n.listed \cup {<<v, a>>} /\ new.attempted = n.attempted
        /\ new.internal = n.internal /\ new.plan = n.plan
    BY <1>3 DEF RoundRows
  <2>3. /\ NowIn(said) = NowIn(voice[r]) \cup {v} /\ v \notin NowIn(voice[r])
        /\ Asked(said) = Asked(voice[r])
    BY <1>1, <1>2, <2>1 DEF NowIn, Asked, Council!Answers
  <2>4. {l[1] : l \in n.listed} = NowIn(voice[r]) /\ Cardinality(n.listed) = Cardinality(NowIn(voice[r]))
    BY <2>1 DEF Agree
  <2>5. {l[1] : l \in new.listed} = NowIn(said)
    <3>1. {l[1] : l \in n.listed \cup {<<v, a>>}} = {l[1] : l \in n.listed} \cup {v}
      <4>1. <<v, a>>[1] = v
        OBVIOUS
      <4> QED BY <4>1, Zenon
    <3> QED BY <2>2, <2>3, <2>4, <3>1
  <2>6. <<v, a>> \notin n.listed
    BY <2>3, <2>4
  <2>7. IsFiniteSet(n.listed)
    <3>1. IsFiniteSet(Voices \X Council!Answers)
      <4>1. IsFiniteSet(Voices)
        BY VoicesAssumption, CouncilCounts DEF Council!CouncilAssumption
      <4>2. IsFiniteSet(Council!Answers)
        <5>1. IsFiniteSet({"ok"} \cup {"limited"}) /\ IsFiniteSet({"down"} \cup {"panic"})
          BY FS_Singleton, FS_Union
        <5>2. IsFiniteSet(({"ok"} \cup {"limited"}) \cup ({"down"} \cup {"panic"}))
          BY <5>1, FS_Union
        <5>3. Council!Answers = ({"ok"} \cup {"limited"}) \cup ({"down"} \cup {"panic"})
          BY DEF Council!Answers
        <5> QED BY <5>2, <5>3
      <4> QED BY <4>1, <4>2, FS_Product
    <3>2. n.listed \subseteq Voices \X Council!Answers
      BY DEF RoundRows
    <3> QED BY <3>1, <3>2, FS_Subset
  <2>8. Cardinality(new.listed) = Cardinality(NowIn(said))
    <3>1. IsFiniteSet(NowIn(voice[r]))
      <4>1. NowIn(voice[r]) \in SUBSET Voices
        BY DEF NowIn
      <4> QED BY <4>1, VoicesAreFinite
    <3>2. Cardinality(new.listed) = Cardinality(n.listed) + 1
      BY <2>2, <2>6, <2>7, FS_AddElement
    <3>3. Cardinality(NowIn(said)) = Cardinality(NowIn(voice[r])) + 1
      BY <2>3, <3>1, FS_AddElement
    <3> QED BY <2>4, <3>2, <3>3
  <2>9. \A u \in Voices : said[u] \notin {"planned", "ready"}
    BY <1>1, <2>1 DEF Agree
  <2>10. new.attempted = Cardinality(Asked(said)) + new.internal /\ new.internal = 0
         /\ (new.plan < 2 => traced[r] = {})
    BY <2>1, <2>2, <2>3 DEF Agree
  <2> QED BY <2>2, <2>5, <2>8, <2>9, <2>10 DEF Agree
<1> QED
  BY <1>4, <1>5, RoundKept, RoundStepsAlone

\* Every step keeps it: of the tables, of the user, and each of a run.
LEMMA CouncilStep == CouncilInv /\ [Council!Next]_(Council!vars) => CouncilInv'
<1> SUFFICES ASSUME CouncilInv, [Council!Next]_(Council!vars) PROVE CouncilInv'
  OBVIOUS
<1>a. /\ round \in [Rounds -> RoundRows] /\ voice \in [Rounds -> [Voices -> VoiceStates]]
      /\ traced \in [Rounds -> SUBSET (Voices \cup {"parent"})]
      /\ used \in [Council!Rows -> 0 .. Threshold] /\ streak \in [Voices -> 0 .. Threshold]
  BY DEF CouncilInv, CouncilTypes
<1>b. \A v \in Voices : v \in Council!Rows /\ ServedAs[v] \in Council!Rows
  BY DEF Council!Rows
<1>c. Threshold \in Nat \ {0}
  BY VoicesAssumption DEF Council!CouncilAssumption
\* Nothing but the blocks and the status may have changed.
<1>d. ASSUME UNCHANGED <<used, round, voice, traced, streak>> PROVE CouncilInv'
  BY <1>d DEF CouncilInv, CouncilTypes, RunsAgree, Council!CountIsStreak, Council!HasItsRow
<1>1. ASSUME NEW k, NEW d, Council!Expire(k, d) PROVE CouncilInv'
  BY <1>1, <1>d DEF Council!Expire
<1>2. ASSUME NEW c, NEW s, Council!Ping(c, s) PROVE CouncilInv'
  BY <1>2, <1>d DEF Council!Ping
<1>3. ASSUME NEW r \in Rounds, NEW plan \in SUBSET PlanOf[r], Council!Plan(r, plan) PROVE CouncilInv'
  <2>1. PICK n \in RoundRows : n = round[r]
    BY RoundKept
  <2>2. PICK new \in RoundRows : new = [n EXCEPT !.pc = "filter"]
    BY DEF RoundRows
  <2>3. PICK said \in [Voices -> VoiceStates] : said = [v \in Voices |-> IF v \in plan THEN "planned" ELSE "no"]
    BY DEF VoiceStates
  <2>4. /\ round' = [round EXCEPT ![r] = new] /\ voice' = [voice EXCEPT ![r] = said]
        /\ traced' = traced /\ used' = used /\ streak' = streak /\ n.pc = "idle"
    <3>1. /\ round' = [round EXCEPT ![r].pc = "filter"] /\ traced' = traced /\ used' = used /\ streak' = streak
          /\ voice' = [voice EXCEPT ![r] = [v \in Voices |-> IF v \in plan THEN "planned" ELSE "no"]]
          /\ round[r].pc = "idle"
      BY <1>3 DEF Council!Plan
    <3> QED BY <1>a, <2>1, <2>2, <2>3, <3>1
  <2>5. Agree(new, said, traced[r])
    <3>1. /\ new.pc = "filter" /\ new.plan = n.plan /\ new.attempted = n.attempted /\ new.listed = n.listed
          /\ new.internal = n.internal
      BY <2>2 DEF RoundRows
    <3>0. Agree(n, voice[r], traced[r])
      BY <2>1, RoundKept
    <3>2. n.plan = 0 /\ n.attempted = 0 /\ n.listed = {} /\ n.internal = 0 /\ traced[r] = {}
      BY <2>4, <3>0 DEF Agree
    <3>3. \A v \in Voices : said[v] \in {"no", "planned", "ready"}
      BY <2>3
    <3> QED BY <3>1, <3>2, <3>3 DEF Agree
  <2> QED BY <2>4, <2>5, RoundKept, RoundStepsAlone
<1>4. ASSUME NEW r \in Rounds, NEW v \in Voices, Council!CheckAllowed(r, v) PROVE CouncilInv'
  <2>1. PICK s \in {"no", "ready"} : voice' = [voice EXCEPT ![r][v] = s]
    BY <1>4 DEF Council!CheckAllowed
  <2>2. round[r].pc = "filter" /\ UNCHANGED <<round, traced, used, streak>>
    BY <1>4 DEF Council!CheckAllowed
  <2>3. PICK said \in [Voices -> VoiceStates] : said = [voice[r] EXCEPT ![v] = s]
    BY <1>a DEF VoiceStates
  <2>4. voice' = [voice EXCEPT ![r] = said]
    BY <1>a, <2>1, <2>3
  <2>5. Agree(round[r], said, traced[r])
    <3>1. Agree(round[r], voice[r], traced[r]) /\ voice[r] \in [Voices -> VoiceStates]
      BY RoundKept
    <3>2. \A u \in Voices : said[u] \in {"no", "planned", "ready"}
      BY <2>2, <2>3, <3>1 DEF Agree
    <3> QED BY <2>2, <3>1, <3>2 DEF Agree
  <2> QED BY <2>2, <2>4, <2>5, RoundKept, RoundStepsAlone
<1>5. ASSUME NEW r \in Rounds, Council!AllBlocked(r) PROVE CouncilInv'
  <2>1. PICK new \in RoundRows : new = Council!NoRun
    BY DEF RoundRows, Council!NoRun
  <2>2. /\ round[r].pc = "filter" /\ round' = [round EXCEPT ![r] = new]
        /\ UNCHANGED <<voice, traced, used, streak>>
    BY <1>5, <2>1 DEF Council!AllBlocked
  <2>3. Agree(new, voice[r], traced[r])
    <3>0. Agree(round[r], voice[r], traced[r])
      BY RoundKept
    <3>1. round[r].plan = 0 /\ traced[r] = {}
      BY <2>2, <3>0 DEF Agree
    <3> QED BY <2>1, <3>1 DEF Agree, Council!NoRun
  <2> QED BY <2>2, <2>3, RoundKept, RoundStepsAlone
<1>6. ASSUME NEW r \in Rounds, Council!Spawn(r) PROVE CouncilInv'
  <2>0. PICK k : k = Cardinality(Council!In(r, {"ready"}))
    OBVIOUS
  <2>1. k \in Nat
    <3>1. Council!In(r, {"ready"}) \in SUBSET Voices
      BY DEF Council!In
    <3> QED BY <2>0, <3>1, VoicesAreFinite
  <2>2. PICK n \in RoundRows : n = round[r]
    BY RoundKept
  <2>3. PICK new \in RoundRows : new = [n EXCEPT !.pc = "wait", !.plan = k, !.attempted = k]
    BY <2>1 DEF RoundRows
  <2>4. PICK said \in [Voices -> VoiceStates] :
          said = [v \in Voices |-> IF voice[r][v] \in {"ready"} THEN "calling" ELSE voice[r][v]]
    BY <1>a DEF VoiceStates
  <2>5. /\ round' = [round EXCEPT ![r] = new] /\ voice' = [voice EXCEPT ![r] = said]
        /\ traced' = traced /\ used' = used /\ streak' = streak /\ n.pc = "filter"
        /\ Council!In(r, {"planned"}) = {}
    <3>1. /\ round[r].pc = "filter" /\ Council!In(r, {"planned"}) = {}
          /\ round' = [round EXCEPT ![r].pc = "wait", ![r].plan = Council!Cardinality(Council!In(r, {"ready"})),
                                    ![r].attempted = Council!Cardinality(Council!In(r, {"ready"}))]
          /\ voice' = [voice EXCEPT ![r] = [v \in Voices |-> IF @[v] \in {"ready"} THEN "calling" ELSE @[v]]]
          /\ traced' = traced /\ used' = used /\ streak' = streak
      BY <1>6 DEF Council!Spawn, Council!Become
    <3>2. Council!Cardinality(Council!In(r, {"ready"})) = k
      BY <2>0, CouncilCounts
    <3>3. round' = [round EXCEPT ![r] = new]
      BY <1>a, <2>2, <2>3, <3>1, <3>2
    <3>4. voice' = [voice EXCEPT ![r] = said]
      BY <1>a, <2>4, <3>1
    <3> QED BY <2>2, <3>1, <3>3, <3>4
  <2>6. Agree(new, said, traced[r])
    <3>1. /\ new.pc = "wait" /\ new.plan = k /\ new.attempted = k /\ new.listed = n.listed
          /\ new.internal = n.internal
      BY <2>3 DEF RoundRows
    <3>2. Agree(n, voice[r], traced[r]) /\ voice[r] \in [Voices -> VoiceStates]
      BY <2>2, RoundKept
    <3>3. n.listed = {} /\ n.internal = 0 /\ traced[r] = {}
      BY <2>5, <3>2 DEF Agree
    <3>4. \A v \in Voices : voice[r][v] \in {"no", "ready"}
      <4>1. \A v \in Voices : voice[r][v] \in {"no", "planned", "ready"} /\ voice[r][v] # "planned"
        BY <2>5, <3>2 DEF Agree, Council!In
      <4> QED BY <4>1
    <3>5. \A v \in Voices : said[v] \in {"no", "calling"} /\ (said[v] = "calling" <=> voice[r][v] = "ready")
      BY <2>4, <3>4
    <3>6. Asked(said) = Council!In(r, {"ready"}) /\ NowIn(said) = {}
      BY <3>5 DEF Asked, NowIn, Council!In
    <3>7. \A v \in Voices : said[v] \notin {"planned", "ready"}
      BY <3>5
    <3>8. {l[1] : l \in new.listed} = NowIn(said) /\ Cardinality(new.listed) = Cardinality(NowIn(said))
      BY <3>1, <3>3, <3>6
    <3>9. new.attempted = Cardinality(Asked(said)) + new.internal
      BY <2>0, <2>1, <3>1, <3>3, <3>6
    <3> QED BY <3>1, <3>3, <3>7, <3>8, <3>9 DEF Agree
  <2> QED BY <2>5, <2>6, RoundKept, RoundStepsAlone
<1>7. ASSUME NEW r \in Rounds, NEW v \in Voices, NEW answer \in Council!Answers, Council!Answer(r, v, answer)
      PROVE  CouncilInv'
  <2>1. PICK said \in [Voices -> VoiceStates] : said = [voice[r] EXCEPT ![v] = answer]
    BY <1>a DEF VoiceStates
  <2>2. PICK sent \in SUBSET (Voices \cup {"parent"}) :
          /\ traced' = [traced EXCEPT ![r] = sent] /\ traced[r] \subseteq sent
          /\ round[r].plan < 2 => sent = traced[r]
    <3>1. CASE answer = "ok" /\ round[r].plan >= 2
      <4>1. traced' = [traced EXCEPT ![r] = traced[r] \cup {v}]
        BY <1>7, <3>1 DEF Council!Answer
      <4>2. traced[r] \cup {v} \in SUBSET (Voices \cup {"parent"}) /\ ~(round[r].plan < 2)
        <5>1. round[r].plan \in Nat
          BY <1>a DEF RoundRows
        <5> QED BY <1>a, <3>1, <5>1
      <4> QED BY <4>1, <4>2
    <3>2. CASE ~(answer = "ok" /\ round[r].plan >= 2)
      <4>1. traced' = [traced EXCEPT ![r] = traced[r]]
        BY <1>7, <3>2, RoundKept DEF Council!Answer
      <4> QED BY <1>a, <4>1
    <3> QED BY <3>1, <3>2
  <2>3. /\ voice' = [voice EXCEPT ![r] = said] /\ voice[r][v] = "calling"
        /\ round' = round /\ used' = used /\ streak' = streak
    <3>1. voice' = [voice EXCEPT ![r][v] = answer] /\ voice[r][v] = "calling"
          /\ round' = round /\ used' = used /\ streak' = streak
      BY <1>7 DEF Council!Answer
    <3> QED BY <1>a, <2>1, <3>1
  <2>4. Agree(round[r], said, sent)
    <3>1. Agree(round[r], voice[r], traced[r]) /\ voice[r] \in [Voices -> VoiceStates] /\ round[r] \in RoundRows
      BY RoundKept
    <3>2. round[r].pc \in {"idle", "wait", "status"}
      BY <2>3, <3>1 DEF Agree, RoundRows
    <3>3. /\ Asked(said) = Asked(voice[r]) /\ NowIn(said) = NowIn(voice[r])
          /\ \A u \in Voices : said[u] \in {"planned", "ready"} => voice[r][u] \in {"planned", "ready"}
          /\ \A u \in Voices : voice[r][u] \in {"ok", "limited", "down"} => said[u] = voice[r][u]
      BY <2>1, <2>3, <3>1 DEF Asked, NowIn, Council!Answers
    <3>4. round[r].pc = "status" => \A u \in round[r].cur : said[u] \in {"ok", "limited", "down"}
      <4>1. \A u \in round[r].cur : u \in Voices
        BY <3>1 DEF RoundRows
      <4> QED BY <3>1, <3>3, <4>1 DEF Agree
    <3> QED BY <2>2, <3>1, <3>2, <3>3, <3>4 DEF Agree
  <2> QED BY <2>2, <2>3, <2>4, RoundKept, RoundStepsAlone
<1>8. ASSUME NEW r \in Rounds, NEW v \in Voices, Council!JoinPanicked(r, v) PROVE CouncilInv'
  <2>1. /\ round[r].pc = "wait" /\ voice[r][v] = "panic" /\ Council!Push(r, v, "wait")
        /\ UNCHANGED <<used, traced, streak>>
    BY <1>8 DEF Council!JoinPanicked
  <2>2. voice[r][v] \in Council!Answers
    BY <2>1 DEF Council!Answers
  <2> QED BY <2>1, <2>2, PushKeeps
<1>9. ASSUME NEW r \in Rounds, NEW v \in Voices, Council!JoinStatus(r, v) PROVE CouncilInv'
  <2>1. /\ round[r].pc = "status" /\ v \in round[r].cur /\ Council!Push(r, v, "wait")
        /\ UNCHANGED <<used, traced, streak>>
    BY <1>9 DEF Council!JoinStatus
  <2>2. voice[r][v] \in Council!Answers
    BY <2>1, RoundKept DEF Agree, Council!Answers
  <2> QED BY <2>1, <2>2, PushKeeps
<1>10. ASSUME NEW r \in Rounds, NEW v \in Voices, Council!JoinRecord(r, v) PROVE CouncilInv'
  <2>1. /\ round[r].pc = "wait" /\ voice[r][v] \in Council!Answers \ {"panic"}
        /\ round' = [round EXCEPT ![r].pc = "status", ![r].cur = {v}]
        /\ voice' = voice /\ traced' = traced
        /\ \/ Council!RecordSuccess(v)
           \/ Council!RecordFailure(v, voice[r][v])
    BY <1>10 DEF Council!JoinRecord
  <2>2. PICK n \in RoundRows : n = round[r]
    BY RoundKept
  <2>3. PICK new \in RoundRows : new = [n EXCEPT !.pc = "status", !.cur = {v}]
    BY DEF RoundRows
  <2>4. round' = [round EXCEPT ![r] = new]
    BY <1>a, <2>1, <2>2, <2>3
  <2>5. Agree(new, voice[r], traced[r])
    <3>1. /\ new.pc = "status" /\ new.cur = {v} /\ new.plan = n.plan /\ new.attempted = n.attempted
          /\ new.listed = n.listed /\ new.internal = n.internal
      BY <2>3 DEF RoundRows
    <3>2. voice[r][v] \in {"ok", "limited", "down"}
      BY <2>1 DEF Council!Answers
    <3>3. Agree(n, voice[r], traced[r]) /\ n.pc = "wait"
      BY <2>1, <2>2, RoundKept
    <3> QED BY <3>1, <3>2, <3>3 DEF Agree
  <2>6. /\ used' \in [Council!Rows -> 0 .. Threshold] /\ streak' \in [Voices -> 0 .. Threshold]
        /\ Council!CountIsStreak'
    <3>1. CASE Council!RecordSuccess(v)
      <4>1. used' = [used EXCEPT ![ServedAs[v]] = 0] /\ streak' = [streak EXCEPT ![v] = 0]
        BY <3>1 DEF Council!RecordSuccess
      <4>0. 0 \in 0 .. Threshold
        BY <1>c
      <4>2. used' \in [Council!Rows -> 0 .. Threshold] /\ streak' \in [Voices -> 0 .. Threshold]
        BY <1>a, <4>0, <4>1
      <4> QED BY <1>a, <1>b, <4>1, <4>2 DEF CouncilInv, Council!CountIsStreak, Council!HasItsRow
    <3>2. CASE Council!RecordFailure(v, voice[r][v])
      <4>1. /\ used' = [used EXCEPT ![v] = Council!UpTo(used[v] + 1)]
            /\ streak' = [streak EXCEPT ![v] = Council!UpTo(streak[v] + 1)]
        BY <3>2 DEF Council!RecordFailure
      <4>2. Council!UpTo(used[v] + 1) \in 0 .. Threshold /\ Council!UpTo(streak[v] + 1) \in 0 .. Threshold
        <5>1. used[v] \in 0 .. Threshold /\ streak[v] \in 0 .. Threshold
          BY <1>a, <1>b
        <5> QED BY <1>c, <5>1 DEF Council!UpTo
      <4>3. used' \in [Council!Rows -> 0 .. Threshold] /\ streak' \in [Voices -> 0 .. Threshold]
        BY <1>a, <4>1, <4>2
      <4> QED BY <1>a, <1>b, <4>1, <4>3 DEF CouncilInv, Council!CountIsStreak, Council!HasItsRow
    <3> QED BY <2>1, <3>1, <3>2
  <2> QED BY <2>1, <2>4, <2>5, <2>6, RoundKept, RoundSteps
<1>11. ASSUME NEW r \in Rounds, Council!AllJoined(r) PROVE CouncilInv'
  <2>1. /\ round[r].pc = "wait" /\ Council!In(r, {"calling"} \cup Council!Answers) = {}
        /\ round' = [round EXCEPT ![r].pc = "decide"] /\ UNCHANGED <<voice, traced, used, streak>>
    BY <1>11 DEF Council!AllJoined
  <2>2. PICK n \in RoundRows : n = round[r]
    BY RoundKept
  <2>3. PICK new \in RoundRows : new = [n EXCEPT !.pc = "decide"]
    BY DEF RoundRows
  <2>4. round' = [round EXCEPT ![r] = new]
    BY <1>a, <2>1, <2>2, <2>3
  <2>5. Agree(new, voice[r], traced[r])
    <3>1. /\ new.pc = "decide" /\ new.plan = n.plan /\ new.attempted = n.attempted
          /\ new.listed = n.listed /\ new.internal = n.internal
      BY <2>3 DEF RoundRows
    <3>2. \A v \in Voices : voice[r][v] \notin {"calling", "ok", "limited", "down", "panic"}
      BY <2>1 DEF Council!In, Council!Answers
    <3>3. Agree(n, voice[r], traced[r]) /\ n.pc = "wait"
      BY <2>1, <2>2, RoundKept
    <3> QED BY <3>1, <3>2, <3>3 DEF Agree
  <2> QED BY <2>1, <2>4, <2>5, RoundKept, RoundStepsAlone
<1>12. ASSUME NEW r \in Rounds, Council!Deadline(r) PROVE CouncilInv'
  <2>1. /\ round[r].pc = "wait" /\ round' = [round EXCEPT ![r].pc = "decide"]
        /\ voice' = [voice EXCEPT ![r] = [v \in Voices |-> IF @[v] \in {"calling"} \cup Council!Answers
                                                           THEN "lost" ELSE @[v]]]
        /\ UNCHANGED <<traced, used, streak>>
    BY <1>12 DEF Council!Deadline, Council!Become
  <2>2. PICK n \in RoundRows : n = round[r]
    BY RoundKept
  <2>3. PICK new \in RoundRows : new = [n EXCEPT !.pc = "decide"]
    BY DEF RoundRows
  <2>4. PICK said \in [Voices -> VoiceStates] :
          said = [v \in Voices |-> IF voice[r][v] \in {"calling"} \cup Council!Answers
                                   THEN "lost" ELSE voice[r][v]]
    BY <1>a DEF VoiceStates
  <2>5. round' = [round EXCEPT ![r] = new]
    BY <1>a, <2>1, <2>2, <2>3
  <2>6. voice' = [voice EXCEPT ![r] = said]
    BY <1>a, <2>1, <2>4
  <2>7. Agree(new, said, traced[r])
    <3>1. /\ new.pc = "decide" /\ new.plan = n.plan /\ new.attempted = n.attempted
          /\ new.listed = n.listed /\ new.internal = n.internal
      BY <2>3 DEF RoundRows
    <3>2. \A v \in Voices : said[v] \notin {"calling", "ok", "limited", "down", "panic"}
      BY <2>4 DEF Council!Answers
    <3>3. Agree(n, voice[r], traced[r]) /\ n.pc = "wait"
      BY <2>1, <2>2, RoundKept
    <3>4. \A v \in Voices : voice[r][v] \notin {"planned", "ready"}
      BY <3>3 DEF Agree
    <3>5. /\ Asked(said) = Asked(voice[r]) /\ NowIn(said) = NowIn(voice[r])
          /\ \A v \in Voices : said[v] \notin {"planned", "ready"}
      BY <2>4, <3>4 DEF Asked, NowIn, Council!Answers
    <3> QED BY <3>1, <3>2, <3>3, <3>5 DEF Agree
  <2> QED BY <2>1, <2>5, <2>6, <2>7, RoundKept, RoundStepsAlone
<1>13. ASSUME NEW r \in Rounds, NEW k \in 0 .. Internal, Council!Decide(r, k) PROVE CouncilInv'
  <2>1. /\ round[r].pc = "decide"
        /\ round' = [round EXCEPT ![r].pc = "done", ![r].internal = k, ![r].attempted = @ + k]
        /\ traced' = IF round[r].plan >= 2 THEN [traced EXCEPT ![r] = @ \cup {"parent"}] ELSE traced
        /\ UNCHANGED <<voice, used, streak>>
    BY <1>13 DEF Council!Decide, Council!TraceParent
  <2>2. PICK n \in RoundRows : n = round[r]
    BY RoundKept
  <2>3. PICK new \in RoundRows : new = [n EXCEPT !.pc = "done", !.internal = k, !.attempted = n.attempted + k]
    <3>1. k \in Nat
      BY VoicesAssumption DEF Council!CouncilAssumption
    <3>2. PICK m \in Nat : m = n.attempted + k
      BY <3>1 DEF RoundRows
    <3>3. [n EXCEPT !.pc = "done", !.internal = k, !.attempted = m] \in RoundRows
      BY <3>1 DEF RoundRows
    <3> QED BY <3>2, <3>3
  <2>4. round' = [round EXCEPT ![r] = new]
    BY <1>a, <2>1, <2>2, <2>3
  <2>5. PICK sent \in SUBSET (Voices \cup {"parent"}) :
          /\ traced' = [traced EXCEPT ![r] = sent]
          /\ sent = IF n.plan >= 2 THEN traced[r] \cup {"parent"} ELSE traced[r]
    <3>1. CASE n.plan >= 2
      BY <1>a, <2>1, <2>2, <3>1
    <3>2. CASE ~(n.plan >= 2)
      BY <2>1, <2>2, <3>2, RoundKept
    <3> QED BY <3>1, <3>2
  <2>6. Agree(new, voice[r], sent)
    <3>1. /\ new.pc = "done" /\ new.plan = n.plan /\ new.attempted = n.attempted + k
          /\ new.listed = n.listed /\ new.internal = k
      BY <2>3 DEF RoundRows
    <3>2. Agree(n, voice[r], traced[r]) /\ n.pc = "decide" /\ n.plan \in Nat
      BY <2>1, <2>2, RoundKept DEF RoundRows
    <3>3. n.attempted = Cardinality(Asked(voice[r])) + n.internal /\ n.internal = 0
      BY <3>2 DEF Agree
    <3>4. Cardinality(Asked(voice[r])) \in Nat
      <4>1. Asked(voice[r]) \in SUBSET Voices
        BY DEF Asked
      <4> QED BY <4>1, VoicesAreFinite
    <3>5. new.attempted = Cardinality(Asked(voice[r])) + new.internal
      BY <3>1, <3>3, <3>4
    <3>6. (n.plan < 2 => sent = {}) /\ (n.plan >= 2 => "parent" \in sent)
      BY <2>5, <3>2 DEF Agree
    <3> QED BY <3>1, <3>2, <3>5, <3>6 DEF Agree
  <2>7. /\ voice' = [voice EXCEPT ![r] = voice[r]] /\ voice[r] \in [Voices -> VoiceStates]
        /\ used' = used /\ streak' = streak
    BY <2>1, RoundKept
  <2>8. traced' = [traced EXCEPT ![r] = sent]
    BY <2>5
  <2> QED BY <2>4, <2>6, <2>7, <2>8, RoundStepsAlone
<1>14. ASSUME NEW r \in Rounds, Council!Return(r) PROVE CouncilInv'
  <2>1. PICK new \in RoundRows : new = Council!NoRun
    BY DEF RoundRows, Council!NoRun
  <2>2. PICK said \in [Voices -> VoiceStates] : said = [v \in Voices |-> "no"]
    BY DEF VoiceStates
  <2>3. PICK sent \in SUBSET (Voices \cup {"parent"}) : sent = {}
    OBVIOUS
  <2>4. /\ round' = [round EXCEPT ![r] = new] /\ voice' = [voice EXCEPT ![r] = said]
        /\ traced' = [traced EXCEPT ![r] = sent] /\ used' = used /\ streak' = streak
    BY <1>14, <2>1, <2>2, <2>3 DEF Council!Return
  <2>5. Agree(new, said, sent)
    BY <2>1, <2>3 DEF Agree, Council!NoRun
  <2> QED BY <2>4, <2>5, RoundStepsAlone
<1>15. ASSUME UNCHANGED Council!vars PROVE CouncilInv'
  BY <1>15, <1>d DEF Council!vars
<1> QED
  BY <1>1, <1>2, <1>3, <1>4, <1>5, <1>6, <1>7, <1>8, <1>9, <1>10, <1>11, <1>12, <1>13, <1>14, <1>15
  DEF Council!Next

\* The failure of a voice of a quick run leaves the credential as it is.
LEMMA QuickSpares ==
  CouncilInv /\ [Council!Next]_(Council!vars) =>
    [\A c \in Council!Creds : health'[c] # health[c] /\ health'[c] # "healthy" =>
       \A r \in Quick : round'[r] = round[r]]_(Council!vars)
<1> SUFFICES ASSUME CouncilInv, Council!Next, NEW c \in Council!Creds, health'[c] # health[c], health'[c] # "healthy",
                    NEW q \in Quick
             PROVE  round'[q] = round[q]
  BY DEF Council!vars
<1>0. q \in Rounds /\ round \in [Rounds -> RoundRows]
  BY VoicesAssumption DEF Council!CouncilAssumption, CouncilInv, CouncilTypes
<1>1. ASSUME NEW d, NEW s, Council!Ping(d, s) PROVE round'[q] = round[q]
  BY <1>1 DEF Council!Ping
<1>2. ASSUME NEW r \in Rounds, NEW v \in Voices, Council!JoinStatus(r, v) PROVE round'[q] = round[q]
  <2>1. /\ \E s \in Council!NewStatus(r, v) : health' = [health EXCEPT ![Cred[v]] = s]
        /\ round' = [round EXCEPT ![r].pc = "wait", ![r].cur = {}, ![r].listed = @ \cup {<<v, voice[r][v]>>}]
    BY <1>2 DEF Council!JoinStatus, Council!Push
  <2>2. CASE r = q
    <3>1. CASE voice[r][v] = "ok"
      <4>1. health' = [health EXCEPT ![Cred[v]] = "healthy"]
        BY <2>1, <2>2, <3>1 DEF Council!NewStatus
      <4> QED BY <4>1
    <3>2. CASE voice[r][v] # "ok"
      <4>1. health' = [health EXCEPT ![Cred[v]] = health[Cred[v]]]
        BY <2>1, <2>2, <3>2 DEF Council!NewStatus
      <4> QED BY <4>1
    <3> QED BY <3>1, <3>2
  <2>3. CASE r # q
    BY <1>0, <2>1, <2>3
  <2> QED BY <2>2, <2>3
<1>3. ASSUME health' = health PROVE FALSE
  BY <1>3
<1> QED
  BY <1>1, <1>2, <1>3
  DEF Council!Next, Council!Expire, Council!Plan, Council!CheckAllowed, Council!AllBlocked, Council!Spawn,
      Council!Answer, Council!JoinPanicked, Council!JoinRecord, Council!AllJoined, Council!Deadline,
      Council!Decide, Council!Return

\* The failure that makes a streak of Threshold opens the circuit, since it makes the
\* count Threshold as well.
LEMMA CircuitTrips ==
  CouncilInv /\ [Council!Next]_(Council!vars) =>
    [\A v \in Voices : Council!HasItsRow(v) /\ streak[v] < Threshold /\ streak'[v] = Threshold =>
       <<v, "circuit">> \in blocked']_(Council!vars)
<1> SUFFICES ASSUME CouncilInv, Council!Next, NEW v \in Voices, Council!HasItsRow(v),
                    streak[v] < Threshold, streak'[v] = Threshold
             PROVE  <<v, "circuit">> \in blocked'
  BY DEF Council!vars
<1>0. /\ Threshold \in Nat \ {0} /\ streak \in [Voices -> 0 .. Threshold]
      /\ used[v] = streak[v]
  BY VoicesAssumption DEF Council!CouncilAssumption, CouncilInv, CouncilTypes, Council!CountIsStreak
<1>1. ASSUME NEW r \in Rounds, NEW w \in Voices, Council!JoinRecord(r, w)
      PROVE  <<v, "circuit">> \in blocked'
  <2>1. CASE Council!RecordSuccess(w)
    <3>1. streak' = [streak EXCEPT ![w] = 0]
      BY <2>1 DEF Council!RecordSuccess
    <3> QED BY <1>0, <3>1
  <2>2. CASE Council!RecordFailure(w, voice[r][w])
    <3>1. /\ streak' = [streak EXCEPT ![w] = Council!UpTo(streak[w] + 1)]
          /\ used[w] + 1 >= Threshold => <<w, "circuit">> \in blocked'
      BY <2>2 DEF Council!RecordFailure
    <3>2. w = v
      BY <1>0, <3>1
    <3>3. streak'[v] = Council!UpTo(streak[v] + 1)
      BY <1>0, <3>1, <3>2
    <3>4. streak[v] + 1 >= Threshold
      BY <1>0, <3>3 DEF Council!UpTo
    <3> QED BY <1>0, <3>1, <3>2, <3>4
  <2> QED BY <1>1, <2>1, <2>2 DEF Council!JoinRecord
<1>2. ASSUME streak' = streak PROVE FALSE
  BY <1>0, <1>2
<1> QED
  BY <1>1, <1>2
  DEF Council!Next, Council!Expire, Council!Ping, Council!Plan, Council!CheckAllowed, Council!AllBlocked,
      Council!Spawn, Council!Answer, Council!JoinPanicked, Council!JoinStatus, Council!AllJoined,
      Council!Deadline, Council!Decide, Council!Return

\* Whenever a run is interrupted its result is the record and its children have
\* their parent; the circuit counts the failures in a row, and opens when they are
\* as many as the threshold; and a quick run spares the credential its voices share
\* (council_multi.rs, resilience.rs), for any voices, runs and plans.
THEOREM CouncilKeepsAccounts == Council!Spec => CouncilIsKept
<1> QED
  BY CouncilIsAccounted, CouncilInit, CouncilStep, CircuitTrips, QuickSpares, PTL
  DEF Council!Spec, CouncilIsKept, Council!CouncilIsKept, Council!TripsAfterStreak,
      Council!QuickSparesStatus
=============================================================================
