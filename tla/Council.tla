------------------------------- MODULE Council -------------------------------
(***************************************************************************)
(* Runs of the council (council_multi.rs) over the health of the providers *)
(* (resilience.rs, provider_credentials).  A run plans its voices, leaves  *)
(* out those that are blocked, calls the others at once and collects their *)
(* answers one by one: each is put down in resilience_state and then in    *)
(* the status of its credential, and joins the result.  After 40 seconds   *)
(* the rest is given up.  A run nobody answered asks the internal voices.  *)
(*                                                                         *)
(* Several runs share the tables; each statement or group of statements    *)
(* under one hold of the mutex is a step.  How long a voice stays blocked  *)
(* is left out: a block ends when it pleases.                              *)
(***************************************************************************)
EXTENDS Naturals, FiniteSets

CONSTANTS Rounds,    \* calls of run that may be under way at once
          Quick,     \* those of preset quick
          Voices,    \* (credential, model) pairs
          PlanOf,    \* for each run, the voices its preset and template allow
          Pinned,    \* custom voices: called whatever the status of their credential
          Cred,      \* for each voice, the alias of its credential
          ServedAs,  \* for each voice, the row of the model its server says it used
          Threshold, \* CIRCUIT_TRIP_THRESHOLD
          Internal   \* voices of internal_fallback_voices

Rows == Voices \cup {ServedAs[v] : v \in Voices}
Creds == {Cred[v] : v \in Voices}

CouncilAssumption ==
  /\ IsFiniteSet(Rounds) /\ IsFiniteSet(Voices) /\ Quick \subseteq Rounds /\ Pinned \subseteq Voices
  /\ PlanOf \in [Rounds -> SUBSET Voices]
  /\ DOMAIN Cred = Voices /\ DOMAIN ServedAs = Voices
  /\ Threshold \in Nat \ {0} /\ Internal \in Nat

VARIABLES used,    \* the circuit row's bucket_used: failures since it was last cleared
          blocked, \* <<row, dimension>> whose blocked_until is in the future
          status,  \* of each credential
          run,     \* the runs
          voice,   \* what each run knows of each voice
          traced,  \* traces each run has handed to the uploader
          streak   \* failures of a voice put down since its last success

vars == <<used, blocked, status, run, voice, traced, streak>>

Answers == {"ok", "limited", "down", "panic"}
NoRun == [pc |-> "idle", cur |-> {}, plan |-> 0, attempted |-> 0, listed |-> {}, internal |-> 0]

TypeOK ==
  /\ used \in [Rows -> 0 .. Threshold]
  /\ blocked \subseteq Rows \X {"circuit", "api_429"}
  /\ status \in [Creds -> {"healthy", "amber", "red"}]
  /\ run \in [Rounds -> [pc : {"idle", "filter", "wait", "status", "decide", "done"},
                       cur : {{}} \cup {{v} : v \in Voices}, plan : 0 .. Cardinality(Voices),
                       attempted : 0 .. Cardinality(Voices) + Internal,
                       listed : SUBSET (Voices \X Answers), internal : 0 .. Internal]]
  /\ voice \in [Rounds -> [Voices -> {"no", "planned", "ready", "calling", "in", "lost"} \cup Answers]]
  /\ traced \in [Rounds -> SUBSET (Voices \cup {"parent"})]
  /\ streak \in [Voices -> 0 .. Threshold]

Init == /\ used = [k \in Rows |-> 0] /\ blocked = {} /\ status = [c \in Creds |-> "healthy"]
        /\ run = [r \in Rounds |-> NoRun] /\ voice = [r \in Rounds |-> [v \in Voices |-> "no"]]
        /\ traced = [r \in Rounds |-> {}] /\ streak = [v \in Voices |-> 0]

In(r, states) == {v \in Voices : voice[r][v] \in states}
Become(r, from, to) ==
  voice' = [voice EXCEPT ![r] = [v \in Voices |-> IF @[v] \in from THEN to ELSE @[v]]]

----------------------------------------------------------------------------
\* The health of the providers

UpTo(n) == IF n < Threshold THEN n ELSE Threshold

\* Mutant: a success lifts the blocks and keeps the count.
RecordSuccessKeepsCount(v) ==
  /\ blocked' = blocked \ {<<ServedAs[v], d>> : d \in {"circuit", "api_429"}}
  /\ streak' = [streak EXCEPT ![v] = 0]
  /\ UNCHANGED used

\* record_success, for the model the server says it used
RecordSuccess(v) ==
  /\ used' = [used EXCEPT ![ServedAs[v]] = 0]
  /\ blocked' = blocked \ {<<ServedAs[v], d>> : d \in {"circuit", "api_429"}}
  /\ streak' = [streak EXCEPT ![v] = 0]

\* record_failure, for the model that was asked for
RecordFailure(v, answer) ==
  /\ used' = [used EXCEPT ![v] = UpTo(@ + 1)]
  /\ blocked' = blocked \cup (IF used[v] + 1 >= Threshold THEN {<<v, "circuit">>} ELSE {})
                        \cup (IF answer = "limited" THEN {<<v, "api_429">>} ELSE {})
  /\ streak' = [streak EXCEPT ![v] = UpTo(@ + 1)]

Expire(k, d) ==
  /\ <<k, d>> \in blocked
  /\ blocked' = blocked \ {<<k, d>>}
  /\ UNCHANGED <<used, status, run, voice, traced, streak>>

\* update_ping_result: the user tests a credential.
Ping(c, s) ==
  /\ status' = [status EXCEPT ![c] = s]
  /\ UNCHANGED <<used, blocked, run, voice, traced, streak>>

----------------------------------------------------------------------------
\* A run

\* list_all, build_plan and resolve_custom_voices: an empty plan asks only the
\* internal voices, and leaves nothing behind.
Plan(r, plan) ==
  /\ run[r].pc = "idle" /\ plan # {}
  /\ \A v \in plan : v \in Pinned \/ status[Cred[v]] # "red"
  /\ run' = [run EXCEPT ![r].pc = "filter"]
  /\ voice' = [voice EXCEPT ![r] = [v \in Voices |-> IF v \in plan THEN "planned" ELSE "no"]]
  /\ UNCHANGED <<used, blocked, status, traced, streak>>

CheckAllowed(r, v) ==
  /\ run[r].pc = "filter" /\ voice[r][v] = "planned"
  /\ voice' = [voice EXCEPT ![r][v] = IF \E d \in {"circuit", "api_429"} : <<v, d>> \in blocked
                                      THEN "no" ELSE "ready"]
  /\ UNCHANGED <<used, blocked, status, run, traced, streak>>

AllBlocked(r) ==
  /\ run[r].pc = "filter" /\ In(r, {"planned", "ready"}) = {}
  /\ run' = [run EXCEPT ![r] = NoRun]
  /\ UNCHANGED <<used, blocked, status, voice, traced, streak>>

Spawn(r) ==
  /\ run[r].pc = "filter" /\ In(r, {"planned"}) = {} /\ In(r, {"ready"}) # {}
  /\ LET n == Cardinality(In(r, {"ready"})) IN
       run' = [run EXCEPT ![r].pc = "wait", ![r].plan = n, ![r].attempted = n]
  /\ Become(r, {"ready"}, "calling")
  /\ UNCHANGED <<used, blocked, status, traced, streak>>

\* call_one_voice; a voice of several is traced as a child of the run.
Answer(r, v, answer) ==
  /\ voice[r][v] = "calling"
  /\ voice' = [voice EXCEPT ![r][v] = answer]
  /\ traced' = IF answer = "ok" /\ run[r].plan >= 2 THEN [traced EXCEPT ![r] = @ \cup {v}] ELSE traced
  /\ UNCHANGED <<used, blocked, status, run, streak>>

\* out.push
Push(r, v, pc) ==
  /\ run' = [run EXCEPT ![r].pc = pc, ![r].cur = {}, ![r].listed = @ \cup {<<v, voice[r][v]>>}]
  /\ voice' = [voice EXCEPT ![r][v] = "in"]

\* collect_voices: a voice that panicked has no name to put down ...
JoinPanicked(r, v) ==
  /\ run[r].pc = "wait" /\ voice[r][v] = "panic"
  /\ Push(r, v, "wait")
  /\ UNCHANGED <<used, blocked, status, traced, streak>>

\* ... and any other is put down under two holds of the lock, which no timeout
\* comes between.
JoinRecord(r, v) ==
  /\ run[r].pc = "wait" /\ voice[r][v] \in Answers \ {"panic"}
  /\ IF voice[r][v] = "ok" THEN RecordSuccess(v) ELSE RecordFailure(v, voice[r][v])
  /\ run' = [run EXCEPT ![r].pc = "status", ![r].cur = {v}]
  /\ UNCHANGED <<status, voice, traced>>

\* Mutant: a quick run brings the status down like any other.
NewStatusAny(r, v) == IF voice[r][v] = "ok" THEN {"healthy"} ELSE {"amber", "red"}

\* update_status_after_voice: red if the provider did not connect, or refused the
\* key; also a spent quota may be a 403.
NewStatus(r, v) ==
  CASE voice[r][v] = "ok" -> {"healthy"}
    [] voice[r][v] # "ok" /\ r \in Quick -> {status[Cred[v]]}
    [] voice[r][v] # "ok" /\ r \notin Quick -> {"amber", "red"}

JoinStatus(r, v) ==
  /\ run[r].pc = "status" /\ v \in run[r].cur
  /\ \E s \in NewStatus(r, v) : status' = [status EXCEPT ![Cred[v]] = s]
  /\ Push(r, v, "wait")
  /\ UNCHANGED <<used, blocked, traced, streak>>

AllJoined(r) ==
  /\ run[r].pc = "wait" /\ In(r, {"calling"} \cup Answers) = {}
  /\ run' = [run EXCEPT ![r].pc = "decide"]
  /\ UNCHANGED <<used, blocked, status, voice, traced, streak>>

\* Mutant: what was collected goes with the future that collected it.
DeadlineDropsAll(r) ==
  /\ run[r].pc = "wait" /\ In(r, {"calling"} \cup Answers) # {}
  /\ run' = [run EXCEPT ![r].pc = "decide", ![r].listed = {}]
  /\ Become(r, {"calling"} \cup Answers, "lost")
  /\ UNCHANGED <<used, blocked, status, traced, streak>>

\* The global timeout: set.shutdown
Deadline(r) ==
  /\ run[r].pc = "wait" /\ In(r, {"calling"} \cup Answers) # {}
  /\ run' = [run EXCEPT ![r].pc = "decide"]
  /\ Become(r, {"calling"} \cup Answers, "lost")
  /\ UNCHANGED <<used, blocked, status, traced, streak>>

Succeeded(r) == \E v \in Voices : <<v, "ok">> \in run[r].listed

\* Mutant: a run that nobody answered in time is not traced.
TraceParentOfSuccess(r) ==
  traced' = IF run[r].plan >= 2 /\ Succeeded(r) THEN [traced EXCEPT ![r] = @ \cup {"parent"}]
            ELSE traced

TraceParent(r) ==
  traced' = IF run[r].plan >= 2 THEN [traced EXCEPT ![r] = @ \cup {"parent"}] ELSE traced

\* The fallback, the parent trace, the result and its row in council_runs.
Decide(r, internal) ==
  /\ run[r].pc = "decide"
  /\ internal > 0 => ~Succeeded(r)
  /\ run' = [run EXCEPT ![r].pc = "done", ![r].internal = internal,
                        ![r].attempted = @ + internal]
  /\ TraceParent(r)
  /\ UNCHANGED <<used, blocked, status, voice, streak>>

Return(r) ==
  /\ run[r].pc = "done"
  /\ run' = [run EXCEPT ![r] = NoRun]
  /\ voice' = [voice EXCEPT ![r] = [v \in Voices |-> "no"]]
  /\ traced' = [traced EXCEPT ![r] = {}]
  /\ UNCHANGED <<used, blocked, status, streak>>

Next ==
  \/ \E k \in Rows, d \in {"circuit", "api_429"} : Expire(k, d)
  \/ \E c \in Creds, s \in {"healthy", "amber", "red"} : Ping(c, s)
  \/ \E r \in Rounds :
       \/ \E plan \in SUBSET PlanOf[r] : Plan(r, plan)
       \/ AllBlocked(r) \/ Spawn(r) \/ AllJoined(r) \/ Deadline(r) \/ Return(r)
       \/ \E n \in 0 .. Internal : Decide(r, n)
       \/ \E v \in Voices : \/ CheckAllowed(r, v) \/ JoinPanicked(r, v) \/ JoinRecord(r, v)
                            \/ JoinStatus(r, v) \/ \E a \in Answers : Answer(r, v, a)

Spec == Init /\ [][Next]_vars
----------------------------------------------------------------------------
\* What a run and the tables promise

\* The result names every voice that was put down in the tables, also when the
\* deadline fell in the middle of the collecting, and its counts add up: who was
\* attempted is listed, was given up or is an internal voice.
ResultIsTheRecord ==
  \A r \in Rounds : run[r].pc \in {"decide", "done"} =>
    /\ {l[1] : l \in run[r].listed} = In(r, {"in"})
    /\ run[r].attempted =
         Cardinality(run[r].listed) + Cardinality(In(r, {"lost"})) + run[r].internal

\* A trace that names a parent is followed by it: children are handed over while
\* the run may still time out or fail.
ParentFollows == \A r \in Rounds : run[r].pc = "done" /\ traced[r] # {} => "parent" \in traced[r]

\* A model that its server, and no other, calls by the name it was asked for.
HasItsRow(v) == ServedAs[v] = v /\ \A u \in Voices \ {v} : ServedAs[u] # v

\* The count of such a model is that of its failures in a row, whichever runs put
\* them down, ...
CountIsStreak == \A v \in Voices : HasItsRow(v) => used[v] = streak[v]

\* ... and when they become Threshold its circuit opens.
TripsAfterStreak ==
  [][\A v \in Voices : HasItsRow(v) /\ streak[v] < Threshold /\ streak'[v] = Threshold =>
       <<v, "circuit">> \in blocked']_vars

\* In a quick run, whose voices share one credential, the failure of one voice
\* does not bring the credential down, beside whatever other runs do to it.
QuickSparesStatus ==
  [][\A c \in Creds : status'[c] # status[c] /\ status'[c] # "healthy" =>
       \A r \in Quick : run'[r] = run[r]]_vars

\* What the council and the tables promise: whenever a run is interrupted, its
\* result is the record, failures in a row open the circuit, and a quick one spares
\* the credential its voices share.
CouncilIsKept == [](ResultIsTheRecord /\ ParentFollows /\ CountIsStreak)
                 /\ TripsAfterStreak /\ QuickSparesStatus

\* resilience.rs: "trip after N consecutive failures", for any model.  Where the
\* server answers with another name the success is put down under that one, and
\* the failures add up however many successes lie between them.
TripsAfterAnyStreak == \A v \in Voices : used[v] = streak[v]
=============================================================================
