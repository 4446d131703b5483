---------------------------- MODULE GuardProofs ----------------------------
(***************************************************************************)
(* Proofs about the registries and stores of Guards that MCGuards checks   *)
(* on small instances, one section for each, for every value of their      *)
(* constants.  MemoryHubProofs is about one more.                          *)
(***************************************************************************)
EXTENDS Guards, Integers, FiniteSetTheorems, TLAPS

----------------------------------------------------------------------------
(* ResourceLocks                                                           *)

\* A grant that still holds is the lock in the table, to the same second.
GrantIsTheLock ==
  \A t \in Holders, k \in Keys :
    Locks!Has(t, k) => lock[k].owner = t /\ lock[k].expires = grant[t][k]

\* The inductive invariant of the lock table and the grants.
LockInv == Locks!TypeOK /\ GrantIsTheLock

\* At first the table is free and nobody holds a grant.
LEMMA LocksInit == Locks!Init => LockInv
BY LocksAssumption
DEF Locks!LocksAssumption, Locks!Init, LockInv, Locks!TypeOK, GrantIsTheLock, Locks!Has,
       Locks!Free, Locks!Nobody, Locks!NoGrant

\* The garbage collection of expired locks, which every request starts with,
\* never frees a lock whose grant still holds.
LEMMA CollectedKeepsGrants ==
  ASSUME LockInv, NEW k \in Keys
  PROVE  /\ Locks!Collected[k] \in {lock[k], Locks!Free}
         /\ \A t \in Holders : Locks!Has(t, k) => Locks!Collected[k] = lock[k]
BY DEF LockInv, GrantIsTheLock, Locks!Has, Locks!Collected, Locks!Expired, Locks!TypeOK

\* Every step keeps the grants and the table in agreement: a request refused or
\* granted, a release, the end of a task and its late clean-up, and the clock.
LEMMA LocksStep == LockInv /\ [Locks!Next]_(Locks!vars) => LockInv'
<1> SUFFICES ASSUME LockInv, [Locks!Next]_(Locks!vars) PROVE LockInv'
  OBVIOUS
<1> USE LocksAssumption
    DEF Locks!LocksAssumption, LockInv, Locks!TypeOK, GrantIsTheLock, Locks!Has, Locks!NoGrant
<1>1. ASSUME NEW t \in Holders, NEW k \in Keys, NEW ttl \in TTLs \cup {Locks!Forever},
             Locks!Acquire(t, k, ttl)
      PROVE  LockInv'
  <2>1. Locks!Until(ttl) \in Nat
    BY DEF Locks!Until, Locks!Forever
  <2>2. Locks!Collected \in [Keys -> [owner : Holders \cup {Locks!Nobody}, expires : Nat]]
    BY DEF Locks!Collected, Locks!Free, Locks!Nobody
  <2>3. UNCHANGED <<now, task, dropping>>
    BY <1>1 DEF Locks!Acquire
  <2>4. CASE Locks!Mine(t, k)
    <3>1. /\ lock' = [Locks!Collected EXCEPT ![k] = [owner |-> t, expires |-> Locks!Until(ttl)]]
          /\ grant' = [grant EXCEPT ![t][k] = Locks!Until(ttl)]
      BY <1>1, <2>4 DEF Locks!Acquire
    <3>2. Locks!TypeOK'
      BY <2>1, <2>2, <2>3, <3>1
    <3>3. \A u \in Holders : u # t => ~Locks!Has(u, k)
      BY <2>4, CollectedKeepsGrants DEF Locks!Mine
    <3>4. ASSUME NEW u \in Holders, NEW j \in Keys, Locks!Has(u, j)'
          PROVE  lock'[j].owner = u /\ lock'[j].expires = grant'[u][j]
      <4>1. CASE u = t /\ j = k
        BY <2>2, <3>1, <4>1
      <4>2. CASE ~(u = t /\ j = k)
        <5>1. grant'[u][j] = grant[u][j] /\ Locks!Has(u, j)
          BY <2>3, <3>1, <3>4, <4>2
        <5>2. j # k
          BY <3>3, <4>2, <5>1
        <5> QED
          BY <2>2, <3>1, <5>1, <5>2, CollectedKeepsGrants
      <4> QED
        BY <4>1, <4>2
    <3> QED
      BY <3>2, <3>4
  <2>5. CASE ~Locks!Mine(t, k)
    <3>1. lock' = Locks!Collected /\ grant' = [grant EXCEPT ![t][k] = Locks!NoGrant]
      BY <1>1, <2>5 DEF Locks!Acquire
    <3>2. Locks!TypeOK'
      BY <2>2, <2>3, <3>1
    <3>3. ASSUME NEW u \in Holders, NEW j \in Keys, Locks!Has(u, j)'
          PROVE  lock'[j].owner = u /\ lock'[j].expires = grant'[u][j]
      <4>1. grant'[u][j] = grant[u][j] /\ Locks!Has(u, j)
        BY <2>3, <3>1, <3>3
      <4> QED
        BY <3>1, <4>1, CollectedKeepsGrants
    <3> QED
      BY <3>2, <3>3
  <2> QED
    BY <2>4, <2>5
<1>2. ASSUME NEW t \in Holders, NEW k \in Keys, Locks!Release(t, k) PROVE LockInv'
  BY <1>2 DEF Locks!Release, Locks!Deletes, Locks!Free
<1>3. ASSUME NEW t \in Holders, Locks!End(t) \/ Locks!Discard(t) \/ Locks!Cleanup(t) PROVE LockInv'
  <2>1. UNCHANGED <<lock, now, grant>> /\ dropping' \subseteq Holders
    BY <1>3 DEF Locks!End, Locks!Discard, Locks!Cleanup
  <2>2. PICK s \in {"ended", "canceled"} : \/ task' = [task EXCEPT ![t].state = s]
                                         \/ task' = [task EXCEPT ![t].worktree = FALSE]
    BY <1>3 DEF Locks!End, Locks!Discard, Locks!Cleanup
  <2>3. task' \in [Holders -> [state : {"open", "ended", "canceled"}, worktree : BOOLEAN]]
    <3>1. CASE task' = [task EXCEPT ![t].state = s]
      BY <3>1
    <3>2. CASE task' = [task EXCEPT ![t].worktree = FALSE]
      <4>1. ASSUME NEW b \in BOOLEAN
            PROVE  [task[t] EXCEPT !.worktree = b]
                     \in [state : {"open", "ended", "canceled"}, worktree : BOOLEAN]
        OBVIOUS
      <4>2. [task[t] EXCEPT !.worktree = FALSE]
              \in [state : {"open", "ended", "canceled"}, worktree : BOOLEAN]
        BY <4>1
      <4> QED
        BY <3>2, <4>2
    <3> QED
      BY <2>2, <3>1, <3>2
  <2> QED
    BY <2>1, <2>3
<1>4. ASSUME NEW t \in Holders, Locks!ReleaseAll(t) PROVE LockInv'
  BY <1>4 DEF Locks!ReleaseAll, Locks!Free
<1>5. CASE Locks!Tick
  BY <1>5 DEF Locks!Tick
<1>6. CASE UNCHANGED Locks!vars
  BY <1>6 DEF Locks!vars
<1> QED
  BY <1>1, <1>2, <1>3, <1>4, <1>5, <1>6 DEF Locks!Next

\* Two tasks never hold the same resource at once, nor does one whose time has
\* passed, whoever asks, renews, releases or ends in whatever order
\* (try_acquire_lock), for any number of tasks, resources and time limits.
THEOREM LocksAreExclusive == Locks!Spec => []GrantIsExclusive
<1>1. LockInv => GrantIsExclusive
  BY DEF LockInv, GrantIsTheLock, GrantIsExclusive, Locks!GrantIsExclusive
<1> QED
  BY <1>1, LocksInit, LocksStep, PTL DEF Locks!Spec
----------------------------------------------------------------------------
(* MobilePairing                                                           *)

\* Device d was told the secret with token t, or is on its way to be.
Claims(d, t) == <<t, d>> \in granted \/ (link[d].pc # "closed" /\ link[d].token = t)

PairSessions == [age : 0 .. Pair!MaxAge, device : Devices \cup {Pair!NoDevice},
                 sent : 0 .. Pair!MaxAge \cup {Pair!Unsent}]
PairLinks == [pc : {"closed", "load", "send", "mark"}, token : Tokens \cup {"none"},
              secret : Nat]

\* The types of what the maps and the connections hold; every live token was
\* minted, and no two of them have the same short code.
PairTypes ==
  /\ session \in [Pair!Live -> PairSessions]
  /\ Pair!Live \subseteq minted /\ minted \subseteq Tokens
  /\ link \in [Devices -> PairLinks]
  /\ granted \subseteq Tokens \X Devices
  /\ secret \in [now : Nat, last : Nat]
  /\ \A t, u \in Pair!Live : Short[t] = Short[u] => t = u

\* A token is claimed by one device at most; while it lives, its session is
\* that device's, and a device that is about to mark the grant was sent it.
ClaimsAreBound ==
  /\ \A d, e \in Devices, t \in Tokens : Claims(d, t) /\ Claims(e, t) => d = e
  /\ \A d \in Devices, t \in Tokens : Claims(d, t) => t \in minted
  /\ \A d \in Devices : \A t \in Pair!Live : Claims(d, t) => session[t].device = d
  /\ \A d \in Devices : link[d].pc # "closed" => link[d].token \in Tokens
  /\ \A d \in Devices : link[d].pc = "mark" => <<link[d].token, d>> \in granted

PairInv == PairTypes /\ ClaimsAreBound /\ Pair!SessionsAgree

\* At first there is no session and every connection is closed.
LEMMA PairInit == Pair!Init => PairInv
BY PairAssumption
DEF Pair!PairingAssumption, Pair!Init, Pair!Closed, Pair!NoSecret, Pair!Live, PairInv, PairTypes,
    PairLinks, ClaimsAreBound, Claims, Pair!SessionsAgree

\* Whatever tokens go, by a rotation or by the cleanup, they go from all three
\* maps, and nobody's claim is freed for another device.
LEMMA RemoveKeeps ==
  ASSUME PairInv, NEW T, Pair!Remove(T), UNCHANGED <<minted, link, granted>>,
         secret' \in [now : Nat, last : Nat]
  PROVE  PairInv'
<1> USE DEF PairInv, PairTypes, Pair!Remove
<1>1. Pair!Live' = Pair!Live \ T /\ \A t \in Pair!Live' : session'[t] = session[t]
  BY DEF Pair!Live
<1>2. PairTypes'
  <2>1. session' \in [Pair!Live' -> PairSessions]
    BY <1>1 DEF Pair!Live
  <2> QED
    BY <1>1, <2>1
<1>3. ClaimsAreBound'
  BY <1>1 DEF ClaimsAreBound, Claims
<1>4. Pair!SessionsAgree'
  <2>1. bySession' = Pair!Live'
    BY <1>1 DEF Pair!SessionsAgree
  <2>2. DOMAIN byShort' = {Short[t] : t \in Pair!Live'}
    <3>1. DOMAIN byShort' = {Short[t] : t \in Pair!Live} \ {Short[t] : t \in T \cap Pair!Live}
      BY DEF Pair!SessionsAgree
    <3>2. \A t \in Pair!Live', u \in T \cap Pair!Live : Short[t] # Short[u]
      BY <1>1
    <3> QED
      BY <1>1, <3>1, <3>2
  <2>3. ASSUME NEW s \in DOMAIN byShort'
        PROVE  byShort'[s] \in Pair!Live' /\ Short[byShort'[s]] = s
    <3>1. s \in DOMAIN byShort /\ byShort'[s] = byShort[s] /\ s \notin {Short[t] : t \in T \cap Pair!Live}
      BY <2>3
    <3>2. byShort[s] \in Pair!Live /\ Short[byShort[s]] = s
      BY <3>1 DEF Pair!SessionsAgree
    <3> QED
      BY <1>1, <3>1, <3>2
  <2>4. \A t \in Pair!Live' : session'[t].sent # Pair!Unsent => <<t, session'[t].device>> \in granted'
    BY <1>1 DEF Pair!SessionsAgree
  <2> QED
    BY <2>1, <2>2, <2>3, <2>4 DEF Pair!SessionsAgree
<1> QED
  BY <1>2, <1>3, <1>4

\* A step that changes no map and no claim, and leaves each session its device.
LEMMA LinkMoves ==
  ASSUME PairInv, UNCHANGED <<session, byShort, bySession, minted>>, secret' \in [now : Nat, last : Nat],
         link' \in [Devices -> PairLinks], granted \subseteq granted', granted' \subseteq Tokens \X Devices,
         \A d \in Devices, t \in Tokens : Claims(d, t)' => Claims(d, t),
         \A d \in Devices : link'[d].pc # "closed" => link'[d].token = link[d].token /\ link[d].pc # "closed",
         \A d \in Devices : link'[d].pc = "mark" => <<link'[d].token, d>> \in granted'
  PROVE  PairInv'
<1>1. PairTypes'
  BY DEF PairInv, PairTypes, Pair!Live
<1>2. ClaimsAreBound'
  <2>1. Pair!Live' = Pair!Live
    BY DEF Pair!Live
  <2>2. Pair!Live \subseteq Tokens
    BY DEF PairInv, PairTypes
  <2> QED
    BY <2>1, <2>2 DEF PairInv, ClaimsAreBound
<1>3. Pair!SessionsAgree'
  BY DEF PairInv, Pair!SessionsAgree, Pair!Live
<1> QED
  BY <1>1, <1>2, <1>3 DEF PairInv

\* Every step keeps the maps, the claims and the grants in agreement: a code
\* made, each step of a redemption, a rotation, the cleanup and the clock.
LEMMA PairStep == PairInv /\ [Pair!Next]_(Pair!pairVars) => PairInv'
<1> SUFFICES ASSUME PairInv, [Pair!Next]_(Pair!pairVars) PROVE PairInv'
  OBVIOUS
<1>1. ASSUME NEW t \in Tokens, Pair!Generate(t) PROVE PairInv'
  <2> DEFINE kept == {u \in Pair!Live : ~Pair!Expired(u)}
  <2>1. /\ t \notin minted /\ t \notin kept
        /\ \A u \in kept : Short[u] # Short[t]
        /\ session' = [u \in kept \cup {t} |->
             IF u = t THEN [age |-> 0, device |-> Pair!NoDevice, sent |-> Pair!Unsent] ELSE session[u]]
        /\ byShort' = [s \in {Short[u] : u \in kept \cup {t}} |->
             CHOOSE u \in kept \cup {t} : Short[u] = s]
        /\ bySession' = kept \cup {t} /\ minted' = minted \cup {t}
        /\ UNCHANGED <<secret, link, granted>>
    BY <1>1 DEF Pair!Generate, PairInv, PairTypes
  <2>2. Pair!Live' = kept \cup {t} /\ kept \subseteq Pair!Live
    BY <2>1 DEF Pair!Live
  <2>3. PairTypes'
    <3>1. [age |-> 0, device |-> Pair!NoDevice, sent |-> Pair!Unsent] \in PairSessions
      BY PairAssumption DEF Pair!PairingAssumption, PairSessions, Pair!MaxAge
    <3>2. \A u \in kept : session[u] \in PairSessions
      BY DEF PairInv, PairTypes
    <3>3. session' \in [Pair!Live' -> PairSessions]
      BY <2>1, <2>2, <3>1, <3>2
    <3> HIDE DEF kept
    <3> QED
      BY <2>1, <2>2, <3>3 DEF PairInv, PairTypes
  <2>4. ClaimsAreBound'
    <3>1. \A d \in Devices, u \in Tokens : Claims(d, u)' <=> Claims(d, u)
      BY <2>1 DEF Claims
    <3>2. \A d \in Devices : ~Claims(d, t)
      BY <2>1 DEF PairInv, ClaimsAreBound
    <3>3. \A u \in kept : session'[u] = session[u] /\ u \in Tokens
      BY <2>1 DEF PairInv, PairTypes
    <3> HIDE DEF kept
    <3>4. \A d \in Devices : \A u \in Pair!Live' : Claims(d, u)' => session'[u].device = d
      BY <2>2, <3>1, <3>2, <3>3 DEF PairInv, ClaimsAreBound
    <3> QED
      BY <2>1, <3>1, <3>4 DEF PairInv, ClaimsAreBound
  <2>5. Pair!SessionsAgree'
    <3>1. \A s \in DOMAIN byShort' : byShort'[s] \in kept \cup {t} /\ Short[byShort'[s]] = s
      BY <2>1
    <3>2. ASSUME NEW u \in Pair!Live', session'[u].sent # Pair!Unsent
          PROVE  <<u, session'[u].device>> \in granted'
      <4>1. u \in kept /\ session'[u] = session[u]
        BY <2>1, <2>2, <3>2
      <4> QED
        BY <2>1, <3>2, <4>1 DEF PairInv, Pair!SessionsAgree
    <3>3. DOMAIN byShort' = {Short[u] : u \in Pair!Live'} /\ bySession' = Pair!Live'
      BY <2>1, <2>2
    <3>4. \A s \in DOMAIN byShort' : byShort'[s] \in Pair!Live' /\ Short[byShort'[s]] = s
      BY <2>2, <3>1
    <3> QED
      BY <3>2, <3>3, <3>4 DEF Pair!SessionsAgree
  <2> QED
    BY <2>3, <2>4, <2>5 DEF PairInv
<1>2. ASSUME NEW d \in Devices, NEW t \in Tokens, Pair!MarkRedeem(d, t) PROVE PairInv'
  <2>1. /\ link[d].pc = "closed" /\ t \in Pair!Live /\ Pair!MayRedeem(t, d)
        /\ session' = IF Pair!Used(t) THEN session ELSE [session EXCEPT ![t].device = d]
        /\ link' = [link EXCEPT ![d] = [pc |-> "load", token |-> t, secret |-> Pair!NoSecret]]
        /\ UNCHANGED <<byShort, bySession, minted, secret, granted>>
    BY <1>2 DEF Pair!MarkRedeem
  <2>2. /\ session' \in [Pair!Live -> PairSessions] /\ Pair!Live' = Pair!Live
        /\ session'[t].device = d
        /\ \A u \in Pair!Live : session'[u].sent = session[u].sent
        /\ \A u \in Pair!Live : u # t \/ session[t].device # Pair!NoDevice
                                  => session'[u].device = session[u].device
    <3>1. session \in [Pair!Live -> PairSessions]
      BY DEF PairInv, PairTypes
    <3>2. CASE Pair!Used(t)
      BY <2>1, <3>1, <3>2 DEF Pair!Live, Pair!MayRedeem, Pair!Used
    <3>3. CASE ~Pair!Used(t)
      <4>1. session' = [session EXCEPT ![t].device = d]
        BY <2>1, <3>3
      <4>2. [session[t] EXCEPT !.device = d] \in PairSessions
        BY <2>1, <3>1 DEF PairSessions
      <4>3. session' = [session EXCEPT ![t] = [session[t] EXCEPT !.device = d]]
        BY <4>1
      <4> QED
        BY <2>1, <3>1, <3>3, <4>2, <4>3 DEF Pair!Live, Pair!Used, PairSessions
    <3> QED
      BY <3>2, <3>3
  <2>3. PairTypes'
    <3>1. link' \in [Devices -> PairLinks]
      BY <2>1 DEF PairInv, PairTypes, PairLinks, Pair!NoSecret
    <3> QED
      BY <2>1, <2>2, <3>1 DEF PairInv, PairTypes
  <2>4. \A e \in Devices, u \in Tokens : Claims(e, u)' => Claims(e, u) \/ (e = d /\ u = t)
    BY <2>1 DEF Claims, PairInv, PairTypes
  <2>5. \A e \in Devices : Claims(e, t) => e = d
    <3>1. ASSUME NEW e \in Devices, Claims(e, t) PROVE e = d
      <4>1. session[t].device = e
        BY <2>1, <3>1 DEF PairInv, ClaimsAreBound
      <4>2. e # Pair!NoDevice
        BY PairAssumption DEF Pair!PairingAssumption, Pair!NoDevice
      <4> QED
        BY <2>2, <2>1, <4>1, <4>2
    <3> QED
      BY <3>1
  <2>6. ClaimsAreBound'
    <3>1. t \in minted /\ Pair!Live \subseteq Tokens
      BY <2>1 DEF PairInv, PairTypes
    <3>2. \A e, f \in Devices, u \in Tokens : Claims(e, u)' /\ Claims(f, u)' => e = f
      BY <2>4, <2>5 DEF PairInv, ClaimsAreBound
    <3>3. \A e \in Devices, u \in Tokens : Claims(e, u)' => u \in minted'
      BY <2>1, <2>4, <3>1 DEF PairInv, ClaimsAreBound
    <3>4. ASSUME NEW e \in Devices, NEW u \in Pair!Live', Claims(e, u)'
          PROVE  session'[u].device = e
      <4>1. CASE u = t
        BY <2>2, <2>4, <2>5, <3>1, <3>4, <4>1
      <4>2. CASE u # t
        BY <2>2, <2>4, <3>1, <3>4, <4>2 DEF PairInv, ClaimsAreBound
      <4> QED
        BY <4>1, <4>2
    <3>5. ASSUME NEW e \in Devices
          PROVE  /\ link'[e].pc # "closed" => link'[e].token \in Tokens
                 /\ link'[e].pc = "mark" => <<link'[e].token, e>> \in granted'
      <4>1. link'[e] = link[e] \/ link'[e] = [pc |-> "load", token |-> t, secret |-> Pair!NoSecret]
        BY <2>1 DEF PairInv, PairTypes
      <4> QED
        BY <2>1, <4>1 DEF PairInv, ClaimsAreBound
    <3> QED
      BY <3>2, <3>3, <3>4, <3>5 DEF ClaimsAreBound
  <2>7. Pair!SessionsAgree'
    <3>1. ASSUME NEW u \in Pair!Live, session[u].sent # Pair!Unsent
          PROVE  <<u, session'[u].device>> \in granted
      <4>1. <<u, session[u].device>> \in granted
        BY <3>1 DEF PairInv, Pair!SessionsAgree
      <4>2. session[u].device \in Devices
        BY <4>1 DEF PairInv, PairTypes
      <4>3. session[u].device # Pair!NoDevice
        BY <4>2, PairAssumption DEF Pair!PairingAssumption, Pair!NoDevice
      <4> QED
        BY <2>2, <4>1, <4>3
    <3> QED
      BY <2>1, <2>2, <3>1 DEF PairInv, Pair!SessionsAgree
  <2> QED
    BY <2>3, <2>6, <2>7 DEF PairInv
<1>3. ASSUME NEW d \in Devices, Pair!LoadSecret(d) PROVE PairInv'
  <2>1. link \in [Devices -> PairLinks] /\ secret \in [now : Nat, last : Nat]
    BY DEF PairInv, PairTypes
  <2>2. PICK l \in PairLinks :
          link' = [link EXCEPT ![d] = l] /\ (l.pc = "closed" \/ (l.pc = "send" /\ l.token = link[d].token))
    <3>1. Pair!Closed \in PairLinks /\ Pair!Closed.pc = "closed"
      BY DEF PairLinks, Pair!Closed, Pair!NoSecret
    <3>2. [link[d] EXCEPT !.pc = "send", !.secret = secret.now] \in PairLinks
      BY <2>1 DEF PairLinks
    <3>3. /\ [link[d] EXCEPT !.pc = "send", !.secret = secret.now].pc = "send"
          /\ [link[d] EXCEPT !.pc = "send", !.secret = secret.now].token = link[d].token
      BY <2>1 DEF PairLinks
    <3> QED
      BY <1>3, <2>1, <3>1, <3>2, <3>3 DEF Pair!LoadSecret
  <2>3. UNCHANGED <<session, byShort, bySession, minted, secret, granted>> /\ link[d].pc = "load"
    BY <1>3 DEF Pair!LoadSecret
  <2>4. \A e \in Devices : link'[e].pc # "closed" => link'[e].token = link[e].token /\ link[e].pc # "closed"
    BY <2>1, <2>2, <2>3
  <2>5. \A e \in Devices, t \in Tokens : Claims(e, t)' => Claims(e, t)
    BY <2>3, <2>4 DEF Claims
  <2>6. \A e \in Devices : link'[e].pc = "mark" => <<link'[e].token, e>> \in granted'
    BY <2>1, <2>2, <2>3 DEF PairInv, ClaimsAreBound
  <2>7. link' \in [Devices -> PairLinks] /\ granted \subseteq granted' /\ granted' \subseteq Tokens \X Devices
    BY <2>1, <2>2, <2>3 DEF PairInv, PairTypes
  <2> QED
    BY <2>1, <2>3, <2>4, <2>5, <2>6, <2>7, LinkMoves
<1>4. ASSUME NEW d \in Devices, Pair!SendGrant(d) PROVE PairInv'
  <2>1. link \in [Devices -> PairLinks] /\ link[d].pc = "send" /\ link[d].token \in Tokens
    BY <1>4 DEF Pair!SendGrant, PairInv, PairTypes, ClaimsAreBound
  <2>2. /\ link' = [link EXCEPT ![d].pc = "mark"]
        /\ granted' = granted \cup {<<link[d].token, d>>}
        /\ UNCHANGED <<session, byShort, bySession, minted, secret>>
    BY <1>4 DEF Pair!SendGrant
  <2>3. [link[d] EXCEPT !.pc = "mark"] \in PairLinks /\ link' = [link EXCEPT ![d] = [link[d] EXCEPT !.pc = "mark"]]
    BY <2>1, <2>2 DEF PairLinks
  <2>4. /\ link' \in [Devices -> PairLinks]
        /\ link'[d].pc = "mark" /\ link'[d].token = link[d].token
        /\ \A e \in Devices : e # d => link'[e] = link[e]
    BY <2>1, <2>3 DEF PairLinks
  <2>5. \A e \in Devices, t \in Tokens : Claims(e, t)' => Claims(e, t)
    BY <2>1, <2>2, <2>4 DEF Claims
  <2>6. \A e \in Devices : link'[e].pc = "mark" => <<link'[e].token, e>> \in granted'
    BY <2>2, <2>4 DEF PairInv, ClaimsAreBound
  <2>7. granted \subseteq granted' /\ granted' \subseteq Tokens \X Devices /\ secret' \in [now : Nat, last : Nat]
    BY <2>1, <2>2 DEF PairInv, PairTypes
  <2>8. \A e \in Devices : link'[e].pc # "closed" => link'[e].token = link[e].token /\ link[e].pc # "closed"
    BY <2>1, <2>4
  <2> QED
    BY <2>2, <2>4, <2>5, <2>6, <2>7, <2>8, LinkMoves
<1>5. ASSUME NEW d \in Devices, Pair!SendFails(d) PROVE PairInv'
  <2>1. link \in [Devices -> PairLinks] /\ secret \in [now : Nat, last : Nat]
    BY DEF PairInv, PairTypes
  <2>2. /\ link' = [link EXCEPT ![d] = Pair!Closed]
        /\ UNCHANGED <<session, byShort, bySession, minted, secret, granted>>
    BY <1>5 DEF Pair!SendFails
  <2>3. Pair!Closed \in PairLinks /\ Pair!Closed.pc = "closed"
    BY DEF PairLinks, Pair!Closed, Pair!NoSecret
  <2>4. /\ link' \in [Devices -> PairLinks]
        /\ \A e \in Devices : link'[e].pc # "closed" => link'[e] = link[e]
    BY <2>1, <2>2, <2>3
  <2>5. \A e \in Devices, t \in Tokens : Claims(e, t)' => Claims(e, t)
    BY <2>2, <2>4 DEF Claims
  <2>6. \A e \in Devices : link'[e].pc = "mark" => <<link'[e].token, e>> \in granted'
    BY <2>2, <2>4 DEF PairInv, ClaimsAreBound
  <2>7. granted \subseteq granted' /\ granted' \subseteq Tokens \X Devices
    BY <2>2 DEF PairInv, PairTypes
  <2> QED
    BY <2>1, <2>2, <2>4, <2>5, <2>6, <2>7, LinkMoves
<1>6. ASSUME NEW d \in Devices, Pair!MarkGrantSent(d) PROVE PairInv'
  <2> DEFINE t == link[d].token
  <2>1. link \in [Devices -> PairLinks] /\ <<t, d>> \in granted /\ t \in Tokens
    BY <1>6 DEF Pair!MarkGrantSent, PairInv, PairTypes, ClaimsAreBound
  <2>2. /\ session' = IF t \in Pair!Live THEN [session EXCEPT ![t].sent = 0] ELSE session
        /\ link' = [link EXCEPT ![d] = Pair!Closed]
        /\ UNCHANGED <<byShort, bySession, minted, secret, granted>>
    BY <1>6 DEF Pair!MarkGrantSent
  <2>3. Pair!Closed \in PairLinks /\ Pair!Closed.pc = "closed"
    BY DEF PairLinks, Pair!Closed, Pair!NoSecret
  <2>4. t \in Pair!Live => session[t].device = d
    BY <2>1 DEF PairInv, ClaimsAreBound, Claims
  <2>5. /\ session' \in [Pair!Live -> PairSessions] /\ Pair!Live' = Pair!Live
        /\ \A u \in Pair!Live : session'[u].device = session[u].device
        /\ \A u \in Pair!Live : u # t => session'[u].sent = session[u].sent
    <3>1. session \in [Pair!Live -> PairSessions] /\ 0 \in 0 .. Pair!MaxAge
      BY PairAssumption DEF PairInv, PairTypes, Pair!PairingAssumption, Pair!MaxAge
    <3>2. CASE t \in Pair!Live
      <4>1. [session[t] EXCEPT !.sent = 0] \in PairSessions
        BY <3>1, <3>2 DEF PairSessions
      <4>2. session' = [session EXCEPT ![t] = [session[t] EXCEPT !.sent = 0]]
        BY <2>2, <3>2
      <4> HIDE DEF t
      <4> QED
        BY <3>1, <3>2, <4>1, <4>2 DEF Pair!Live, PairSessions
    <3>3. CASE t \notin Pair!Live
      BY <2>2, <3>1, <3>3 DEF Pair!Live
    <3> QED
      BY <3>2, <3>3
  <2>6. /\ link' \in [Devices -> PairLinks]
        /\ \A e \in Devices : link'[e].pc # "closed" => link'[e] = link[e]
    BY <2>1, <2>2, <2>3
  <2>7. PairTypes'
    BY <2>2, <2>5, <2>6 DEF PairInv, PairTypes
  <2>8. ClaimsAreBound'
    <3>1. \A e \in Devices, u \in Tokens : Claims(e, u)' => Claims(e, u)
      BY <2>2, <2>6 DEF Claims
    <3>2. Pair!Live \subseteq Tokens
      BY DEF PairInv, PairTypes
    <3> QED
      BY <2>2, <2>5, <2>6, <3>1, <3>2 DEF PairInv, ClaimsAreBound
  <2>9. Pair!SessionsAgree'
    <3>1. ASSUME NEW u \in Pair!Live, session'[u].sent # Pair!Unsent
          PROVE  <<u, session'[u].device>> \in granted
      <4>1. CASE u = t
        BY <2>1, <2>4, <2>5, <4>1
      <4>2. CASE u # t
        BY <2>5, <3>1, <4>2 DEF PairInv, Pair!SessionsAgree
      <4> QED
        BY <4>1, <4>2
    <3> QED
      BY <2>2, <2>5, <3>1 DEF PairInv, Pair!SessionsAgree
  <2> QED
    BY <2>7, <2>8, <2>9 DEF PairInv
<1>7. CASE Pair!RotateClear
  <2>1. secret' \in [now : Nat, last : Nat]
    BY <1>7 DEF Pair!RotateClear, PairInv, PairTypes, Pair!NoSecret
  <2> QED
    BY <1>7, <2>1, RemoveKeeps DEF Pair!RotateClear
<1>8. CASE Pair!RotateSave
  <2>1. secret' \in [now : Nat, last : Nat]
    BY <1>8 DEF Pair!RotateSave, PairInv, PairTypes
  <2>2. UNCHANGED <<session, byShort, bySession, minted, link, granted>>
    BY <1>8 DEF Pair!RotateSave
  <2> QED
    BY <2>1, <2>2 DEF PairInv, PairTypes, ClaimsAreBound, Claims, Pair!SessionsAgree, Pair!Live
<1>9. CASE Pair!Cleanup
  <2>1. PICK T : Pair!Remove(T)
    BY <1>9 DEF Pair!Cleanup
  <2>2. UNCHANGED <<minted, secret, link, granted>> /\ secret' \in [now : Nat, last : Nat]
    BY <1>9 DEF Pair!Cleanup, PairInv, PairTypes
  <2> QED
    BY <2>1, <2>2, RemoveKeeps
<1>10. CASE Pair!Tick
  <2>1. UNCHANGED <<byShort, bySession, minted, secret, link, granted>>
    BY <1>10 DEF Pair!Tick
  <2>2. /\ session' \in [Pair!Live -> PairSessions] /\ Pair!Live' = Pair!Live
        /\ \A u \in Pair!Live : /\ session'[u].device = session[u].device
                                /\ session[u].sent = Pair!Unsent => session'[u].sent = Pair!Unsent
    <3>1. session \in [Pair!Live -> PairSessions] /\ Pair!MaxAge \in Nat
      BY PairAssumption DEF PairInv, PairTypes, Pair!PairingAssumption, Pair!MaxAge
    <3>2. ASSUME NEW u \in Pair!Live
          PROVE  /\ session'[u] \in PairSessions /\ session'[u].device = session[u].device
                 /\ session[u].sent = Pair!Unsent => session'[u].sent = Pair!Unsent
      <4> DEFINE older(n) == IF n < Pair!MaxAge THEN n + 1 ELSE n
      <4>1. session[u] \in PairSessions
        BY <3>1
      <4>2. session'[u] = [session[u] EXCEPT !.age = older(session[u].age), !.sent = older(session[u].sent)]
        BY <1>10 DEF Pair!Tick
      <4>3. older(session[u].age) \in 0 .. Pair!MaxAge
        BY <3>1, <4>1 DEF PairSessions
      <4>4. /\ older(session[u].sent) \in 0 .. Pair!MaxAge \cup {Pair!Unsent}
            /\ session[u].sent = Pair!Unsent => older(session[u].sent) = Pair!Unsent
        BY <3>1, <4>1 DEF PairSessions, Pair!Unsent
      <4> HIDE DEF older
      <4> QED
        BY <4>1, <4>2, <4>3, <4>4 DEF PairSessions
    <3> QED
      BY <1>10, <3>1, <3>2 DEF Pair!Tick, Pair!Live
  <2>3. PairTypes'
    BY <2>1, <2>2 DEF PairInv, PairTypes
  <2>4. ClaimsAreBound'
    BY <2>1, <2>2 DEF PairInv, ClaimsAreBound, Claims
  <2>5. Pair!SessionsAgree'
    BY <2>1, <2>2 DEF PairInv, Pair!SessionsAgree
  <2> QED
    BY <2>3, <2>4, <2>5 DEF PairInv
<1>11. CASE UNCHANGED Pair!pairVars
  BY <1>11 DEF Pair!pairVars, PairInv, PairTypes, ClaimsAreBound, Claims, Pair!SessionsAgree, Pair!Live
<1> QED
  BY <1>1, <1>2, <1>3, <1>4, <1>5, <1>6, <1>7, <1>8, <1>9, <1>10, <1>11 DEF Pair!Next

\* One code pairs one phone, and the three maps and what was granted agree
\* (mobile_qr_pairing.rs), whatever devices redeem it at once, retry or lose
\* their connection, and however often the secret is rotated and the sessions
\* are cleaned up in between, for any number of tokens and devices.
THEOREM PairingIsExclusive == Pair!Spec => []PairingIsKept
<1>1. PairInv => PairingIsKept
  <2> SUFFICES ASSUME PairInv PROVE Pair!OneDevicePerToken
    BY DEF PairInv, PairingIsKept, Pair!PairingIsKept
  <2>1. ASSUME NEW g \in granted, NEW h \in granted, g[1] = h[1] PROVE g[2] = h[2]
    <3>1. /\ g = <<g[1], g[2]>> /\ g[1] \in Tokens /\ g[2] \in Devices
          /\ h = <<h[1], h[2]>> /\ h[1] \in Tokens /\ h[2] \in Devices
      BY DEF PairInv, PairTypes
    <3>2. Claims(g[2], g[1]) /\ Claims(h[2], g[1])
      BY <2>1, <3>1 DEF Claims
    <3> QED
      BY <3>1, <3>2 DEF PairInv, ClaimsAreBound
  <2> QED
    BY <2>1 DEF Pair!OneDevicePerToken
<1> QED
  BY <1>1, PairInit, PairStep, PTL DEF Pair!Spec

----------------------------------------------------------------------------
(* Review                                                                  *)

DiffStates == {"none", "pending", "approved", "rejected"}

\* What a window that is up to date shows as approved is what is approved; no
\* window is ahead of the group, and what was applied was confirmed and fits.
ShownIsCurrent ==
  /\ hunk \in [Hunks -> DiffStates]
  /\ shown \in [Windows -> [open : BOOLEAN, revision : Nat, hunk : [Hunks -> DiffStates]]]
  /\ revision \in Nat
  /\ \A w \in Windows : shown[w].revision <= revision
  /\ \A w \in Windows : shown[w].open /\ shown[w].revision = revision =>
       Diff!ApprovedIn(shown[w].hunk) = Diff!ApprovedIn(hunk)

\* What the command under way is going to write was confirmed and fits.
CallIsConfirmed ==
  /\ DOMAIN apply = {"pc", "by", "hunks", "confirmed", "head"}
  /\ apply.hunks = apply.confirmed
  /\ \A p \in Overlaps : p \subseteq apply.hunks => \A g, h \in p : Of[g] = Of[h]

DiffInv == ShownIsCurrent /\ CallIsConfirmed /\ Diff!AppliedIsConfirmed

\* At first no window has opened the review and nothing was applied.
LEMMA DiffInit == Diff!Init => DiffInv
BY DiffAssumption
DEF Diff!ReviewAssumption, Diff!Init, Diff!Nothing, Diff!NoCall, Diff!NoApply, DiffInv, ShownIsCurrent,
    CallIsConfirmed, DiffStates, Diff!ApprovedIn, Diff!AppliedIsConfirmed

\* Every step keeps the windows that are up to date in agreement with the
\* table: a variant projected by another window adds no approved hunk, and a
\* decision leaves every other window behind.
LEMMA DiffStep == DiffInv /\ [Diff!Next]_(Diff!vars) => DiffInv'
<1> SUFFICES ASSUME DiffInv, [Diff!Next]_(Diff!vars) PROVE DiffInv'
  OBVIOUS
<1> USE DEF DiffInv, ShownIsCurrent
<1>1. ASSUME NEW w \in Windows, Diff!Open(w) PROVE DiffInv'
  <2> DEFINE new == {h \in Hunks : Of[h] \in Diff!Projected}
             states == [h \in Hunks |-> IF h \in new THEN "pending" ELSE hunk[h]]
  <2>1. /\ hunk' = states
        /\ shown' = [shown EXCEPT ![w] = [open |-> TRUE, revision |-> revision, hunk |-> states]]
        /\ UNCHANGED <<revision, apply, applied>>
    BY <1>1 DEF Diff!Open, Diff!Load
  <2>2. \A h \in new : hunk[h] = "none"
    BY DEF Diff!Projected
  <2>3. states \in [Hunks -> DiffStates]
    BY DEF DiffStates
  <2>4. Diff!ApprovedIn(states) = Diff!ApprovedIn(hunk)
    BY <2>2 DEF Diff!ApprovedIn
  <2> HIDE DEF states
  <2>5. ShownIsCurrent'
    BY <2>1, <2>3, <2>4
  <2> QED
    BY <2>1, <2>5 DEF Diff!AppliedIsConfirmed, CallIsConfirmed
<1>2. ASSUME NEW w \in Windows, NEW h \in Hunks, NEW d \in DiffStates, Diff!Decide(w, h, d)
      PROVE  DiffInv'
  <2> DEFINE decided == [open |-> TRUE, revision |-> revision',
                         hunk |-> [shown[w].hunk EXCEPT ![h] = d]]
  <2>1. /\ hunk' = [hunk EXCEPT ![h] = d] /\ revision' = revision + 1
        /\ shown' = [shown EXCEPT ![w] = decided]
        /\ shown[w].open /\ shown[w].revision = revision
        /\ UNCHANGED <<apply, applied>>
    BY <1>2 DEF Diff!Decide, Diff!Saved
  <2>2. /\ decided \in [open : BOOLEAN, revision : Nat, hunk : [Hunks -> DiffStates]]
        /\ decided.revision = revision' /\ decided.hunk = [shown[w].hunk EXCEPT ![h] = d]
    BY <2>1
  <2>3. Diff!ApprovedIn([shown[w].hunk EXCEPT ![h] = d]) = Diff!ApprovedIn(hunk')
    BY <2>1 DEF Diff!ApprovedIn
  <2> HIDE DEF decided
  <2>4. ShownIsCurrent'
    <3>1. ASSUME NEW v \in Windows
          PROVE  /\ shown'[v].revision <= revision'
                 /\ shown'[v].open /\ shown'[v].revision = revision' =>
                      Diff!ApprovedIn(shown'[v].hunk) = Diff!ApprovedIn(hunk')
      <4>1. CASE v = w
        BY <2>1, <2>2, <2>3, <4>1
      <4>2. CASE v # w
        BY <2>1, <4>2
      <4> QED
        BY <4>1, <4>2
    <3>2. hunk' \in [Hunks -> DiffStates] /\ revision' \in Nat
      BY <2>1
    <3>3. shown' \in [Windows -> [open : BOOLEAN, revision : Nat, hunk : [Hunks -> DiffStates]]]
      BY <2>1, <2>2
    <3> QED
      BY <3>1, <3>2, <3>3 DEF Diff!ApprovedIn
  <2> QED
    BY <2>1, <2>4 DEF Diff!AppliedIsConfirmed, CallIsConfirmed
<1>3. ASSUME NEW w \in Windows, Diff!Close(w) PROVE DiffInv'
  <2>1. /\ shown' = [shown EXCEPT ![w] = Diff!Nothing]
        /\ UNCHANGED <<hunk, revision, apply, applied>>
    BY <1>3 DEF Diff!Close
  <2>2. ShownIsCurrent'
    BY <2>1 DEF Diff!Nothing, DiffStates
  <2> QED
    BY <2>1, <2>2 DEF Diff!AppliedIsConfirmed, CallIsConfirmed
<1>4. ASSUME NEW w \in Windows, Diff!Confirm(w) PROVE DiffInv'
  <2>1. /\ UNCHANGED <<hunk, revision, shown>> /\ applied' = Diff!NoApply
        /\ apply'.hunks = Diff!ApprovedIn(hunk)
        /\ apply'.confirmed = Diff!ApprovedIn(shown[w].hunk)
        /\ DOMAIN apply' = {"pc", "by", "hunks", "confirmed", "head"}
        /\ shown[w].open /\ shown[w].revision = revision /\ Diff!Conflicts(hunk) = {}
    BY <1>4 DEF Diff!Confirm
  <2>2. CallIsConfirmed'
    <3>1. ASSUME NEW p \in Overlaps, p \subseteq Diff!ApprovedIn(hunk)
          PROVE  \A g, h \in p : Of[g] = Of[h]
      BY <2>1, <3>1 DEF Diff!Conflicts
    <3> QED
      BY <2>1, <3>1 DEF CallIsConfirmed
  <2>3. Diff!AppliedIsConfirmed'
    BY <2>1, DiffAssumption DEF Diff!NoApply, Diff!AppliedIsConfirmed, Diff!ReviewAssumption
  <2> QED
    BY <2>1, <2>2, <2>3
<1>5. ASSUME Diff!Write PROVE DiffInv'
  <2>1. /\ shown' = [shown EXCEPT ![apply.by] = Diff!Nothing] /\ apply' = Diff!NoCall
        /\ UNCHANGED <<hunk, revision>>
        /\ applied'.wrote = apply.hunks /\ applied'.confirmed = apply.confirmed
    BY <1>5 DEF Diff!Write
  <2>2. CallIsConfirmed'
    BY <2>1, DiffAssumption DEF Diff!NoCall, Diff!ReviewAssumption, CallIsConfirmed
  <2>3. ShownIsCurrent'
    <3>1. DOMAIN shown' = Windows /\ \A w \in Windows : shown'[w] \in {shown[w], Diff!Nothing}
      BY <2>1
    <3>2. Diff!Nothing \in [open : BOOLEAN, revision : Nat, hunk : [Hunks -> DiffStates]]
      BY DEF Diff!Nothing, DiffStates
    <3>3. shown' = [w \in Windows |-> shown'[w]]
      BY <2>1
    <3>4. shown' \in [Windows -> [open : BOOLEAN, revision : Nat, hunk : [Hunks -> DiffStates]]]
      BY <3>1, <3>2, <3>3
    <3> QED
      BY <2>1, <3>1, <3>4 DEF Diff!Nothing
  <2> QED
    BY <2>1, <2>2, <2>3 DEF Diff!AppliedIsConfirmed, CallIsConfirmed
<1>6. ASSUME Diff!ReadHead \/ Diff!Compare PROVE DiffInv'
  <2>1. /\ apply'.hunks = apply.hunks /\ apply'.confirmed = apply.confirmed
        /\ DOMAIN apply' = DOMAIN apply /\ UNCHANGED <<hunk, revision, shown, applied>>
    BY <1>6 DEF Diff!ReadHead, Diff!Compare, CallIsConfirmed
  <2> QED
    BY <2>1 DEF Diff!AppliedIsConfirmed, CallIsConfirmed
<1>7. ASSUME Diff!Refuse PROVE DiffInv'
  BY <1>7, DiffAssumption DEF Diff!Refuse, Diff!NoCall, Diff!AppliedIsConfirmed, Diff!ReviewAssumption,
                             CallIsConfirmed
<1>8. ASSUME UNCHANGED <<hunk, revision, shown, apply, applied>> PROVE DiffInv'
  BY <1>8 DEF Diff!AppliedIsConfirmed, CallIsConfirmed
<1> QED
  BY <1>1, <1>2, <1>3, <1>4, <1>5, <1>6, <1>7, <1>8
  DEF Diff!Next, Diff!vars, Diff!States, DiffStates, Diff!RefreshConflicts, Diff!Launched,
      Diff!EditTree, Diff!Commit, Diff!Discard, Diff!Checkout

\* What is written to the repository is exactly what the window showed as
\* approved when its user confirmed, and no two of its hunks touch the same
\* lines (review_apply), whatever other windows open, decide and apply
\* meanwhile, for any number of windows, variants and hunks and any base.
THEOREM AppliedIsWhatWasConfirmed == Diff!Spec => []Diff!AppliedIsConfirmed
<1>1. DiffInv => Diff!AppliedIsConfirmed
  BY DEF DiffInv
<1> QED
  BY <1>1, DiffInit, DiffStep, PTL DEF Diff!Spec

\* Of a group whose base is a commit every hunk is computed against it, or falls
\* back, and no HEAD but that commit is written on.
OnTheCommit ==
  /\ base = "commit" /\ derived \in [Hunks -> {0, Diff!OwnHead}]
  /\ apply.hunks \subseteq Hunks /\ (apply.pc = "write" => apply.head = 0)
  /\ applied.wrote \subseteq Hunks /\ applied.compared = 0

\* What review_apply writes was confirmed and fits, and goes to the commit it was
\* computed against unless the user moved HEAD after it was compared or the diff
\* fell back to the worktree's own, for every group whose base is a commit: the
\* user's git and editor run beside every step of the command.  (A branch moves
\* under the review, and HEAD moves with it.)
THEOREM AppliedAsReviewed == (Bases = {"commit"} /\ Diff!Spec) => []AppliedIsReviewed
<1> SUFFICES ASSUME Bases = {"commit"} PROVE Diff!Spec => []AppliedIsReviewed
  OBVIOUS
<1>1. Diff!Init => OnTheCommit
  BY DEF Diff!Init, OnTheCommit, Diff!NoCall, Diff!NoApply
<1>2. OnTheCommit /\ [Diff!Next]_(Diff!vars) => OnTheCommit'
  <2> SUFFICES ASSUME OnTheCommit, [Diff!Next]_(Diff!vars) PROVE OnTheCommit'
    OBVIOUS
  <2> USE DEF OnTheCommit
  <2>1. ASSUME NEW w \in Windows, Diff!Open(w) PROVE OnTheCommit'
    BY <2>1 DEF Diff!Open, Diff!Resolved
  <2>2. ASSUME NEW w \in Windows, Diff!Confirm(w) PROVE OnTheCommit'
    BY <2>2 DEF Diff!Confirm, Diff!ApprovedIn, Diff!NoApply
  <2>3. ASSUME Diff!ReadHead PROVE OnTheCommit'
    BY <2>3 DEF Diff!ReadHead
  <2>4. ASSUME Diff!Compare PROVE OnTheCommit'
    BY <2>4 DEF Diff!Compare, Diff!OnBase, Diff!Resolved
  <2>5. ASSUME Diff!Write PROVE OnTheCommit'
    BY <2>5 DEF Diff!Write, Diff!NoCall
  <2>6. ASSUME Diff!Refuse PROVE OnTheCommit'
    BY <2>6 DEF Diff!Refuse, Diff!NoCall
  <2>7. ASSUME UNCHANGED <<base, derived, apply, applied>> PROVE OnTheCommit'
    BY <2>7
  <2> QED
    BY <2>1, <2>2, <2>3, <2>4, <2>5, <2>6, <2>7
    DEF Diff!Next, Diff!vars, Diff!RefreshConflicts, Diff!Decide, Diff!Close, Diff!Launched,
        Diff!EditTree, Diff!Commit, Diff!Discard, Diff!Checkout
<1>3. DiffInv /\ OnTheCommit => AppliedIsReviewed
  BY DEF DiffInv, OnTheCommit, AppliedIsReviewed, Diff!AppliedIsReviewed, Diff!AppliedOnItsBase
<1> QED
  BY <1>1, <1>2, <1>3, DiffInit, DiffStep, PTL DEF Diff!Spec

----------------------------------------------------------------------------
(* PtyLease.  The mutex of a panel may be thrown away and made anew, so its *)
(* exclusion is not that of one mutex.  What makes it inductive: every Arc  *)
(* that a thread has is of the mutex in the map, because prune only takes a *)
(* mutex nobody owns, and a thread on its way in has its Arc.               *)

\* Nobody has the Arc of a mutex that has left the map.
ArcsAreCurrent == \A t \in Callers : caller[t].arc \in {Lease!NoMutex, mutex}

\* From its look-up to its unlock a call keeps its Arc.
CallsHaveArc ==
  \A t \in Callers : caller[t].pc \in {"wait", "in", "done"} => caller[t].arc # Lease!NoMutex

\* No lease is newer than the sequence that numbers them.
LeaseIsNumbered == lease.version <= version

\* The inductive invariant of the registry.
LeaseInv == Lease!TypeOK /\ ArcsAreCurrent /\ CallsHaveArc /\ Lease!OneInside /\ LeaseIsNumbered

\* The module counts the threads as every other does.
LEMMA LeaseCardinality == Lease!Cardinality(Callers) = Cardinality(Callers)
BY DEF Lease!Cardinality, Cardinality

\* No mutex stands for its absence.
LEMMA MutexesArePositive == 1 \in Lease!Mutexes /\ \A m \in Lease!Mutexes : m # Lease!NoMutex
<1>1. Cardinality(Callers) \in Nat
  BY LeaseAssumption, FS_CardinalityType DEF Lease!PtyLeaseAssumption, Lease!IsFiniteSet,
      IsFiniteSet
<1> QED
  BY <1>1, LeaseCardinality DEF Lease!Mutexes, Lease!NoMutex

\* There is a mutex to make, if none is in the map.
LEMMA FreshExists ==
  ASSUME ArcsAreCurrent, mutex = Lease!NoMutex
  PROVE  \E f \in Lease!Mutexes : Lease!Fresh(f)
<1>1. Lease!Fresh(1)
  BY DEF Lease!Fresh, Lease!Owners, ArcsAreCurrent, Lease!NoMutex
<1> QED
  BY <1>1, MutexesArePositive

\* The registry starts empty.
LEMMA LeaseInit == Lease!Init => LeaseInv
BY LeaseAssumption
DEF Lease!PtyLeaseAssumption, Lease!Init, LeaseInv, Lease!TypeOK, ArcsAreCurrent, CallsHaveArc,
    Lease!OneInside, Lease!Inside, LeaseIsNumbered, Lease!Idle,
    Lease!None, Lease!NoMutex

\* A call that is entered or left alone keeps its exclusion: nobody new is inside.
LEMMA NobodyNewInside ==
  ASSUME Lease!OneInside, \A t \in Callers : Lease!Inside(t)' => Lease!Inside(t)
  PROVE  Lease!OneInside'
BY DEF Lease!OneInside

\* Every step keeps the inductive invariant.
LEMMA LeaseStep == LeaseInv /\ [Lease!Next]_(Lease!vars) => LeaseInv'
<1> SUFFICES ASSUME LeaseInv, [Lease!Next]_(Lease!vars) PROVE LeaseInv'
  OBVIOUS
<1> USE LeaseAssumption DEF Lease!PtyLeaseAssumption, LeaseInv, Lease!TypeOK, ArcsAreCurrent,
    CallsHaveArc, LeaseIsNumbered
<1>1. ASSUME NEW t \in Callers, NEW op \in Lease!Ops, NEW mount \in Mounts,
             Lease!PanelLock(t, op, mount)
      PROVE  LeaseInv'
  <2> DEFINE m == IF mutex # Lease!NoMutex THEN mutex
                  ELSE CHOOSE f \in Lease!Mutexes : Lease!Fresh(f)
  <2>1. m \in Lease!Mutexes
    BY FreshExists
  <2>2. m # Lease!NoMutex
    BY <2>1, MutexesArePositive DEF Lease!NoMutex
  <2>3. /\ mutex' = m
        /\ caller' = [caller EXCEPT ![t] = [pc |-> "wait", op |-> op, mount |-> mount, arc |-> m]]
        /\ UNCHANGED <<lease, version>>
    BY <1>1 DEF Lease!PanelLock
  <2>4. Lease!TypeOK'
    BY <2>1, <2>3
  <2>5. ArcsAreCurrent'
    BY <2>1, <2>3
  <2>6. CallsHaveArc'
    BY <2>2, <2>3
  <2>7. Lease!OneInside'
    BY <2>3, NobodyNewInside DEF Lease!Inside
  <2> QED
    BY <2>3, <2>4, <2>5, <2>6, <2>7
<1>2. ASSUME NEW t \in Callers, Lease!Lock(t) PROVE LeaseInv'
  <2>1. \A u \in Callers : ~Lease!Inside(u)
    <3> SUFFICES ASSUME NEW u \in Callers, Lease!Inside(u) PROVE FALSE
      OBVIOUS
    <3>1. caller[u].arc = caller[t].arc
      BY <1>2 DEF Lease!Lock, Lease!Inside
    <3> QED
      BY <1>2, <3>1 DEF Lease!Lock, Lease!Locked, Lease!Owners
  <2>2. \A u \in Callers : Lease!Inside(u)' => u = t
    BY <1>2, <2>1 DEF Lease!Lock, Lease!Goto, Lease!Inside
  <2>3. Lease!OneInside'
    BY <2>2 DEF Lease!OneInside
  <2> QED
    BY <1>2, <2>3 DEF Lease!Lock, Lease!Goto
<1>3. ASSUME NEW t \in Callers, Lease!Attach(t) PROVE LeaseInv'
  BY <1>3, NobodyNewInside DEF Lease!Attach, Lease!Goto, Lease!Inside
<1>4. ASSUME NEW t \in Callers, Lease!Detach(t) PROVE LeaseInv'
  BY <1>4, NobodyNewInside DEF Lease!Detach, Lease!Goto, Lease!Inside, Lease!None
<1>5. ASSUME NEW t \in Callers, Lease!MarkDetaching(t) PROVE LeaseInv'
  BY <1>5, NobodyNewInside DEF Lease!MarkDetaching, Lease!Goto, Lease!Inside
<1>6. ASSUME NEW t \in Callers, Lease!Unlock(t) PROVE LeaseInv'
  BY <1>6, NobodyNewInside DEF Lease!Unlock, Lease!Goto, Lease!Inside
<1>7. ASSUME NEW t \in Callers, Lease!DropArc(t) PROVE LeaseInv'
  BY <1>7, NobodyNewInside DEF Lease!DropArc, Lease!Inside, Lease!Idle
<1>8. ASSUME NEW t \in Callers, Lease!CheckLease(t) PROVE LeaseInv'
  BY <1>8, NobodyNewInside DEF Lease!CheckLease, Lease!Inside, Lease!Idle
<1>9. ASSUME NEW t \in Callers, Lease!Prune(t) PROVE LeaseInv'
  <2>1. ArcsAreCurrent'
    BY <1>9 DEF Lease!Prune, Lease!Owners, Lease!Idle
  <2> QED
    BY <1>9, <2>1, NobodyNewInside DEF Lease!Prune, Lease!Inside, Lease!Idle
<1>10. CASE UNCHANGED Lease!vars
  BY <1>10 DEF Lease!vars, Lease!OneInside, Lease!Inside
<1> QED
  BY <1>1, <1>2, <1>3, <1>4, <1>5, <1>6, <1>7, <1>8, <1>9, <1>10 DEF Lease!Next

\* The inductive invariant holds in every reachable state of the registry.
THEOREM LeaseInvariance == Lease!Spec => []LeaseInv
BY LeaseInit, LeaseStep, PTL DEF Lease!Spec

\* Attach and detach of a panel exclude each other, however often its mutex is
\* pruned and made anew.
THEOREM PanelIsSequential == Lease!Spec => []OneInside
<1>1. LeaseInv => OneInside
  BY DEF LeaseInv, OneInside
<1> QED
  BY <1>1, LeaseInvariance, PTL

\* A view that has lost its panel does not disturb the view that has it.
THEOREM LeaseIsKept == Lease!Spec => LeaseIsItsMounts
<1> DEFINE Lawful ==
      lease' # lease =>
        \/ lease'.version > lease.version
        \/ \E t \in Callers : Lease!Inside(t) /\ caller[t].op # "attach"
                             /\ caller[t].mount = lease.mount
<1>1. LeaseInv /\ [Lease!Next]_(Lease!vars) => [Lawful]_(Lease!vars)
  <2> SUFFICES ASSUME LeaseInv, [Lease!Next]_(Lease!vars), lease' # lease PROVE Lawful
    OBVIOUS
  <2>1. PICK t \in Callers : Lease!Attach(t) \/ Lease!Detach(t) \/ Lease!MarkDetaching(t)
    BY DEF Lease!Next, Lease!vars, Lease!PanelLock, Lease!Lock, Lease!Unlock, Lease!DropArc,
        Lease!CheckLease, Lease!Prune
  <2>2. CASE Lease!Attach(t)
    BY <2>2 DEF Lease!Attach, LeaseInv, Lease!TypeOK, LeaseIsNumbered
  <2>3. CASE Lease!Detach(t)
    BY <2>3 DEF Lease!Detach, Lease!Inside
  <2>4. CASE Lease!MarkDetaching(t)
    BY <2>4 DEF Lease!MarkDetaching, Lease!Inside
  <2> QED
    BY <2>1, <2>2, <2>3, <2>4
<1> QED
  BY <1>1, LeaseInvariance, PTL DEF Lease!Spec, LeaseIsItsMounts, Lease!LeaseIsItsMounts
=============================================================================
