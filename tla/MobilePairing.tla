---------------------------- MODULE MobilePairing ----------------------------
(***************************************************************************)
(* Pairing a phone by QR code (mobile_qr_pairing.rs, and the pre-Hello     *)
(* branch of handle_socket in mobile_bridge.rs).  A session is a token in  *)
(* three maps under one mutex; a connection redeems it in steps: the mark, *)
(* under the mutex, the secret from the keychain, the grant on the wire,   *)
(* the mark that it was sent.  Another connection, a rotation of the       *)
(* secret, or the cleanup may come between any two of them.                *)
(*                                                                         *)
(* Times are ages: since a session was made, and since its grant was sent. *)
(* A secret is the number of its generation.                               *)
(***************************************************************************)
EXTENDS Naturals, FiniteSets

CONSTANTS Tokens, Devices,
          Short,       \* token_to_short: the short code of each token
          MaxSessions, \* MAX_SESSIONS
          Life,        \* PAIR_TTL_SECS + GRACE_SECS in ticks
          ResendGrace, InflightGrace, DoneGrace, \* of a grant that was sent
          MaxSecret    \* bound on the rotations

MaxAge == Life + DoneGrace + 1 \* ages beyond every grace are all alike

PairingAssumption ==
  /\ {MaxSessions, Life, ResendGrace, InflightGrace, DoneGrace, MaxSecret} \subseteq Nat
  /\ ResendGrace <= MaxAge /\ InflightGrace <= MaxAge
  /\ Short \in [Tokens -> Nat]
  /\ "none" \notin Devices \cup Tokens

NoDevice == "none"
NoSecret == 0
Unsent == MaxAge + 1

VARIABLES session,   \* by_token: token -> [age, device, sent]; used when it has a device
          byShort,   \* by_short: short code -> token
          bySession, \* by_session: the tokens that have a session id
          minted,    \* tokens drawn so far: 32 random bytes never come twice
          secret,    \* the generation in the keychain, and the last one
          link,      \* each device's connection: [pc, token, secret]
          granted    \* who was ever told the secret with a token: <<token, device>>

pairVars == <<session, byShort, bySession, minted, secret, link, granted>>

Closed == [pc |-> "closed", token |-> "none", secret |-> NoSecret]
Live == DOMAIN session
Used(t) == session[t].device # NoDevice

TypeOK ==
  /\ Live \subseteq Tokens /\ minted \subseteq Tokens /\ bySession \subseteq Tokens
  /\ \A t \in Live : session[t] \in [age : 0 .. MaxAge, device : Devices \cup {NoDevice},
                                     sent : 0 .. MaxAge \cup {Unsent}]
  /\ \A s \in DOMAIN byShort : byShort[s] \in Tokens
  /\ secret \in [now : 0 .. MaxSecret, last : 1 .. MaxSecret]
  /\ link \in [Devices -> [pc : {"closed", "load", "send", "mark"}, token : Tokens \cup {"none"},
                           secret : 0 .. MaxSecret]]
  /\ granted \subseteq Tokens \X Devices

Init == /\ session = [t \in {} |-> Closed] /\ byShort = [s \in {} |-> Closed]
        /\ bySession = {} /\ minted = {} /\ granted = {}
        /\ secret = [now |-> 1, last |-> 1]
        /\ link = [d \in Devices |-> Closed]

Expired(t) == session[t].age >= Life

\* Mutant: the short codes are left behind.
RemoveTokens(T) ==
  /\ session' = [t \in Live \ T |-> session[t]]
  /\ bySession' = bySession \ T
  /\ UNCHANGED byShort

\* remove: from all three maps.
Remove(T) ==
  /\ session' = [t \in Live \ T |-> session[t]]
  /\ bySession' = bySession \ T
  /\ byShort' = [s \in DOMAIN byShort \ {Short[t] : t \in T \cap Live} |-> byShort[s]]

\* generate: the expired ones go; if there is room, a token whose short code is
\* free is drawn.
Generate(t) ==
  LET kept == {u \in Live : ~Expired(u)} IN
    /\ t \notin minted /\ Cardinality(kept) < MaxSessions
    /\ \A u \in kept : Short[u] # Short[t]
    /\ session' = [u \in kept \cup {t} |->
         IF u = t THEN [age |-> 0, device |-> NoDevice, sent |-> Unsent] ELSE session[u]]
    /\ byShort' = [s \in {Short[u] : u \in kept \cup {t}} |->
         CHOOSE u \in kept \cup {t} : Short[u] = s]
    /\ bySession' = kept \cup {t}
    /\ minted' = minted \cup {t}
    /\ UNCHANGED <<secret, link, granted>>

----------------------------------------------------------------------------
\* A connection that redeems

\* Mutant: any device may ask again.
MayRedeemAgain(t, d) == session[t].sent = Unsent \/ session[t].sent < ResendGrace

\* mark_redeem: a token is bound to its first device, which may ask again until
\* a grace after the grant was sent.
MayRedeem(t, d) ==
  \/ ~Used(t)
  \/ session[t].device = d /\ (session[t].sent = Unsent \/ session[t].sent < ResendGrace)

MarkRedeem(d, t) ==
  /\ link[d].pc = "closed"
  /\ t \in Live /\ ~Expired(t) /\ MayRedeem(t, d)
  /\ session' = IF Used(t) THEN session ELSE [session EXCEPT ![t].device = d]
  /\ link' = [link EXCEPT ![d] = [pc |-> "load", token |-> t, secret |-> NoSecret]]
  /\ UNCHANGED <<byShort, bySession, minted, secret, granted>>

\* load_secret, without the mutex; there is none in the middle of a rotation.
LoadSecret(d) ==
  /\ link[d].pc = "load"
  /\ link' = [link EXCEPT ![d] = IF secret.now = NoSecret THEN Closed
                                 ELSE [@ EXCEPT !.pc = "send", !.secret = secret.now]]
  /\ UNCHANGED <<session, byShort, bySession, minted, secret, granted>>

SendGrant(d) ==
  /\ link[d].pc = "send"
  /\ granted' = granted \cup {<<link[d].token, d>>}
  /\ link' = [link EXCEPT ![d].pc = "mark"]
  /\ UNCHANGED <<session, byShort, bySession, minted, secret>>

\* The connection is lost before the grant is out.
SendFails(d) ==
  /\ link[d].pc = "send"
  /\ link' = [link EXCEPT ![d] = Closed]
  /\ UNCHANGED <<session, byShort, bySession, minted, secret, granted>>

MarkGrantSent(d) ==
  /\ link[d].pc = "mark"
  /\ session' = IF link[d].token \in Live THEN [session EXCEPT ![link[d].token].sent = 0] ELSE session
  /\ link' = [link EXCEPT ![d] = Closed]
  /\ UNCHANGED <<byShort, bySession, minted, secret, granted>>

----------------------------------------------------------------------------
\* Rotation and cleanup

InFlight(t) == Used(t) /\ (session[t].sent = Unsent \/ session[t].sent < InflightGrace)

\* rotate_secret: clear_pending, then the keychain's old secret, then a new one.
RotateClear ==
  /\ secret.now = secret.last /\ secret.last < MaxSecret
  /\ Remove({t \in Live : ~InFlight(t)})
  /\ secret' = [secret EXCEPT !.now = NoSecret]
  /\ UNCHANGED <<minted, link, granted>>

RotateSave ==
  /\ secret.now = NoSecret
  /\ secret' = [now |-> secret.last + 1, last |-> secret.last + 1]
  /\ UNCHANGED <<session, byShort, bySession, minted, link, granted>>

\* cleanup: every 30 s.
Cleanup ==
  /\ LET gone == {t \in Live : Expired(t) \/ (session[t].sent \in DoneGrace + 1 .. MaxAge)} IN
       gone # {} /\ Remove(gone)
  /\ UNCHANGED <<minted, secret, link, granted>>

Tick ==
  /\ Live # {}
  /\ session' = [t \in Live |->
       [session[t] EXCEPT !.age = IF @ < MaxAge THEN @ + 1 ELSE @,
                          !.sent = IF @ < MaxAge THEN @ + 1 ELSE @]]
  /\ UNCHANGED <<byShort, bySession, minted, secret, link, granted>>

Next ==
  \/ \E t \in Tokens : Generate(t) \/ \E d \in Devices : MarkRedeem(d, t)
  \/ \E d \in Devices : LoadSecret(d) \/ SendGrant(d) \/ SendFails(d) \/ MarkGrantSent(d)
  \/ RotateClear \/ RotateSave \/ Cleanup \/ Tick

Spec == Init /\ [][Next]_pairVars
----------------------------------------------------------------------------
\* What pairing promises

\* One code pairs one phone: connections that redeem it at once, retries after
\* a lost grant, a rotation between the steps and the cleanup grant it to one
\* device only.
OneDevicePerToken ==
  \A g, h \in granted : g[1] = h[1] => g[2] = h[2]

\* The three maps are about the same sessions, and the panel that polls a
\* session sees it completed only when the phone that used it has the secret.
SessionsAgree ==
  /\ bySession = Live
  /\ DOMAIN byShort = {Short[t] : t \in Live}
  /\ \A s \in DOMAIN byShort : byShort[s] \in Live /\ Short[byShort[s]] = s
  /\ \A t \in Live : session[t].sent # Unsent => <<t, session[t].device>> \in granted

\* The two together: what the maps say of a session is what was granted with it.
PairingIsKept == OneDevicePerToken /\ SessionsAgree
=============================================================================
