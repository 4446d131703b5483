---------------------------- MODULE ReportProofs ----------------------------
(***************************************************************************)
(* Proofs about the components of Reports that MCGuards checks on small    *)
(* instances, one section for each, for every value of their constants.    *)
(***************************************************************************)
EXTENDS Reports, Integers, SequenceTheorems, FiniteSetTheorems, TLAPS

----------------------------------------------------------------------------
(* Audio                                                                   *)

\* What the pump holds: an event that is neither queued nor sounded.
Held == IF pump.pc = "idle" THEN {} ELSE {pump.event}

\* Nothing silenced is queued or held, and no silence falls into a pump.
PumpIsCurrent ==
  /\ DOMAIN pump = {"pc", "event", "gen"}
  /\ queue \in Seq(Events) /\ (Sound!Queued \cup Held) \cap muted = {}
  /\ pump.pc = "taken" => pump.gen = gen

\* What is reserved is queued, held, was handed to the sink or was silenced.
ReservedHasAPlace == dedup \subseteq Sound!Queued \cup Held \cup played \cup muted

\* The inductive invariant of the gate and the speaker.
SoundInv ==
  /\ PumpIsCurrent /\ ReservedHasAPlace
  /\ DOMAIN voices = Sound!Voices /\ Sound!OneVoice

\* At first it is quiet.
LEMMA SoundInit == Sound!Init => SoundInv
<1> SUFFICES ASSUME Sound!Init PROVE SoundInv
  OBVIOUS
<1>1. Sound!Queued = {}
  BY DEF Sound!Init, Sound!Queued, Sound!ToSet
<1> QED BY <1>1
    DEF Sound!Init, Sound!Idle, SoundInv, PumpIsCurrent, ReservedHasAPlace, Held, Sound!OneVoice

\* The set of a sequence that grows by one, and of one that loses one.
LEMMA QueueOfOneMore ==
  ASSUME NEW s \in Seq(Events), NEW e \in Events
  PROVE  Append(s, e) \in Seq(Events) /\ Sound!ToSet(Append(s, e)) = Sound!ToSet(s) \cup {e}
<1> DEFINE t == Append(s, e)
<1>1. /\ t \in Seq(Events) /\ Len(t) = Len(s) + 1 /\ Len(s) \in Nat /\ t[Len(s) + 1] = e
      /\ \A j \in 1 .. Len(s) : t[j] = s[j]
      /\ DOMAIN t = 1 .. Len(t) /\ DOMAIN s = 1 .. Len(s)
  OBVIOUS
<1> HIDE DEF t
<1>2. Sound!ToSet(t) = Sound!ToSet(s) \cup {e}
  BY <1>1 DEF Sound!ToSet
<1> QED BY <1>1, <1>2 DEF t

LEMMA QueueOfOneLess ==
  ASSUME NEW s \in Seq(Events), NEW i \in DOMAIN s
  PROVE  /\ Sound!RemoveAt(s, i) \in Seq(Events)
         /\ Sound!ToSet(Sound!RemoveAt(s, i)) \subseteq Sound!ToSet(s)
         /\ Sound!ToSet(s) \subseteq Sound!ToSet(Sound!RemoveAt(s, i)) \cup {s[i]}
<1> DEFINE a == SubSeq(s, 1, i - 1)
           b == SubSeq(s, i + 1, Len(s))
           t == a \o b
<1>1. i \in 1 .. Len(s) /\ Len(s) \in Nat /\ DOMAIN s = 1 .. Len(s)
  OBVIOUS
<1>2. a \in Seq(Events) /\ Len(a) = i - 1 /\ \A j \in 1 .. i - 1 : a[j] = s[j]
  BY <1>1
<1>3. b \in Seq(Events) /\ Len(b) = Len(s) - i /\ \A j \in 1 .. Len(s) - i : b[j] = s[i + j]
  BY <1>1
<1>4. /\ t \in Seq(Events) /\ Len(t) = Len(s) - 1 /\ DOMAIN t = 1 .. Len(s) - 1
      /\ \A j \in 1 .. i - 1 : t[j] = s[j]
      /\ \A j \in i .. Len(s) - 1 : t[j] = s[j + 1]
  <2>1. /\ t \in Seq(Events) /\ Len(t) = Len(a) + Len(b)
        /\ \A j \in 1 .. Len(a) + Len(b) : t[j] = IF j <= Len(a) THEN a[j] ELSE b[j - Len(a)]
    <3> HIDE DEF a, b
    <3> QED BY <1>2, <1>3, ConcatProperties
  <2>d. DOMAIN t = 1 .. Len(t)
    <3> HIDE DEF t
    <3> QED BY <2>1
  <2>2. ASSUME NEW j \in 1 .. i - 1 PROVE t[j] = s[j]
    <3>1. j \in 1 .. Len(a) /\ a[j] = s[j]
      BY <1>1, <1>2, <2>2
    <3>2. t[j] = a[j]
      <4> HIDE DEF a, b, t
      <4> QED BY <1>2, <1>3, <2>1, <3>1
    <3> QED BY <3>1, <3>2
  <2>3. ASSUME NEW j \in i .. Len(s) - 1 PROVE t[j] = s[j + 1]
    <3>1. /\ j - (i - 1) \in 1 .. Len(s) - i /\ j - Len(a) = j - (i - 1)
          /\ j \in Len(a) + 1 .. Len(a) + Len(b)
      <4> HIDE DEF a, b
      <4> QED BY <1>1, <1>2, <1>3, <2>3
    <3>2. t[j] = b[j - Len(a)]
      <4> HIDE DEF a, b, t
      <4> QED BY <1>2, <1>3, <2>1, <3>1
    <3>3. b[j - (i - 1)] = s[i + (j - (i - 1))] /\ i + (j - (i - 1)) = j + 1
      <4>1. i + (j - (i - 1)) = j + 1
        BY <1>1, <2>3
      <4> HIDE DEF a, b, t
      <4> QED BY <1>3, <3>1, <4>1
    <3> HIDE DEF a, b, t
    <3> QED BY <3>1, <3>2, <3>3
  <2> HIDE DEF a, b, t
  <2> QED BY <1>1, <1>2, <1>3, <2>1, <2>d, <2>2, <2>3
<1>5. Sound!RemoveAt(s, i) = t
  BY DEF Sound!RemoveAt
<1> HIDE DEF t
<1>6. Sound!ToSet(t) \subseteq Sound!ToSet(s)
  BY <1>1, <1>4 DEF Sound!ToSet
<1>7. Sound!ToSet(s) \subseteq Sound!ToSet(t) \cup {s[i]}
  <2>1. ASSUME NEW j \in 1 .. Len(s), j # i PROVE s[j] \in Sound!ToSet(t)
    <3>1. CASE j < i
      <4>1. j \in DOMAIN t /\ t[j] = s[j]
        BY <1>1, <1>4, <2>1, <3>1
      <4> QED BY <4>1 DEF Sound!ToSet
    <3>2. CASE j > i
      <4>1. j - 1 \in DOMAIN t /\ t[j - 1] = s[j]
        BY <1>1, <1>4, <2>1, <3>2
      <4> QED BY <4>1 DEF Sound!ToSet
    <3> QED BY <1>1, <2>1, <3>1, <3>2
  <2> QED BY <1>1, <2>1 DEF Sound!ToSet
<1> QED BY <1>4, <1>5, <1>6, <1>7

\* Every step keeps it: requests that are admitted or drive others out, the pump,
\* silences, and tasks, processes and watchers of the speaker at any time.
LEMMA SoundStep == SoundInv /\ [Sound!Next]_(Sound!vars) => SoundInv'
<1> SUFFICES ASSUME SoundInv, [Sound!Next]_(Sound!vars) PROVE SoundInv'
  OBVIOUS
<1>a. /\ PumpIsCurrent /\ ReservedHasAPlace /\ DOMAIN voices = Sound!Voices /\ Sound!OneVoice
  BY DEF SoundInv
<1>1. ASSUME UNCHANGED <<dedup, queue, gen, pump, played, muted>>, DOMAIN voices' = Sound!Voices,
             \A v \in Sound!Voices : voices'[v] = "speaks" =>
               speaking' = [busy |-> TRUE, gen |-> v, kill |-> TRUE]
      PROVE  SoundInv'
  BY <1>a, <1>1
  DEF SoundInv, PumpIsCurrent, ReservedHasAPlace, Held, Sound!Queued, Sound!OneVoice
<1>2. ASSUME UNCHANGED <<voices, speaking>>, PumpIsCurrent', ReservedHasAPlace' PROVE SoundInv'
  BY <1>a, <1>2 DEF SoundInv, Sound!OneVoice
<1>3. ASSUME NEW e \in Events, Sound!Consider(e) PROVE SoundInv'
  <2>1. /\ UNCHANGED <<gen, pump, said, speaking, voices>> /\ Sound!TryPlace(e)
        /\ played' = played \ {e} /\ muted' = muted \ {e}
    BY <1>3 DEF Sound!Consider
  <2>2. queue \in Seq(Events)
    BY <1>a DEF PumpIsCurrent
  <2>3. CASE queue' = Append(queue, e) /\ dedup' = dedup \cup {e}
    <3>1. queue' \in Seq(Events) /\ Sound!Queued' = Sound!Queued \cup {e}
      BY <2>2, <2>3, QueueOfOneMore DEF Sound!Queued
    <3> QED BY <1>2, <1>a, <2>1, <2>3, <3>1 DEF PumpIsCurrent, ReservedHasAPlace, Held
  <2>4. ASSUME NEW i \in DOMAIN queue, queue' = Append(Sound!RemoveAt(queue, i), e),
               dedup' = (dedup \ {queue[i]}) \cup {e}
        PROVE  SoundInv'
    <3>1. /\ queue' \in Seq(Events) /\ Sound!Queued' \subseteq Sound!Queued \cup {e}
          /\ e \in Sound!Queued' /\ Sound!Queued \subseteq Sound!Queued' \cup {queue[i]}
      BY <2>2, <2>4, QueueOfOneMore, QueueOfOneLess DEF Sound!Queued
    <3> QED BY <1>2, <1>a, <2>1, <2>4, <3>1 DEF PumpIsCurrent, ReservedHasAPlace, Held
  <2> QED BY <2>1, <2>3, <2>4 DEF Sound!TryPlace
<1>4. ASSUME NEW e \in Events, Sound!Expire(e) PROVE SoundInv'
  <2>1. /\ UNCHANGED <<queue, gen, pump, said, speaking, voices, played, muted>>
        /\ dedup' = dedup \ {e}
    BY <1>4 DEF Sound!Expire
  <2> QED BY <1>2, <1>a, <2>1 DEF PumpIsCurrent, ReservedHasAPlace, Held, Sound!Queued
<1>5. ASSUME NEW i \in DOMAIN queue, Sound!TakeForPlay(i) PROVE SoundInv'
  <2>1. /\ UNCHANGED <<dedup, gen, said, speaking, voices, played, muted>> /\ pump.pc = "idle"
        /\ pump' = [pc |-> "taken", event |-> queue[i], gen |-> gen]
        /\ queue' = Sound!RemoveAt(queue, i)
    BY <1>5 DEF Sound!TakeForPlay
  <2>2. /\ queue' \in Seq(Events) /\ Sound!Queued' \subseteq Sound!Queued
        /\ Sound!Queued \subseteq Sound!Queued' \cup {queue[i]}
    BY <1>a, <2>1, QueueOfOneLess DEF Sound!Queued, PumpIsCurrent
  <2>3. queue[i] \in Sound!Queued
    BY DEF Sound!Queued, Sound!ToSet
  <2>4. Held = {} /\ Held' = {queue[i]}
    BY <2>1 DEF Held
  <2>5. PumpIsCurrent'
    BY <1>a, <2>1, <2>2, <2>3, <2>4 DEF PumpIsCurrent
  <2>6. ReservedHasAPlace'
    BY <1>a, <2>1, <2>2, <2>4 DEF ReservedHasAPlace
  <2> QED BY <1>2, <2>1, <2>5, <2>6
<1>6. CASE Sound!CheckCurrent
  <2>1. /\ UNCHANGED <<dedup, queue, gen, said, speaking, voices, played, muted>>
        /\ pump.pc = "taken" /\ pump' = [pump EXCEPT !.pc = "play"]
    BY <1>6, <1>a DEF Sound!CheckCurrent, PumpIsCurrent
  <2>2. DOMAIN pump' = {"pc", "event", "gen"} /\ pump'.pc = "play" /\ pump'.event = pump.event
    BY <1>a, <2>1 DEF PumpIsCurrent
  <2>3. Held' = Held /\ Sound!Queued' = Sound!Queued
    BY <2>1, <2>2 DEF Held, Sound!Queued
  <2> QED BY <1>2, <1>a, <2>1, <2>2, <2>3 DEF PumpIsCurrent, ReservedHasAPlace
<1>7. CASE Sound!Play
  <2>1. /\ UNCHANGED <<dedup, queue, gen, speaking, voices, muted>> /\ pump.pc = "play"
        /\ played' = played \cup {pump.event}
        /\ pump' = [pc |-> "idle", event |-> Sound!None, gen |-> 0]
    BY <1>7 DEF Sound!Play, Sound!Idle
  <2>2. Held = {pump.event} /\ Held' = {} /\ Sound!Queued' = Sound!Queued
    BY <2>1 DEF Held, Sound!Queued
  <2> QED BY <1>2, <1>a, <2>1, <2>2 DEF PumpIsCurrent, ReservedHasAPlace
<1>8. CASE Sound!Silence
  <2>1. /\ UNCHANGED <<dedup, pump, said, played>> /\ pump.pc = "idle" /\ queue' = <<>>
        /\ muted' = muted \cup Sound!Queued \cup (said \ {Sound!Reading}) /\ Sound!Stop
    BY <1>8 DEF Sound!Silence
  <2>2. Sound!Queued' = {} /\ Held = {} /\ Held' = {}
    BY <2>1 DEF Sound!Queued, Sound!ToSet, Held
  <2>3. PumpIsCurrent' /\ ReservedHasAPlace'
    BY <1>a, <2>1, <2>2 DEF PumpIsCurrent, ReservedHasAPlace
  <2>4. DOMAIN voices' = Sound!Voices /\ \A v \in Sound!Voices : voices'[v] # "speaks"
    BY <1>a, <2>1 DEF Sound!Stop, Sound!OneVoice
  <2> QED BY <2>3, <2>4 DEF SoundInv, Sound!OneVoice
<1>9. CASE Sound!AskToRead
  BY <1>1, <1>9, <1>a DEF Sound!AskToRead, Sound!OneVoice
\* Whoever takes over has told the one that spoke.
<1>t. \A v \in Sound!Voices : Sound!Told[v] # "speaks"
  BY <1>a DEF Sound!Told, Sound!OneVoice
<1>10. ASSUME NEW e \in said, Sound!SpeakWith(e) PROVE SoundInv'
  <2>1. UNCHANGED <<dedup, queue, gen, pump, played, muted>>
    BY <1>10 DEF Sound!SpeakWith
  <2>2. CASE UNCHANGED <<speaking, voices>>
    BY <1>1, <1>a, <2>1, <2>2 DEF Sound!OneVoice
  <2>3. CASE /\ voices' = [Sound!Told EXCEPT ![speaking.gen + 1] = "speaks"]
             /\ speaking' = [busy |-> TRUE, gen |-> speaking.gen + 1, kill |-> TRUE]
    <3>1. /\ DOMAIN voices' = Sound!Voices
          /\ \A v \in Sound!Voices : voices'[v] = "speaks" => v = speaking.gen + 1
      BY <1>t, <2>3 DEF Sound!Told
    <3> QED BY <1>1, <2>1, <2>3, <3>1
  <2> QED BY <1>10, <2>2, <2>3 DEF Sound!SpeakWith
<1>11. ASSUME NEW e \in said, Sound!SpeakFails(e) PROVE SoundInv'
  <2>1. UNCHANGED <<dedup, queue, gen, pump, played, muted>> /\ voices' = Sound!Told
    BY <1>11 DEF Sound!SpeakFails
  <2> QED BY <1>1, <1>t, <2>1 DEF Sound!Told
<1>12. ASSUME NEW v \in Sound!Voices, Sound!VoiceEnds(v) PROVE SoundInv'
  <2>1. /\ UNCHANGED <<dedup, queue, gen, pump, speaking, played, muted>>
        /\ voices' = [voices EXCEPT ![v] = "over"]
    BY <1>12 DEF Sound!VoiceEnds
  <2> QED BY <1>1, <1>a, <2>1 DEF Sound!OneVoice
<1>13. ASSUME NEW v \in Sound!Voices, Sound!WatcherFrees(v) PROVE SoundInv'
  <2>1. /\ UNCHANGED <<dedup, queue, gen, pump, played, muted>> /\ voices[v] = "over"
        /\ voices' = [voices EXCEPT ![v] = "gone"]
        /\ speaking.gen # v => speaking' = speaking
    BY <1>13 DEF Sound!WatcherFrees
  <2>2. ASSUME NEW u \in Sound!Voices, voices'[u] = "speaks"
        PROVE  speaking' = [busy |-> TRUE, gen |-> u, kill |-> TRUE]
    <3>1. u # v /\ voices[u] = "speaks"
      BY <1>a, <2>1, <2>2
    <3>2. speaking = [busy |-> TRUE, gen |-> u, kill |-> TRUE]
      BY <1>a, <3>1 DEF Sound!OneVoice
    <3> QED BY <2>1, <3>1, <3>2
  <2> QED BY <1>1, <1>a, <2>1, <2>2
<1>14. CASE UNCHANGED Sound!vars
  BY <1>1, <1>14, <1>a DEF Sound!vars, Sound!OneVoice
<1> QED
  BY <1>3, <1>4, <1>5, <1>6, <1>7, <1>8, <1>9, <1>10, <1>11, <1>12, <1>13, <1>14 DEF Sound!Next

\* Whatever falls between the steps of a pump and of the speaker, nothing that was
\* silenced plays, nothing reserved is lost and nobody speaks whom the next
\* "callar" would not reach (audio_attention.rs, tts.rs).
THEOREM SoundStaysAccounted == Sound!Spec => []SoundIsAccounted
<1>1. SoundInv => SoundIsAccounted
  <2>1. SoundInv => Sound!PlayIsCurrent
    BY DEF SoundInv, PumpIsCurrent, Held, Sound!PlayIsCurrent
  <2>2. SoundInv => Sound!ReservedIsHeard
    BY DEF SoundInv, ReservedHasAPlace, Held, Sound!ReservedIsHeard
  <2> QED BY <2>1, <2>2 DEF SoundInv, SoundIsAccounted, Sound!SoundIsAccounted
<1> QED BY <1>1, SoundInit, SoundStep, PTL DEF Sound!Spec

----------------------------------------------------------------------------
(* EventBus                                                                *)

\* Where the threads are: what goes out has a number that was given before.
SendersTyped ==
  /\ DOMAIN sender = Senders /\ seq \in Nat /\ seq > 0
  /\ \A t \in Senders :
       /\ DOMAIN sender[t] = {"pc", "item", "seq", "to"}
       /\ sender[t].pc \in {"idle", "take", "send"} /\ sender[t].seq \in Nat
       /\ sender[t].to \subseteq {"windows", "phone"}
       /\ sender[t].pc # "idle" => sender[t].item \in Items
       /\ sender[t].to # {} => sender[t].pc = "send" /\ sender[t].seq < seq
       /\ sender[t].pc = "send" => sender[t].to # {}

\* Every event on its way to a window, or applied by it, has a number that was
\* given before.
WindowsTyped ==
  /\ channel \in [Viewers -> Seq(Bus!Notices)]
  /\ DOMAIN store = Items /\ DOMAIN cursor = Viewers \cup {"phone"}
  /\ DOMAIN view = Viewers /\ heard \in [Viewers -> [Items -> Nat]]
  /\ \A w \in Viewers :
       /\ cursor[w] \in Nat /\ DOMAIN view[w] = Items
       /\ \A i \in Items : heard[w][i] < seq
       /\ \A k \in 1 .. Len(channel[w]) : channel[w][k].seq < seq

\* Window w is still to be told of a change of item i: by a thread that has not
\* taken its number yet, by one on its way to the windows, or by an event that is
\* on its way, with a number above the last one of i that w has applied.
ByThread(w, i) ==
  \E t \in Senders :
    /\ sender[t].item = i
    /\ \/ sender[t].pc = "take"
       \/ "windows" \in sender[t].to /\ sender[t].seq > heard[w][i]

ByEvent(w, i) ==
  \E k \in 1 .. Len(channel[w]) : channel[w][k].item = i /\ channel[w][k].seq > heard[w][i]

\* A window shows an item as it is, or loads it, or is to be told; or the event
\* of the change went out unheard, or was overtaken by one about another item.
Follows(w, i) ==
  \/ view[w][i] = store[i] \/ <<w, i>> \in due \cup unheard \cup overtaken
  \/ ByThread(w, i) \/ ByEvent(w, i)

WindowsFollow == \A w \in Viewers, i \in Items : Follows(w, i)

\* The threads on their way to the phone with a number that was overtaken.
Overtaken == {t \in Senders : "phone" \in sender[t].to /\ sender[t].seq < newest}

\* The newest event is in the ring, and what is behind it and what can still
\* come behind it are numbers of other threads, one of each.
NewestIsKept ==
  \E p \in 1 .. Len(ring) :
    ring[p] = newest /\ Len(ring) - p + Cardinality(Overtaken) < Cardinality(Senders)

PhoneFollows ==
  /\ ring \in Seq(Nat) /\ Len(ring) <= RingCap /\ newest \in Nat /\ newest < seq
  /\ \A i \in 1 .. Len(ring) : ring[i] <= newest
  /\ cursor["phone"] \in Nat /\ cursor["phone"] <= newest
  /\ cursor["phone"] < newest => NewestIsKept

\* The inductive invariant of the event bus.
BusInv == SendersTyped /\ WindowsTyped /\ WindowsFollow /\ PhoneFollows

\* At first nobody has anything to tell.
LEMMA BusInit == Bus!Init => BusInv
<1> SUFFICES ASSUME Bus!Init PROVE BusInv
  OBVIOUS
<1> USE BusAssumption DEF Bus!BusAssumption, Bus!Init, Bus!Phone, Bus!Idle
<1>1. SendersTyped
  BY DEF SendersTyped
<1>2. WindowsTyped
  BY DEF WindowsTyped
<1>3. WindowsFollow
  BY DEF WindowsFollow, Follows
<1>4. PhoneFollows
  BY DEF PhoneFollows
<1> QED BY <1>1, <1>2, <1>3, <1>4 DEF BusInv

\* The operators of EventBus count and order as the standard ones do.
LEMMA BusOperators ==
  /\ \A S : Bus!Cardinality(S) = Cardinality(S) /\ (Bus!IsFiniteSet(S) <=> IsFiniteSet(S))
  /\ \A a, b \in Nat : Bus!Max({a, b}) = IF a >= b THEN a ELSE b
<1>1. \A S : Bus!Cardinality(S) = Cardinality(S) /\ (Bus!IsFiniteSet(S) <=> IsFiniteSet(S))
  BY DEF Bus!Cardinality, Cardinality, Bus!IsFiniteSet, IsFiniteSet
<1>2. ASSUME NEW a \in Nat, NEW b \in Nat
      PROVE  Bus!Max({a, b}) = IF a >= b THEN a ELSE b
  <2> DEFINE m == IF a >= b THEN a ELSE b
  <2>1. /\ m \in {a, b} /\ \A y \in {a, b} : m >= y
        /\ \A x \in {a, b} : (\A y \in {a, b} : x >= y) => x = m
    OBVIOUS
  <2>2. Bus!Max({a, b}) = CHOOSE x \in {a, b} : \A y \in {a, b} : x >= y
    BY DEF Bus!Max
  <2> QED BY <2>1, <2>2
<1> QED BY <1>1, <1>2

\* The threads that were overtaken are some of the threads.
LEMMA OvertakenIsFinite ==
  IsFiniteSet(Overtaken) /\ Cardinality(Overtaken) \in Nat /\ Cardinality(Senders) \in Nat
<1>1. IsFiniteSet(Senders)
  BY BusAssumption, BusOperators DEF Bus!BusAssumption
<1> QED BY <1>1, FS_Subset, FS_CardinalityType DEF Overtaken

\* A step that leaves the phone's side alone and puts nobody on its way to the
\* phone with an older number changes nothing for the phone.
LEMMA PhoneUndisturbed ==
  ASSUME BusInv, UNCHANGED <<ring, newest>>, seq' \in Nat, seq' >= seq,
         cursor'["phone"] = cursor["phone"], Overtaken' \subseteq Overtaken
  PROVE  PhoneFollows'
<1>1. Cardinality(Overtaken') \in Nat /\ Cardinality(Overtaken') <= Cardinality(Overtaken)
  BY OvertakenIsFinite, FS_Subset, FS_CardinalityType
<1> QED BY <1>1, OvertakenIsFinite DEF BusInv, SendersTyped, PhoneFollows, NewestIsKept

\* A step of the phone changes nothing for the windows, as long as no thread turns
\* back on its way to them.
LEMMA WindowsUndisturbed ==
  ASSUME BusInv, UNCHANGED <<store, seq, channel, due, view, heard, unheard, overtaken>>,
         DOMAIN cursor' = DOMAIN cursor, \A w \in Viewers : cursor'[w] = cursor[w],
         \A t \in Senders : /\ sender[t].pc = "take" => sender'[t] = sender[t]
                            /\ "windows" \in sender[t].to =>
                                 /\ "windows" \in sender'[t].to
                                 /\ sender'[t].item = sender[t].item /\ sender'[t].seq = sender[t].seq
  PROVE  WindowsTyped' /\ WindowsFollow'
<1>1. WindowsTyped'
  BY DEF BusInv, WindowsTyped
<1>2. ASSUME NEW w \in Viewers, NEW i \in Items PROVE Follows(w, i)'
  <2>1. ByThread(w, i) => ByThread(w, i)'
    BY DEF ByThread
  <2>2. ByEvent(w, i) => ByEvent(w, i)'
    BY DEF ByEvent
  <2> QED BY <2>1, <2>2 DEF BusInv, WindowsFollow, Follows
<1> QED BY <1>1, <1>2 DEF WindowsFollow

\* Every step keeps it: threads that change state, take their numbers and send
\* in any order, windows that load, reload and listen, phones that come and go.
LEMMA BusStep == BusInv /\ [Bus!Next]_(Bus!vars) => BusInv'
<1> SUFFICES ASSUME BusInv, [Bus!Next]_(Bus!vars) PROVE BusInv'
  OBVIOUS
<1> USE DEF Bus!Phone, Bus!ghosts
<1>a. "phone" \notin Viewers /\ "none" \notin Items
  BY BusAssumption DEF Bus!BusAssumption
<1>1. ASSUME NEW t \in Senders, NEW i \in Items, Bus!Change(t, i) PROVE BusInv'
  <2>1. /\ UNCHANGED <<seq, channel, cursor, deaf, due, view, ring, newest, heard, unheard, overtaken>>
        /\ store' = [store EXCEPT ![i] = store[i] + 1] /\ sender[t].pc = "idle"
        /\ sender' = [sender EXCEPT ![t] = [pc |-> "take", item |-> i, seq |-> 0, to |-> {}]]
    BY <1>1 DEF Bus!Change, Bus!At
  <2>2. SendersTyped' /\ Overtaken' \subseteq Overtaken
        /\ sender'[t].pc = "take" /\ sender'[t].item = i
    BY <2>1 DEF BusInv, SendersTyped, Overtaken
  <2>3. WindowsTyped'
    BY <2>1 DEF BusInv, WindowsTyped
  <2>4. ASSUME NEW w \in Viewers, NEW k \in Items PROVE Follows(w, k)'
    <3>1. CASE k = i
      BY <2>2, <3>1 DEF Follows, ByThread
    <3>2. CASE k # i
      <4>1. store'[k] = store[k]
        BY <2>1, <3>2 DEF BusInv, WindowsTyped
      <4>2. ByThread(w, k) => ByThread(w, k)'
        BY <2>1 DEF BusInv, SendersTyped, ByThread
      <4>3. ByEvent(w, k) => ByEvent(w, k)'
        BY <2>1 DEF ByEvent
      <4> QED BY <2>1, <4>1, <4>2, <4>3 DEF BusInv, WindowsFollow, Follows
    <3> QED BY <3>1, <3>2
  <2>5. PhoneFollows'
    BY <2>1, <2>2, PhoneUndisturbed DEF BusInv, SendersTyped
  <2> QED BY <2>2, <2>3, <2>4, <2>5 DEF BusInv, WindowsFollow
<1>2. ASSUME NEW t \in Senders, Bus!Prepare(t) PROVE BusInv'
  <2>1. /\ UNCHANGED <<store, channel, cursor, deaf, due, view, ring, newest, heard, unheard, overtaken>>
        /\ sender' = [sender EXCEPT ![t] = [pc |-> "send", item |-> sender[t].item, seq |-> seq,
                                            to |-> {"windows", "phone"}]]
        /\ seq' = seq + 1 /\ sender[t].pc = "take"
    BY <1>2 DEF Bus!Prepare, Bus!Ways, Bus!At
  <2>2. SendersTyped'
    BY <2>1 DEF BusInv, SendersTyped
  <2>3. WindowsTyped'
    <3>1. \A m \in Nat : m < seq => m < seq'
      BY <2>1 DEF BusInv, SendersTyped
    <3>2. ASSUME NEW w \in Viewers
          PROVE  /\ \A i \in Items : heard[w][i] < seq'
                 /\ \A k \in 1 .. Len(channel[w]) : channel[w][k].seq < seq'
      <4>1. \A i \in Items : heard[w][i] \in Nat /\ heard[w][i] < seq
        BY DEF BusInv, WindowsTyped
      <4>2. ASSUME NEW k \in 1 .. Len(channel[w])
            PROVE  channel[w][k].seq \in Nat /\ channel[w][k].seq < seq
        <5>1. channel[w] \in Seq(Bus!Notices) /\ channel[w][k].seq < seq
          BY DEF BusInv, WindowsTyped
        <5>2. channel[w][k] \in Bus!Notices
          BY <5>1
        <5> QED BY <5>1, <5>2 DEF Bus!Notices
      <4> QED BY <3>1, <4>1, <4>2
    <3> QED BY <2>1, <3>2 DEF BusInv, WindowsTyped
  <2>4. ASSUME NEW w \in Viewers, NEW k \in Items PROVE Follows(w, k)'
    <3>1. ASSUME ByThread(w, k) PROVE ByThread(w, k)'
      <4>1. PICK u \in Senders : /\ sender[u].item = k
                                 /\ \/ sender[u].pc = "take"
                                    \/ "windows" \in sender[u].to /\ sender[u].seq > heard[w][k]
        BY <3>1 DEF ByThread
      <4>2. heard'[w][k] = heard[w][k] /\ heard[w][k] < seq
        BY <2>1 DEF BusInv, WindowsTyped
      <4>3. CASE u = t
        <5>1. sender'[u].item = k /\ "windows" \in sender'[u].to /\ sender'[u].seq > heard'[w][k]
          BY <2>1, <4>1, <4>2, <4>3 DEF BusInv, SendersTyped, WindowsTyped
        <5> QED BY <5>1 DEF ByThread
      <4>4. CASE u # t
        BY <2>1, <4>1, <4>2, <4>4 DEF ByThread
      <4> QED BY <4>3, <4>4
    <3>2. ByEvent(w, k) => ByEvent(w, k)'
      BY <2>1 DEF ByEvent
    <3> QED BY <2>1, <3>1, <3>2 DEF BusInv, WindowsFollow, Follows
  <2>5. Overtaken' \subseteq Overtaken
    <3>1. ~(sender'[t].seq < newest')
      BY <2>1 DEF BusInv, SendersTyped, PhoneFollows
    <3> QED BY <2>1, <3>1 DEF BusInv, SendersTyped, Overtaken
  <2>6. PhoneFollows'
    BY <2>1, <2>2, <2>5, PhoneUndisturbed DEF BusInv, SendersTyped
  <2> QED BY <2>2, <2>3, <2>4, <2>6 DEF BusInv, WindowsFollow
<1>3. ASSUME NEW t \in Senders, NEW way \in {"windows", "phone"}, Bus!Sent(t, way), UNCHANGED seq
      PROVE  /\ SendersTyped' /\ sender[t].seq < seq /\ sender[t].item \in Items
             /\ \A u \in Senders : /\ u # t => sender'[u] = sender[u]
                                   /\ sender[u].pc = "take" => sender'[u] = sender[u]
                                   /\ way \notin sender'[t].to
                                   /\ sender'[u].to # {} => sender'[u].seq = sender[u].seq
                                   /\ sender'[u].to # {} => sender'[u].item = sender[u].item
             /\ way \in sender[t].to /\ sender'[t].to = sender[t].to \ {way}
  <2>1. /\ way \in sender[t].to
        /\ sender' = IF sender[t].to = {way} THEN [sender EXCEPT ![t] = Bus!Idle]
                     ELSE [sender EXCEPT ![t].to = sender[t].to \ {way}]
    BY <1>3 DEF Bus!Sent
  <2>2. CASE sender[t].to = {way}
    BY <1>3, <2>1, <2>2 DEF BusInv, SendersTyped, Bus!Idle
  <2>3. CASE sender[t].to # {way}
    <3>1. /\ DOMAIN sender' = Senders /\ \A u \in Senders : u # t => sender'[u] = sender[u]
          /\ DOMAIN sender'[t] = {"pc", "item", "seq", "to"} /\ sender'[t].pc = sender[t].pc
          /\ sender'[t].item = sender[t].item /\ sender'[t].seq = sender[t].seq
          /\ sender'[t].to = sender[t].to \ {way}
      BY <2>1, <2>3 DEF BusInv, SendersTyped
    <3> QED BY <1>3, <2>1, <2>3, <3>1 DEF BusInv, SendersTyped
  <2> QED BY <2>2, <2>3
<1>4. ASSUME NEW t \in Senders, Bus!Emit(t) PROVE BusInv'
  <2> DEFINE notice == [seq |-> sender[t].seq, item |-> sender[t].item]
  <2>1. /\ UNCHANGED <<store, seq, cursor, deaf, due, view, ring, newest, heard, overtaken>>
        /\ Bus!Sent(t, "windows")
        /\ channel' = [w \in Viewers |-> IF w \in deaf THEN channel[w]
                                         ELSE Append(channel[w], notice)]
        /\ unheard' = unheard \cup (deaf \X {sender[t].item})
    BY <1>4 DEF Bus!Emit
  <2>2. /\ SendersTyped' /\ sender[t].seq < seq /\ sender[t].item \in Items
        /\ \A u \in Senders : /\ u # t => sender'[u] = sender[u]
                              /\ sender[u].pc = "take" => sender'[u] = sender[u]
                              /\ sender'[u].to # {} => sender'[u].seq = sender[u].seq
        /\ sender'[t].to = sender[t].to \ {"windows"} /\ sender[t].seq \in Nat
    BY <1>3, <2>1 DEF BusInv, SendersTyped
  <2>3. /\ notice \in Bus!Notices /\ notice.seq = sender[t].seq
        /\ notice.item = sender[t].item
    BY <2>2 DEF Bus!Notices
  <2> HIDE DEF notice
  <2>4. ASSUME NEW w \in Viewers
        PROVE  /\ channel'[w] \in Seq(Bus!Notices)
               /\ \A k \in 1 .. Len(channel[w]) :
                    k \in 1 .. Len(channel'[w]) /\ channel'[w][k] = channel[w][k]
               /\ \A k \in 1 .. Len(channel'[w]) : channel'[w][k].seq < seq
               /\ w \notin deaf => /\ Len(channel'[w]) \in 1 .. Len(channel'[w])
                                   /\ channel'[w][Len(channel'[w])] = notice
    <3>1. channel[w] \in Seq(Bus!Notices) /\ Len(channel[w]) \in Nat
          /\ \A k \in 1 .. Len(channel[w]) : channel[w][k].seq < seq
      <4>1. channel[w] \in Seq(Bus!Notices)
        BY DEF BusInv, WindowsTyped
      <4>2. Len(channel[w]) \in Nat
        BY <4>1
      <4> QED BY <4>1, <4>2 DEF BusInv, WindowsTyped
    <3>2. CASE w \in deaf
      BY <2>1, <3>1, <3>2
    <3>3. CASE w \notin deaf
      <4>1. channel'[w] = Append(channel[w], notice)
        BY <2>1, <3>3
      <4>2. /\ Append(channel[w], notice) \in Seq(Bus!Notices)
            /\ Len(Append(channel[w], notice)) = Len(channel[w]) + 1
            /\ Append(channel[w], notice)[Len(channel[w]) + 1] = notice
            /\ \A k \in 1 .. Len(channel[w]) : Append(channel[w], notice)[k] = channel[w][k]
        BY <2>3, <3>1
      <4>3. ASSUME NEW k \in 1 .. Len(channel'[w]) PROVE channel'[w][k].seq < seq
        <5>1. CASE k = Len(channel[w]) + 1
          BY <2>2, <2>3, <4>1, <4>2, <5>1
        <5>2. CASE k # Len(channel[w]) + 1
          <6>1. k \in 1 .. Len(channel[w])
            BY <3>1, <4>1, <4>2, <5>2
          <6> QED BY <3>1, <4>1, <4>2, <6>1
        <5> QED BY <5>1, <5>2
      <4> QED BY <3>1, <3>3, <4>1, <4>2, <4>3
    <3> QED BY <3>2, <3>3
  <2>5. WindowsTyped'
    <3>1. channel' \in [Viewers -> Seq(Bus!Notices)]
      BY <2>1, <2>4
    <3> QED BY <2>1, <2>4, <3>1 DEF BusInv, WindowsTyped
  <2>6. ASSUME NEW w \in Viewers, NEW i \in Items PROVE Follows(w, i)'
    <3>1. ASSUME ByThread(w, i) PROVE Follows(w, i)'
      <4>1. PICK u \in Senders : /\ sender[u].item = i
                                 /\ \/ sender[u].pc = "take"
                                    \/ "windows" \in sender[u].to /\ sender[u].seq > heard[w][i]
        BY <3>1 DEF ByThread
      <4>2. CASE u # t \/ sender[u].pc = "take"
        <5>1. sender'[u] = sender[u] /\ heard'[w][i] = heard[w][i]
          BY <2>1, <2>2, <4>2
        <5> QED BY <4>1, <5>1 DEF Follows, ByThread
      <4>3. CASE u = t /\ sender[t].pc # "take" /\ w \in deaf
        <5>1. <<w, i>> \in unheard'
          BY <2>1, <4>1, <4>3
        <5> QED BY <5>1 DEF Follows
      <4>4. CASE u = t /\ sender[t].pc # "take" /\ w \notin deaf
        <5>1. /\ channel'[w][Len(channel'[w])].item = i
              /\ channel'[w][Len(channel'[w])].seq > heard'[w][i]
          BY <2>1, <2>3, <2>4, <4>1, <4>4
        <5>2. ByEvent(w, i)'
          BY <2>4, <4>4, <5>1 DEF ByEvent
        <5> QED BY <5>2 DEF Follows
      <4> QED BY <4>2, <4>3, <4>4
    <3>2. ASSUME ByEvent(w, i) PROVE ByEvent(w, i)'
      <4>1. PICK k \in 1 .. Len(channel[w]) :
              channel[w][k].item = i /\ channel[w][k].seq > heard[w][i]
        BY <3>2 DEF ByEvent
      <4>2. k \in 1 .. Len(channel'[w]) /\ channel'[w][k] = channel[w][k]
        BY <2>4, <4>1
      <4> QED BY <2>1, <4>1, <4>2 DEF ByEvent
    <3> QED BY <2>1, <3>1, <3>2 DEF BusInv, WindowsFollow, Follows
  <2>7. PhoneFollows'
    <3>1. Overtaken' \subseteq Overtaken
      BY <2>1, <2>2 DEF Overtaken
    <3> QED BY <2>1, <2>2, <3>1, PhoneUndisturbed DEF BusInv, SendersTyped
  <2> QED BY <2>2, <2>5, <2>6, <2>7 DEF BusInv, WindowsFollow
<1>5. ASSUME NEW t \in Senders, Bus!Send(t) PROVE BusInv'
  <2> DEFINE n == sender[t].seq
             all == Append(ring, n)
  <2>1. /\ UNCHANGED <<store, seq, channel, cursor, deaf, due, view, heard, unheard, overtaken>>
        /\ Bus!Sent(t, "phone")
        /\ ring' = IF Len(all) > RingCap THEN Tail(all) ELSE all
        /\ newest' = Bus!Max({newest, n})
    BY <1>5 DEF Bus!Send
  <2>2. /\ SendersTyped' /\ n < seq /\ n \in Nat
        /\ \A u \in Senders : /\ u # t => sender'[u] = sender[u]
                              /\ sender[u].pc = "take" => sender'[u] = sender[u]
                              /\ sender'[u].to # {} => sender'[u].seq = sender[u].seq
                              /\ sender'[u].to # {} => sender'[u].item = sender[u].item
        /\ "phone" \in sender[t].to
        /\ sender'[t].to = sender[t].to \ {"phone"}
    BY <1>3, <2>1 DEF BusInv, SendersTyped
  <2>3. WindowsTyped' /\ WindowsFollow'
    <3>1. ASSUME NEW u \in Senders, "windows" \in sender[u].to
          PROVE  /\ "windows" \in sender'[u].to
                 /\ sender'[u].item = sender[u].item /\ sender'[u].seq = sender[u].seq
      <4>1. "windows" \in sender'[u].to
        BY <2>2, <3>1
      <4> QED BY <2>2, <4>1
    <3> HIDE DEF all, n
    <3> QED BY <2>1, <2>2, <3>1, WindowsUndisturbed
  <2>5. /\ newest' = (IF newest >= n THEN newest ELSE n) /\ newest' \in Nat /\ newest' < seq
        /\ newest' >= newest /\ newest' >= n
    BY <2>1, <2>2, BusOperators DEF BusInv, PhoneFollows
  <2>6. /\ all \in Seq(Nat) /\ Len(all) = Len(ring) + 1 /\ all[Len(ring) + 1] = n
        /\ \A j \in 1 .. Len(ring) : all[j] = ring[j]
        /\ Len(ring) \in Nat /\ Len(ring) <= RingCap
        /\ \A j \in 1 .. Len(ring) : ring[j] \in Nat /\ ring[j] <= newest
    BY <2>2 DEF BusInv, PhoneFollows
  <2>7. \A j \in 1 .. Len(all) : all[j] <= newest'
    <3>1. newest \in Nat
      BY DEF BusInv, PhoneFollows
    <3> HIDE DEF n, all
    <3> QED BY <2>2, <2>5, <2>6, <3>1
  <2>8. Overtaken' \subseteq Senders \ {t}
    BY <2>2 DEF Overtaken
  <2>9. IsFiniteSet(Senders) /\ Cardinality(Overtaken') < Cardinality(Senders)
        /\ Cardinality(Overtaken') \in Nat
    <3>1. IsFiniteSet(Senders) /\ Cardinality(Senders) \in Nat
      BY BusAssumption, BusOperators, OvertakenIsFinite DEF Bus!BusAssumption
    <3>2. /\ IsFiniteSet(Senders \ {t})
          /\ Cardinality(Senders \ {t}) = Cardinality(Senders) - 1
      BY <3>1, FS_RemoveElement
    <3>3. /\ Cardinality(Overtaken') \in Nat
          /\ Cardinality(Overtaken') <= Cardinality(Senders \ {t})
      BY <2>8, <3>2, FS_Subset, FS_CardinalityType
    <3> QED BY <3>1, <3>2, <3>3
  <2>10. RingCap \in Nat /\ Cardinality(Senders) <= RingCap /\ Cardinality(Senders) \in Nat
    BY BusAssumption, BusOperators, OvertakenIsFinite DEF Bus!BusAssumption
  \* Where the newest event is in the ring before its oldest may be lost.
  <2>11. cursor["phone"] < newest' =>
           \E p \in 1 .. Len(all) :
             all[p] = newest' /\ Len(all) - p + Cardinality(Overtaken') < Cardinality(Senders)
    <3>1. CASE n >= newest
      <4>1. Len(ring) + 1 \in 1 .. Len(all) /\ all[Len(ring) + 1] = newest'
        <5> HIDE DEF all, n
        <5> QED BY <2>2, <2>5, <2>6, <3>1 DEF BusInv, PhoneFollows
      <4>2. Len(all) - (Len(ring) + 1) + Cardinality(Overtaken') < Cardinality(Senders)
        <5> HIDE DEF all, n
        <5> QED BY <2>6, <2>9, <2>10
      <4> HIDE DEF all, n
      <4> QED BY <4>1, <4>2
    <3>2. CASE n < newest /\ cursor["phone"] < newest'
      <4>1. newest' = newest
        <5> HIDE DEF all, n
        <5> QED BY <2>2, <2>5, <3>2 DEF BusInv, PhoneFollows
      <4>2. PICK p \in 1 .. Len(ring) :
              ring[p] = newest /\ Len(ring) - p + Cardinality(Overtaken) < Cardinality(Senders)
        BY <3>2, <4>1 DEF BusInv, PhoneFollows, NewestIsKept
      <4>3. t \in Overtaken /\ Overtaken' \subseteq Overtaken \ {t}
        BY <2>2, <3>2, <4>1 DEF Overtaken
      <4>4. /\ IsFiniteSet(Overtaken \ {t})
            /\ Cardinality(Overtaken \ {t}) = Cardinality(Overtaken) - 1
            /\ Cardinality(Overtaken') <= Cardinality(Overtaken \ {t})
        BY <4>3, OvertakenIsFinite, FS_RemoveElement, FS_Subset
      <4>5. p \in 1 .. Len(all) /\ all[p] = newest'
        <5> HIDE DEF all, n
        <5> QED BY <2>6, <4>1, <4>2
      <4>6. Len(all) - p + Cardinality(Overtaken') < Cardinality(Senders)
        <5> HIDE DEF all, n
        <5> QED BY <2>6, <2>9, <2>10, <4>2, <4>4, OvertakenIsFinite
      <4> HIDE DEF all, n
      <4> QED BY <4>5, <4>6
    <3> HIDE DEF all, n
    <3> QED BY <2>2, <3>1, <3>2 DEF BusInv, PhoneFollows
  <2>12. PhoneFollows'
    <3> HIDE DEF all, n
    <3>1. /\ cursor'["phone"] \in Nat /\ cursor'["phone"] <= newest' /\ newest' < seq'
          /\ newest' \in Nat
      BY <2>1, <2>5 DEF BusInv, PhoneFollows
    <3>2. CASE Len(all) > RingCap
      <4>1. /\ ring' = Tail(all) /\ Tail(all) \in Seq(Nat) /\ Len(Tail(all)) = Len(all) - 1
            /\ \A j \in 1 .. Len(all) - 1 : Tail(all)[j] = all[j + 1]
        BY <2>1, <2>6, <2>10, <3>2
      <4>2. /\ ring' \in Seq(Nat) /\ Len(ring') <= RingCap
            /\ \A j \in 1 .. Len(ring') : ring'[j] <= newest'
        BY <2>6, <2>7, <2>10, <4>1
      <4>3. ASSUME cursor'["phone"] < newest' PROVE NewestIsKept'
        <5>1. PICK p \in 1 .. Len(all) :
                all[p] = newest' /\ Len(all) - p + Cardinality(Overtaken') < Cardinality(Senders)
          BY <2>1, <2>11, <4>3
        <5>2. p - 1 \in 1 .. Len(ring')
          BY <2>6, <2>9, <2>10, <3>2, <4>1, <5>1
        <5>3. ring'[p - 1] = newest'
          BY <2>6, <4>1, <5>1, <5>2
        <5>4. Len(ring') - (p - 1) + Cardinality(Overtaken') < Cardinality(Senders)
          BY <2>6, <2>9, <2>10, <4>1, <5>1
        <5> QED BY <5>2, <5>3, <5>4 DEF NewestIsKept
      <4> QED BY <3>1, <4>2, <4>3 DEF PhoneFollows
    <3>3. CASE ~(Len(all) > RingCap)
      <4>1. ring' = all
        BY <2>1, <3>3
      <4>2. ASSUME cursor'["phone"] < newest' PROVE NewestIsKept'
        BY <2>1, <2>11, <4>1, <4>2 DEF NewestIsKept
      <4>3. Len(ring') <= RingCap
        BY <2>6, <2>10, <3>3, <4>1
      <4> QED BY <2>6, <2>7, <3>1, <4>1, <4>2, <4>3 DEF PhoneFollows
    <3> QED BY <3>2, <3>3
  <2> QED BY <2>2, <2>3, <2>12 DEF BusInv
<1>6. ASSUME NEW w \in Viewers, Bus!Deliver(w) PROVE BusInv'
  <2> DEFINE n == Head(channel[w])
  <2>1. /\ UNCHANGED <<store, sender, seq, deaf, view, ring, newest, unheard>>
        /\ channel[w] # <<>> /\ channel' = [channel EXCEPT ![w] = Tail(channel[w])]
        /\ n.seq > cursor[w] => /\ cursor' = [cursor EXCEPT ![w] = n.seq]
                                /\ due' = due \cup {<<w, n.item>>}
                                /\ heard' = [heard EXCEPT ![w][n.item] = n.seq]
                                /\ overtaken' = overtaken
        /\ ~(n.seq > cursor[w]) =>
             /\ cursor' = cursor /\ due' = due /\ heard' = heard
             /\ overtaken' = IF heard[w][n.item] < n.seq /\ n.seq <= cursor[w]
                             THEN overtaken \cup {<<w, n.item>>} ELSE overtaken
    BY <1>6 DEF Bus!Deliver, Bus!Newer
  <2>2. /\ channel[w] \in Seq(Bus!Notices) /\ Len(channel[w]) \in Nat
        /\ Len(channel[w]) > 0 /\ n = channel[w][1] /\ 1 \in 1 .. Len(channel[w])
        /\ n.seq \in Nat /\ n.item \in Items /\ n.seq < seq
    <3>1. channel[w] \in Seq(Bus!Notices)
      BY DEF BusInv, WindowsTyped
    <3>2. /\ Len(channel[w]) \in Nat /\ Len(channel[w]) > 0 /\ 1 \in 1 .. Len(channel[w])
          /\ n = channel[w][1] /\ n \in Bus!Notices
      <4>1. channel[w] # <<>>
        BY <2>1
      <4>2. Len(channel[w]) \in Nat /\ Len(channel[w]) > 0 /\ n = channel[w][1]
        BY <3>1, <4>1
      <4>3. 1 \in 1 .. Len(channel[w])
        BY <4>2
      <4> QED BY <3>1, <4>2, <4>3
    <3>3. channel[w][1].seq < seq
      BY <3>2 DEF BusInv, WindowsTyped
    <3> QED BY <3>1, <3>2, <3>3 DEF Bus!Notices
  <2>3. /\ channel'[w] = Tail(channel[w]) /\ Tail(channel[w]) \in Seq(Bus!Notices)
        /\ Len(channel'[w]) = Len(channel[w]) - 1
        /\ \A k \in 1 .. Len(channel[w]) - 1 : channel'[w][k] = channel[w][k + 1]
        /\ \A v \in Viewers : v # w => channel'[v] = channel[v]
    BY <2>1, <2>2 DEF BusInv, WindowsTyped
  <2> HIDE DEF n
  <2>4. SendersTyped'
    BY <2>1 DEF BusInv, SendersTyped
  <2>5. /\ due \subseteq due' /\ overtaken \subseteq overtaken'
        /\ \A v \in Viewers : v # w => heard'[v] = heard[v] /\ cursor'[v] = cursor[v]
        /\ \A i \in Items : i # n.item => heard'[w][i] = heard[w][i]
        /\ heard'[w][n.item] \in {heard[w][n.item], n.seq}
        /\ cursor'[w] \in {cursor[w], n.seq} /\ cursor'["phone"] = cursor["phone"]
        /\ DOMAIN cursor' = Viewers \cup {"phone"} /\ heard' \in [Viewers -> [Items -> Nat]]
    <3>1. CASE n.seq > cursor[w]
      <4>1. heard' = [heard EXCEPT ![w] = [heard[w] EXCEPT ![n.item] = n.seq]]
        BY <2>1, <2>2, <3>1 DEF BusInv, WindowsTyped
      <4>2. [heard[w] EXCEPT ![n.item] = n.seq] \in [Items -> Nat]
        BY <2>2 DEF BusInv, WindowsTyped
      <4> QED BY <1>a, <2>1, <2>2, <3>1, <4>1, <4>2 DEF BusInv, WindowsTyped
    <3>2. CASE ~(n.seq > cursor[w])
      BY <2>1, <2>2, <3>2 DEF BusInv, WindowsTyped
    <3> QED BY <3>1, <3>2
  <2>6. WindowsTyped'
    <3>1. channel' \in [Viewers -> Seq(Bus!Notices)]
      BY <2>1, <2>3 DEF BusInv, WindowsTyped
    <3>2. ASSUME NEW v \in Viewers
          PROVE  /\ cursor'[v] \in Nat /\ \A i \in Items : heard'[v][i] < seq
                 /\ \A k \in 1 .. Len(channel'[v]) : channel'[v][k].seq < seq
      <4>1. CASE v = w
        <5>1. \A i \in Items : heard'[w][i] < seq
          BY <2>2, <2>5 DEF BusInv, WindowsTyped
        <5>2. ASSUME NEW k \in 1 .. Len(channel'[w]) PROVE channel'[w][k].seq < seq
          <6>1. k + 1 \in 1 .. Len(channel[w]) /\ channel'[w][k] = channel[w][k + 1]
            BY <2>2, <2>3
          <6> QED BY <6>1 DEF BusInv, WindowsTyped
        <5>3. cursor'[w] \in Nat
          BY <2>2, <2>5 DEF BusInv, WindowsTyped
        <5> QED BY <4>1, <5>1, <5>2, <5>3
      <4>2. CASE v # w
        BY <2>3, <2>5, <4>2 DEF BusInv, WindowsTyped
      <4> QED BY <4>1, <4>2
    <3> QED BY <2>1, <2>5, <3>1, <3>2 DEF BusInv, WindowsTyped
  <2>7. ASSUME NEW v \in Viewers, NEW i \in Items PROVE Follows(v, i)'
    <3>1. CASE v # w
      <4>1. ByThread(v, i) => ByThread(v, i)'
        BY <2>1, <2>5, <3>1 DEF ByThread
      <4>2. ByEvent(v, i) => ByEvent(v, i)'
        BY <2>3, <2>5, <3>1 DEF ByEvent
      <4> QED BY <2>1, <2>5, <4>1, <4>2 DEF BusInv, WindowsFollow, Follows
    <3>2. CASE v = w /\ i = n.item /\ n.seq > cursor[w]
      <4>1. <<v, i>> \in due'
        BY <2>1, <3>2
      <4> QED BY <4>1 DEF Follows
    <3>3. CASE v = w /\ ~(i = n.item /\ n.seq > cursor[w])
      <4>1. heard'[w][i] = heard[w][i]
        BY <2>1, <2>5, <3>3
      <4>2. ByThread(w, i) => ByThread(w, i)'
        BY <2>1, <4>1 DEF ByThread
      <4>3. ASSUME ByEvent(w, i) PROVE Follows(w, i)'
        <5>1. PICK k \in 1 .. Len(channel[w]) :
                channel[w][k].item = i /\ channel[w][k].seq > heard[w][i]
          BY <4>3 DEF ByEvent
        <5>2. CASE k = 1
          <6>1. n.item = i /\ n.seq > heard[w][i] /\ ~(n.seq > cursor[w])
            BY <2>2, <3>3, <5>1, <5>2
          <6>2. heard[w][n.item] < n.seq /\ n.seq <= cursor[w]
            BY <2>2, <6>1 DEF BusInv, WindowsTyped
          <6>3. <<w, i>> \in overtaken'
            BY <2>1, <6>1, <6>2
          <6> QED BY <3>3, <6>3 DEF Follows
        <5>3. CASE k # 1
          <6>1. k - 1 \in 1 .. Len(channel'[w]) /\ channel'[w][k - 1] = channel[w][k]
            BY <2>2, <2>3, <5>3
          <6>2. ByEvent(w, i)'
            BY <4>1, <5>1, <6>1 DEF ByEvent
          <6> QED BY <3>3, <6>2 DEF Follows
        <5> QED BY <5>2, <5>3
      <4> QED BY <2>1, <2>5, <3>3, <4>2, <4>3 DEF BusInv, WindowsFollow, Follows
    <3> QED BY <3>1, <3>2, <3>3
  <2>8. PhoneFollows'
    <3>1. Overtaken' \subseteq Overtaken
      BY <2>1 DEF Overtaken
    <3> QED BY <2>1, <2>5, <3>1, PhoneUndisturbed DEF BusInv, SendersTyped
  <2> QED BY <2>4, <2>6, <2>7, <2>8 DEF BusInv, WindowsFollow
<1>7. ASSUME NEW w \in Viewers, NEW i \in Items, Bus!Load(w, i) PROVE BusInv'
  <2>1. /\ UNCHANGED <<store, sender, seq, channel, cursor, deaf, ring, newest, heard>>
        /\ view' = [view EXCEPT ![w][i] = store[i]] /\ due' = due \ {<<w, i>>}
        /\ unheard' = unheard \ {<<w, i>>} /\ overtaken' = overtaken \ {<<w, i>>}
    BY <1>7 DEF Bus!Load
  <2>2. SendersTyped'
    BY <2>1 DEF BusInv, SendersTyped
  <2>3. /\ DOMAIN view' = Viewers /\ view'[w][i] = store[i]
        /\ \A v \in Viewers : DOMAIN view'[v] = Items
        /\ \A v \in Viewers, k \in Items : <<v, k>> # <<w, i>> => view'[v][k] = view[v][k]
    BY <2>1 DEF BusInv, WindowsTyped
  <2>4. WindowsTyped'
    BY <2>1, <2>3 DEF BusInv, WindowsTyped
  <2>5. ASSUME NEW v \in Viewers, NEW k \in Items PROVE Follows(v, k)'
    <3>1. CASE <<v, k>> = <<w, i>>
      BY <2>1, <2>3, <3>1 DEF Follows
    <3>2. CASE <<v, k>> # <<w, i>>
      <4>1. (ByThread(v, k) => ByThread(v, k)') /\ (ByEvent(v, k) => ByEvent(v, k)')
        BY <2>1 DEF ByThread, ByEvent
      <4> QED BY <2>1, <2>3, <3>2, <4>1 DEF BusInv, WindowsFollow, Follows
    <3> QED BY <3>1, <3>2
  <2>6. PhoneFollows'
    <3>1. Overtaken' \subseteq Overtaken
      BY <2>1 DEF Overtaken
    <3> QED BY <2>1, <3>1, PhoneUndisturbed DEF BusInv, SendersTyped
  <2> QED BY <2>2, <2>4, <2>5, <2>6 DEF BusInv, WindowsFollow
<1>8. ASSUME NEW w \in Viewers, Bus!Reload(w) PROVE BusInv'
  <2>1. /\ UNCHANGED <<store, sender, seq, view, ring, newest>>
        /\ cursor' = [cursor EXCEPT ![w] = 0] /\ channel' = [channel EXCEPT ![w] = <<>>]
        /\ heard' = [heard EXCEPT ![w] = [k \in Items |-> 0]]
        /\ due' = due \cup ({w} \X Items)
        /\ unheard' = unheard \ ({w} \X Items) /\ overtaken' = overtaken \ ({w} \X Items)
    BY <1>8 DEF Bus!Reload
  <2>2. SendersTyped'
    BY <2>1 DEF BusInv, SendersTyped
  <2>3. WindowsTyped' /\ cursor'["phone"] = cursor["phone"]
    <3>1. /\ channel' \in [Viewers -> Seq(Bus!Notices)]
          /\ heard' \in [Viewers -> [Items -> Nat]]
      <4>1. <<>> \in Seq(Bus!Notices) /\ [k \in Items |-> 0] \in [Items -> Nat]
        OBVIOUS
      <4> QED BY <2>1, <4>1 DEF BusInv, WindowsTyped
    <3>2. cursor'["phone"] = cursor["phone"] /\ DOMAIN cursor' = Viewers \cup {"phone"}
      BY <1>a, <2>1 DEF BusInv, WindowsTyped
    <3>3. ASSUME NEW v \in Viewers
          PROVE  /\ cursor'[v] \in Nat /\ \A i \in Items : heard'[v][i] < seq
                 /\ \A k \in 1 .. Len(channel'[v]) : channel'[v][k].seq < seq
      <4>1. CASE v = w
        <5>1. cursor'[w] = 0 /\ channel'[w] = <<>> /\ \A i \in Items : heard'[w][i] = 0
          BY <2>1 DEF BusInv, WindowsTyped
        <5> QED BY <4>1, <5>1 DEF BusInv, SendersTyped
      <4>2. CASE v # w
        BY <2>1, <4>2 DEF BusInv, WindowsTyped
      <4> QED BY <4>1, <4>2
    <3> QED BY <2>1, <3>1, <3>2, <3>3 DEF BusInv, WindowsTyped
  <2>4. ASSUME NEW v \in Viewers, NEW k \in Items PROVE Follows(v, k)'
    <3>1. CASE v = w
      BY <2>1, <3>1 DEF Follows
    <3>2. CASE v # w
      <4>1. channel'[v] = channel[v] /\ heard'[v] = heard[v]
        BY <2>1, <3>2 DEF BusInv, WindowsTyped
      <4>2. (ByThread(v, k) => ByThread(v, k)') /\ (ByEvent(v, k) => ByEvent(v, k)')
        BY <2>1, <4>1 DEF ByThread, ByEvent
      <4> QED BY <2>1, <3>2, <4>2 DEF BusInv, WindowsFollow, Follows
    <3> QED BY <3>1, <3>2
  <2>5. PhoneFollows'
    <3>1. Overtaken' \subseteq Overtaken
      BY <2>1 DEF Overtaken
    <3> QED BY <2>1, <2>3, <3>1, PhoneUndisturbed DEF BusInv, SendersTyped
  <2> QED BY <2>2, <2>3, <2>4, <2>5 DEF BusInv, WindowsFollow
<1>9. ASSUME UNCHANGED <<store, sender, seq, channel, cursor, due, view, ring, newest,
                         heard, unheard, overtaken>>
      PROVE  BusInv'
  <2>1. SendersTyped' /\ Overtaken' \subseteq Overtaken
    BY <1>9 DEF BusInv, SendersTyped, Overtaken
  <2>2. WindowsTyped' /\ WindowsFollow'
    BY <1>9, WindowsUndisturbed
  <2>3. PhoneFollows'
    BY <1>9, <2>1, PhoneUndisturbed DEF BusInv, SendersTyped
  <2> QED BY <2>1, <2>2, <2>3 DEF BusInv
<1>10. CASE Bus!Connect \/ Bus!Forward
  <2>1. /\ UNCHANGED <<store, sender, seq, channel, deaf, due, view, heard, unheard, overtaken>>
        /\ DOMAIN cursor' = DOMAIN cursor /\ \A w \in Viewers : cursor'[w] = cursor[w]
    BY <1>10, <1>a DEF Bus!Connect, Bus!Forward, BusInv, WindowsTyped
  <2>2. SendersTyped'
    BY <2>1 DEF BusInv, SendersTyped
  <2>3. WindowsTyped' /\ WindowsFollow'
    BY <2>1, WindowsUndisturbed
  <2>5. CASE Bus!Connect
    <3>1. ring' = <<>> /\ newest' = 0 /\ cursor'["phone"] = 0 /\ RingCap \in Nat
      BY <2>5, BusAssumption DEF Bus!Connect, BusInv, WindowsTyped, Bus!BusAssumption
    <3>2. PhoneFollows'
      BY <2>1, <3>1 DEF PhoneFollows, BusInv, SendersTyped
    <3> QED BY <2>2, <2>3, <3>2 DEF BusInv
  <2>6. CASE Bus!Forward
    <3> DEFINE n == Head(ring)
    <3>1. /\ ring # <<>> /\ ring' = Tail(ring) /\ newest' = newest
          /\ cursor'["phone"] = IF n > cursor["phone"] THEN n ELSE cursor["phone"]
      BY <2>6 DEF Bus!Forward, Bus!Newer, BusInv, WindowsTyped
    <3>2. /\ ring \in Seq(Nat) /\ Len(ring) \in Nat /\ Len(ring) > 0 /\ n = ring[1]
          /\ n \in Nat /\ n <= newest
      BY <3>1 DEF BusInv, PhoneFollows
    <3>3. /\ ring' \in Seq(Nat) /\ Len(ring') = Len(ring) - 1
          /\ \A j \in 1 .. Len(ring) - 1 : ring'[j] = ring[j + 1]
      BY <3>1, <3>2
    <3>4. /\ cursor'["phone"] \in Nat /\ cursor'["phone"] <= newest
          /\ cursor'["phone"] >= n /\ cursor'["phone"] >= cursor["phone"]
      <4> HIDE DEF n
      <4> QED BY <3>1, <3>2 DEF BusInv, PhoneFollows
    <3>5. ASSUME cursor'["phone"] < newest' PROVE NewestIsKept'
      <4>1. PICK p \in 1 .. Len(ring) :
              ring[p] = newest /\ Len(ring) - p + Cardinality(Overtaken) < Cardinality(Senders)
        <5>1. cursor["phone"] < newest
          <6> HIDE DEF n
          <6> QED BY <3>1, <3>4, <3>5 DEF BusInv, PhoneFollows
        <5> QED BY <5>1 DEF BusInv, PhoneFollows, NewestIsKept
      <4>2. p # 1
        BY <3>1, <3>2, <3>4, <3>5, <4>1 DEF BusInv, PhoneFollows
      <4>3. Overtaken' = Overtaken
        BY <2>1, <3>1 DEF Overtaken
      <4>4. p - 1 \in 1 .. Len(ring') /\ ring'[p - 1] = newest'
        <5> HIDE DEF n
        <5> QED BY <3>1, <3>2, <3>3, <4>1, <4>2
      <4>5. Len(ring') - (p - 1) + Cardinality(Overtaken') < Cardinality(Senders)
        <5> HIDE DEF n
        <5> QED BY <3>2, <3>3, <4>1, <4>3, OvertakenIsFinite
      <4> QED BY <4>4, <4>5 DEF NewestIsKept
    <3>6. PhoneFollows'
      <4> HIDE DEF n
      <4> QED BY <2>1, <3>1, <3>2, <3>3, <3>4, <3>5, BusAssumption
          DEF BusInv, PhoneFollows, Bus!BusAssumption
    <3> QED BY <2>2, <2>3, <3>6 DEF BusInv
  <2> QED BY <1>10, <2>5, <2>6
<1> QED
  BY <1>1, <1>2, <1>4, <1>5, <1>6, <1>7, <1>8, <1>9, <1>10 DEF Bus!Next, Bus!Listen, Bus!vars

\* Whatever the order in which any number of threads send, and although a viewer
\* drops what comes late (event_bus.rs, eventBus.ts): when nothing is under way, a
\* window shows each item as it is, unless the event of its last change went out
\* while the page did not listen or was overtaken by one about another item; and
\* the phone has seen the newest event sent to it, as the ring holds one event of
\* each thread.
THEOREM ViewersBecomeCurrent == Bus!Spec => []QuietViewersAreCurrent
<1>1. BusInv => QuietViewersAreCurrent
  <2> SUFFICES ASSUME BusInv
               PROVE  /\ \A w \in Viewers, i \in Items :
                           Bus!AtRest(w, i) => \/ view[w][i] = store[i]
                                               \/ <<w, i>> \in unheard \cup overtaken
                      /\ (\A t \in Senders : sender[t].pc = "idle") /\ ring = <<>> =>
                           cursor["phone"] = newest
    BY DEF QuietViewersAreCurrent, Bus!QuietViewersAreCurrent, Bus!At, Bus!Phone
  <2>1. ASSUME NEW w \in Viewers, NEW i \in Items, Bus!AtRest(w, i)
        PROVE  view[w][i] = store[i] \/ <<w, i>> \in unheard \cup overtaken
    <3>1. (\A t \in Senders : sender[t].pc = "idle") /\ channel[w] = <<>> /\ <<w, i>> \notin due
      BY <2>1 DEF Bus!AtRest, Bus!At
    <3>2. ~ByThread(w, i)
      BY <3>1 DEF BusInv, SendersTyped, ByThread
    <3>3. ~ByEvent(w, i)
      BY <3>1 DEF ByEvent
    <3> QED BY <3>1, <3>2, <3>3 DEF BusInv, WindowsFollow, Follows
  <2>2. ring = <<>> => cursor["phone"] = newest
    BY DEF BusInv, PhoneFollows, NewestIsKept
  <2> QED BY <2>1, <2>2
<1> QED BY <1>1, BusInit, BusStep, PTL DEF Bus!Spec

----------------------------------------------------------------------------
(* Retention                                                               *)

\* The rows are dated, an event whose link is still to be written has no row,
\* commands and files are where they can be.
AuditTyped ==
  /\ links \in [Ids -> Nat] /\ orphans \subseteq Ids /\ day \in Nat /\ day > 0
  /\ \A i \in orphans : links[i] = 0
  /\ DOMAIN sealing = Auditors /\ DOMAIN files = 1 .. MaxFiles
  /\ \A c \in Auditors :
       /\ DOMAIN sealing[c] = {"pc", "kind", "n", "rows", "file"}
       /\ sealing[c].pc \in {"idle", "export", "create", "write", "manifest", "event", "seal"}
       /\ sealing[c].kind \in {"export", "rotation"} /\ sealing[c].n \in Nat
  /\ \A f \in 1 .. MaxFiles : DOMAIN files[f] = {"rows", "is"}

\* Rows that a rotation may seal: they are there and outside the window.
Sealable(S) == \A i \in S : i \in Audit!Rows /\ ~Audit!InWindow(i)

\* The file of a command is the command's: it makes it, or it has written it.
FileIsSound(c) ==
  /\ sealing[c].pc \in {"write", "manifest", "event", "seal"} => sealing[c].file \in 1 .. MaxFiles
  /\ sealing[c].pc = "write" => files[sealing[c].file].is = "created"
  /\ sealing[c].pc \in {"manifest", "event", "seal"} =>
       /\ files[sealing[c].file].is = "whole" /\ files[sealing[c].file].rows = sealing[c].rows
  /\ sealing[c].pc \in {"event", "seal"} =>
       /\ sealing[c].kind = "rotation"
       /\ [kind |-> "export", rows |-> sealing[c].rows, file |-> sealing[c].file] \in manifest
  /\ sealing[c].pc = "seal" => sealing[c].file \in sealed

\* A rotation counted no more than what is out of the window, and read no other.
RotationIsSound(c) ==
  sealing[c].kind = "rotation" =>
    /\ sealing[c].pc = "export" => sealing[c].n <= Audit!OutOfWindow
    /\ sealing[c].pc \in {"create", "write", "manifest", "event", "seal"} => Sealable(sealing[c].rows)

\* A manifest, with what belongs to it.
EvidenceIsSound(m) ==
  /\ m.file \in 1 .. MaxFiles /\ files[m.file].is = "whole" /\ files[m.file].rows = m.rows
  /\ m.kind = "rotation" =>
       /\ [kind |-> "export", rows |-> m.rows, file |-> m.file] \in manifest
       /\ m.file \in sealed
       /\ Sealable(m.rows)

OneWriter ==
  \A c, d \in Auditors :
    c # d /\ sealing[c].pc = "write" /\ sealing[d].pc = "write" => sealing[c].file # sealing[d].file

\* The inductive invariant of exports and rotations.
AuditInv ==
  /\ AuditTyped /\ OneWriter
  /\ \A c \in Auditors : FileIsSound(c) /\ RotationIsSound(c)
  /\ \A m \in manifest : EvidenceIsSound(m)

\* At first there is nothing to seal.
LEMMA AuditInit == Audit!Init => AuditInv
<1> SUFFICES ASSUME Audit!Init PROVE AuditInv
  OBVIOUS
<1>1. /\ links = [i \in Ids |-> 0] /\ orphans = {} /\ manifest = {} /\ day = 1
      /\ sealing = [c \in Auditors |-> [pc |-> "idle", kind |-> "export", n |-> 0, rows |-> {}, file |-> 0]]
      /\ files = [f \in 1 .. MaxFiles |-> [rows |-> {}, is |-> "none"]]
  BY DEF Audit!Init, Audit!Idle, Audit!NoFile
<1> QED BY <1>1 DEF AuditInv, AuditTyped, OneWriter, FileIsSound, RotationIsSound

\* What the module counts is counted as the standard modules count.
LEMMA AuditOperators ==
  \A S : Audit!Cardinality(S) = Cardinality(S) /\ (Audit!IsFiniteSet(S) <=> IsFiniteSet(S))
BY DEF Audit!Cardinality, Cardinality, Audit!IsFiniteSet, IsFiniteSet

\* Every set of rows can be counted, and a part of it has no more.
LEMMA RowsAreCounted ==
  ASSUME NEW S \in SUBSET Ids
  PROVE  /\ IsFiniteSet(S) /\ Cardinality(S) \in Nat /\ Audit!Cardinality(S) = Cardinality(S)
         /\ \A T \in SUBSET S : Cardinality(T) <= Cardinality(S)
<1>1. IsFiniteSet(Ids)
  BY AuditAssumption, AuditOperators DEF Audit!RetentionAssumption
<1> QED BY <1>1, AuditOperators, FS_Subset, FS_CardinalityType

\* The rows out of the window, as rotate_segment counts them: the old ones, and
\* as many as there are too many.
LEMMA OutOfWindowIsLarger ==
  ASSUME AuditTyped
  PROVE  LET old  == {i \in Audit!Rows : Audit!IsOld(i)}
             many == IF Cardinality(Audit!Rows) > MaxEvents
                     THEN Cardinality(Audit!Rows) - MaxEvents ELSE 0
         IN  /\ Cardinality(old) \in Nat /\ many \in Nat
             /\ Audit!OutOfWindow = IF Cardinality(old) > many THEN Cardinality(old) ELSE many
<1> DEFINE old == {i \in Audit!Rows : Audit!IsOld(i)}
<1>1. Audit!Rows \in SUBSET Ids /\ old \in SUBSET Ids /\ MaxEvents \in Nat
  BY AuditAssumption DEF Audit!Rows, Audit!RetentionAssumption
<1>2. /\ Cardinality(Audit!Rows) \in Nat /\ Audit!Cardinality(Audit!Rows) = Cardinality(Audit!Rows)
      /\ Cardinality(old) \in Nat /\ Audit!Cardinality(old) = Cardinality(old)
  <2> HIDE DEF old
  <2> QED BY <1>1, RowsAreCounted
<1>3. Audit!OutOfWindow =
        Audit!Larger(Cardinality(old), IF Cardinality(Audit!Rows) > MaxEvents
                                       THEN Cardinality(Audit!Rows) - MaxEvents ELSE 0)
  BY <1>2 DEF Audit!OutOfWindow
<1> HIDE DEF old
<1>4. /\ Cardinality(old) \in Nat
      /\ (IF Cardinality(Audit!Rows) > MaxEvents
          THEN Cardinality(Audit!Rows) - MaxEvents ELSE 0) \in Nat
  BY <1>1, <1>2
<1> QED BY <1>3, <1>4 DEF Audit!Larger, old

\* The oldest rows, no more than are out of the window, are out of the window:
\* either all the old ones are among them, or as many come after as it may hold.
LEMMA OldestAreOut ==
  ASSUME AuditTyped, NEW n \in Nat, n <= Audit!OutOfWindow
  PROVE  Sealable(Audit!Oldest(n))
<1> DEFINE rs    == Audit!Rows
           old  == {i \in rs : Audit!IsOld(i)}
           many == IF Cardinality(rs) > MaxEvents THEN Cardinality(rs) - MaxEvents ELSE 0
<1>1. /\ rs \in SUBSET Ids /\ MaxEvents \in Nat /\ MaxAgeDays \in Nat /\ day \in Nat
      /\ \A i \in rs : i \in Nat /\ links[i] \in Nat
  BY AuditAssumption DEF Audit!Rows, Audit!RetentionAssumption, AuditTyped
<1>2. /\ Cardinality(old) \in Nat /\ many \in Nat
      /\ Audit!OutOfWindow = IF Cardinality(old) > many THEN Cardinality(old) ELSE many
  BY OutOfWindowIsLarger
<1>3. SUFFICES ASSUME NEW i \in rs, Audit!Cardinality({j \in rs : Audit!Before(j, i)}) < n,
                      Audit!InWindow(i)
               PROVE  FALSE
  BY DEF Sealable, Audit!Oldest
<1> DEFINE before == {j \in rs : Audit!Before(j, i)}
           after  == {j \in rs : Audit!Before(i, j)}
<1>4. before \in SUBSET Ids /\ after \in SUBSET Ids /\ {i} \in SUBSET Ids
  BY <1>1
<1>5. /\ IsFiniteSet(before) /\ Cardinality(before) \in Nat
      /\ IsFiniteSet(after) /\ Cardinality(after) \in Nat
      /\ Audit!Cardinality(before) = Cardinality(before)
      /\ Audit!Cardinality(after) = Cardinality(after)
  <2> HIDE DEF before, after
  <2> QED BY <1>4, RowsAreCounted
<1>6. Cardinality(before) < n
  BY <1>3, <1>5
<1>7. ~Audit!IsOld(i) /\ Cardinality(after) < MaxEvents
  BY <1>3, <1>5 DEF Audit!InWindow
<1>8. CASE n <= Cardinality(old)
  <2>1. old \subseteq before
    BY <1>1, <1>7 DEF Audit!IsOld, Audit!Before
  <2>2. Cardinality(old) <= Cardinality(before)
    <3> HIDE DEF before, old
    <3> QED BY <1>4, <2>1, RowsAreCounted
  <2> HIDE DEF before, old
  <2> QED BY <1>2, <1>5, <1>6, <1>8, <2>2
<1>9. CASE n <= many
  <2>1. rs = (before \cup after) \cup {i}
    BY <1>1 DEF Audit!Before
  <2>2. before \cap after = {} /\ i \notin before \cup after
    BY <1>1 DEF Audit!Before
  <2>3. /\ IsFiniteSet(before \cup after)
        /\ Cardinality(before \cup after) = Cardinality(before) + Cardinality(after)
    <3> HIDE DEF before, after
    <3>1. /\ IsFiniteSet(before \cup after)
          /\ Cardinality(before \cup after) =
               Cardinality(before) + Cardinality(after) - Cardinality(before \cap after)
      BY <1>5, FS_Union
    <3>2. Cardinality(before \cap after) = 0
      BY <2>2, FS_EmptySet
    <3> QED BY <1>5, <3>1, <3>2
  <2>4. Cardinality(rs) = Cardinality(before) + Cardinality(after) + 1
    <3> HIDE DEF before, after, rs
    <3> QED BY <2>1, <2>2, <2>3, FS_AddElement
  <2> HIDE DEF before, after
  <2>5. Cardinality(before) < Cardinality(rs) - MaxEvents
    BY <1>1, <1>2, <1>5, <1>6, <1>9, <2>4
  <2> HIDE DEF rs
  <2> QED BY <1>1, <1>5, <1>7, <2>4, <2>5
<1>10. n <= Cardinality(old) \/ n <= many
  <2> HIDE DEF old, many
  <2> QED BY <1>2
<1> QED BY <1>8, <1>9, <1>10

\* Rows are only added, under the date of the day, and days only pass.
Grows ==
  /\ links' \in [Ids -> Nat] /\ day' \in Nat /\ day' >= day
  /\ \A i \in Audit!Rows : links'[i] = links[i]

\* What is out of the window stays out, and there is only more of it.
LEMMA WindowMovesOn ==
  ASSUME AuditTyped, Grows
  PROVE  /\ \A S : Sealable(S) => Sealable(S)'
         /\ Audit!OutOfWindow <= (Audit!OutOfWindow)'
<1> DEFINE rs == Audit!Rows
           old == {i \in rs : Audit!IsOld(i)}
           many == IF Cardinality(rs) > MaxEvents THEN Cardinality(rs) - MaxEvents ELSE 0
<1>1. /\ rs \in SUBSET Ids /\ rs' \in SUBSET Ids /\ rs \subseteq rs'
      /\ MaxEvents \in Nat /\ MaxAgeDays \in Nat /\ day \in Nat /\ day' \in Nat /\ day' >= day
      /\ \A i \in rs : i \in Nat /\ links[i] \in Nat /\ links'[i] = links[i]
  BY AuditAssumption DEF Audit!Rows, Audit!RetentionAssumption, AuditTyped, Grows
<1>2. ASSUME NEW i \in rs, ~Audit!InWindow(i) PROVE ~(Audit!InWindow(i))'
  <2> DEFINE after == {j \in rs : Audit!Before(i, j)}
  <2>1. after \in SUBSET Ids /\ after' \in SUBSET Ids /\ after \subseteq after'
    BY <1>1, <1>2 DEF Audit!Before
  <2>2. /\ Audit!Cardinality(after) = Cardinality(after)
        /\ Audit!Cardinality(after') = Cardinality(after')
        /\ Cardinality(after) <= Cardinality(after')
        /\ Cardinality(after) \in Nat /\ Cardinality(after') \in Nat
    <3> HIDE DEF after
    <3> QED BY <2>1, RowsAreCounted
  <2>3. CASE Audit!IsOld(i)
    <3>1. (Audit!IsOld(i))'
      BY <1>1, <2>3 DEF Audit!IsOld
    <3> QED BY <3>1 DEF Audit!InWindow
  <2>4. CASE ~(Cardinality(after) < MaxEvents)
    <3>1. ~(Cardinality(after') < MaxEvents)
      <4> HIDE DEF after
      <4> QED BY <1>1, <2>2, <2>4
    <3> QED BY <2>2, <3>1 DEF Audit!InWindow
  <2>5. Audit!IsOld(i) \/ ~(Cardinality(after) < MaxEvents)
    BY <1>2, <2>2 DEF Audit!InWindow
  <2> QED BY <2>3, <2>4, <2>5
<1>3. \A S : Sealable(S) => Sealable(S)'
  BY <1>1, <1>2 DEF Sealable
<1>4. Audit!OutOfWindow <= (Audit!OutOfWindow)'
  <2>1. old \in SUBSET Ids /\ old' \in SUBSET Ids /\ old \subseteq old'
    BY <1>1 DEF Audit!IsOld
  <2>2. /\ Cardinality(old) <= Cardinality(old') /\ Cardinality(rs) <= Cardinality(rs')
        /\ Cardinality(old) \in Nat /\ Cardinality(old') \in Nat
        /\ Cardinality(rs) \in Nat /\ Cardinality(rs') \in Nat
    <3> HIDE DEF old, rs
    <3> QED BY <1>1, <2>1, RowsAreCounted
  <2>3. many <= many' /\ many \in Nat /\ many' \in Nat
    <3> HIDE DEF rs
    <3> QED BY <1>1, <2>2
  <2>4. Audit!OutOfWindow = IF Cardinality(old) > many THEN Cardinality(old) ELSE many
    BY OutOfWindowIsLarger
  <2>5. (Audit!OutOfWindow)' = IF Cardinality(old') > many' THEN Cardinality(old') ELSE many'
    BY <1>1, <2>2, AuditAssumption, RowsAreCounted
    DEF Audit!OutOfWindow, Audit!Larger
  <2> HIDE DEF old, many
  <2> QED BY <2>2, <2>3, <2>4, <2>5
<1> QED BY <1>3, <1>4

\* What a step leaves alone stays sound: manifests, and commands that do not move.
LEMMA OthersStaySound ==
  ASSUME AuditInv, Grows, manifest \subseteq manifest', sealed \subseteq sealed',
         \A f \in 1 .. MaxFiles : files[f].is = "whole" => files'[f] = files[f]
  PROVE  /\ \A m \in manifest : EvidenceIsSound(m)'
         /\ \A c \in Auditors :
              sealing'[c] = sealing[c]
              /\ (sealing[c].pc = "write" => files'[sealing[c].file] = files[sealing[c].file])
                => FileIsSound(c)' /\ RotationIsSound(c)'
<1>1. /\ \A S : Sealable(S) => Sealable(S)'
      /\ Audit!OutOfWindow <= (Audit!OutOfWindow)'
  BY WindowMovesOn DEF AuditInv
<1>2. ASSUME NEW m \in manifest PROVE EvidenceIsSound(m)'
  <2>1. EvidenceIsSound(m)
    BY DEF AuditInv
  <2> QED BY <1>1, <2>1 DEF EvidenceIsSound
<1>3. ASSUME NEW c \in Auditors, sealing'[c] = sealing[c],
             sealing[c].pc = "write" => files'[sealing[c].file] = files[sealing[c].file]
      PROVE  FileIsSound(c)' /\ RotationIsSound(c)'
  <2>1. FileIsSound(c) /\ RotationIsSound(c) /\ sealing[c].n \in Nat
    BY DEF AuditInv, AuditTyped
  <2>2. FileIsSound(c)'
    BY <1>3, <2>1 DEF FileIsSound
  <2>3. Audit!OutOfWindow \in Nat /\ (Audit!OutOfWindow)' \in Nat
    <3>1. Audit!OutOfWindow \in Nat
      BY OutOfWindowIsLarger DEF AuditInv
    <3>2. links' \in [Ids -> Nat]
      BY DEF Grows
    <3>3. /\ {i \in Audit!Rows : Audit!IsOld(i)}' \in SUBSET Ids /\ (Audit!Rows)' \in SUBSET Ids
      BY DEF Audit!Rows
    <3>4. /\ Audit!Cardinality({i \in Audit!Rows : Audit!IsOld(i)}') \in Nat
          /\ Audit!Cardinality((Audit!Rows)') \in Nat /\ MaxEvents \in Nat
      BY <3>3, RowsAreCounted, AuditAssumption DEF Audit!RetentionAssumption
    <3>5. (Audit!OutOfWindow)' \in Nat
      BY <3>4 DEF Audit!OutOfWindow, Audit!Larger
    <3> QED BY <3>1, <3>5
  <2>4. RotationIsSound(c)'
    BY <1>1, <1>3, <2>1, <2>3 DEF RotationIsSound
  <2> QED BY <2>2, <2>4
<1> QED BY <1>2, <1>3

\* Every step keeps it: rows that are recorded meanwhile, exports and rotations
\* side by side, disks that are full, crashes and the days.
LEMMA AuditStep == AuditInv /\ [Audit!Next]_(Audit!vars) => AuditInv'
<1> SUFFICES ASSUME AuditInv, [Audit!Next]_(Audit!vars) PROVE AuditInv'
  OBVIOUS
<1>a. /\ AuditTyped /\ OneWriter
      /\ \A c \in Auditors : FileIsSound(c) /\ RotationIsSound(c)
      /\ \A m \in manifest : EvidenceIsSound(m)
  BY DEF AuditInv
<1>g. ASSUME UNCHANGED <<links, day>> PROVE Grows
  BY <1>a, <1>g DEF Grows, AuditTyped, Audit!Rows
<1>1. ASSUME Grows, UNCHANGED <<sealing, files, manifest, sealed>>, orphans' \subseteq Ids,
             \A i \in orphans' : links'[i] = 0
      PROVE  AuditInv'
  <2>1. AuditTyped'
    BY <1>a, <1>1 DEF AuditTyped, Grows
  <2>2. OneWriter'
    BY <1>a, <1>1 DEF OneWriter
  <2>3. (\A c \in Auditors : FileIsSound(c)' /\ RotationIsSound(c)')
        /\ (\A m \in manifest : EvidenceIsSound(m)')
    BY <1>1, OthersStaySound
  <2> QED BY <1>1, <2>1, <2>2, <2>3 DEF AuditInv
<1>2. ASSUME NEW i \in Ids, Audit!RecordEvent(i) \/ Audit!RecordLink(i) PROVE AuditInv'
  <2>1. UNCHANGED <<sealing, files, manifest, sealed, day>>
    BY <1>2 DEF Audit!RecordEvent, Audit!RecordLink
  <2>2. CASE Audit!RecordEvent(i)
    <3>1. links[i] = 0 /\ links' = links /\ orphans' = orphans \cup {i}
      BY <2>2 DEF Audit!RecordEvent
    <3>2. Grows
      BY <1>g, <2>1, <3>1
    <3>3. orphans' \subseteq Ids /\ \A j \in orphans' : links'[j] = 0
      BY <1>a, <3>1 DEF AuditTyped
    <3> QED BY <1>1, <2>1, <3>2, <3>3
  <2>3. CASE Audit!RecordLink(i)
    <3>1. i \in orphans /\ links' = [links EXCEPT ![i] = day] /\ orphans' = orphans \ {i}
      BY <2>3 DEF Audit!RecordLink
    <3>2. Grows
      BY <1>a, <2>1, <3>1 DEF Grows, AuditTyped, Audit!Rows
    <3>3. orphans' \subseteq Ids /\ \A j \in orphans' : links'[j] = 0
      BY <1>a, <3>1 DEF AuditTyped
    <3> QED BY <1>1, <2>1, <3>2, <3>3
  <2> QED BY <1>2, <2>2, <2>3
<1>3. CASE Audit!Tick
  <2>1. /\ UNCHANGED <<links, orphans, sealing, files, manifest, sealed>> /\ day' = day + 1
    BY <1>3 DEF Audit!Tick
  <2>2. Grows
    BY <1>a, <2>1 DEF Grows, AuditTyped, Audit!Rows
  <2> QED BY <1>1, <1>a, <2>1, <2>2 DEF AuditTyped
\* A step of one command c that leaves it sound, and no other command's file
\* unlike it was, and adds sound manifests only.
<1>4. ASSUME NEW c \in Auditors, UNCHANGED <<links, orphans, day>>,
             manifest \subseteq manifest', sealed \subseteq sealed', DOMAIN files' = 1 .. MaxFiles,
             \A f \in 1 .. MaxFiles : DOMAIN files'[f] = {"rows", "is"},
             \A f \in 1 .. MaxFiles : files[f].is = "whole" => files'[f] = files[f],
             \A d \in Auditors \ {c} :
               sealing[d].pc = "write" => files'[sealing[d].file] = files[sealing[d].file],
             DOMAIN sealing' = Auditors, \A d \in Auditors \ {c} : sealing'[d] = sealing[d],
             DOMAIN sealing'[c] = {"pc", "kind", "n", "rows", "file"},
             sealing'[c].pc \in {"idle", "export", "create", "write", "manifest", "event", "seal"},
             sealing'[c].kind \in {"export", "rotation"}, sealing'[c].n \in Nat,
             FileIsSound(c)', RotationIsSound(c)',
             \A d \in Auditors \ {c} : sealing'[c].pc = "write" /\ sealing[d].pc = "write"
                                       => sealing'[c].file # sealing[d].file,
             \A m \in manifest' \ manifest : EvidenceIsSound(m)'
      PROVE  AuditInv'
  <2>1. AuditTyped'
    BY <1>a, <1>4 DEF AuditTyped
  <2>2. OneWriter'
    BY <1>a, <1>4 DEF OneWriter
  <2>3. /\ \A d \in Auditors \ {c} : FileIsSound(d)' /\ RotationIsSound(d)'
        /\ \A m \in manifest : EvidenceIsSound(m)'
    BY <1>4, <1>g, OthersStaySound
  <2> QED BY <1>4, <2>1, <2>2, <2>3 DEF AuditInv
\* A step that ends command c, and adds sound manifests only.
<1>i. ASSUME NEW c \in Auditors, sealing' = [sealing EXCEPT ![c] = Audit!Idle],
             UNCHANGED <<links, orphans, files, sealed, day>>, manifest \subseteq manifest',
             \A m \in manifest' \ manifest : EvidenceIsSound(m)'
      PROVE  AuditInv'
  <2>1. /\ DOMAIN sealing' = Auditors /\ \A d \in Auditors \ {c} : sealing'[d] = sealing[d]
        /\ DOMAIN sealing'[c] = {"pc", "kind", "n", "rows", "file"} /\ sealing'[c].pc = "idle"
        /\ sealing'[c].kind = "export" /\ sealing'[c].n = 0
    BY <1>a, <1>i DEF AuditTyped, Audit!Idle
  <2>2. FileIsSound(c)' /\ RotationIsSound(c)'
    BY <2>1 DEF FileIsSound, RotationIsSound
  <2>3. /\ DOMAIN files' = 1 .. MaxFiles /\ sealed \subseteq sealed'
        /\ \A f \in 1 .. MaxFiles : DOMAIN files'[f] = {"rows", "is"} /\ files'[f] = files[f]
        /\ \A d \in Auditors : files'[sealing[d].file] = files[sealing[d].file]
    BY <1>a, <1>i DEF AuditTyped
  <2> QED BY <1>4, <1>i, <2>1, <2>2, <2>3
<1>5. ASSUME NEW c \in Auditors, NEW kind \in {"export", "rotation"}, Audit!Begin(c, kind)
      PROVE  AuditInv'
  <2>1. /\ UNCHANGED <<links, orphans, files, manifest, sealed, day>>
        /\ sealing' = [sealing EXCEPT ![c] =
                         [Audit!Idle EXCEPT !.pc = "export", !.kind = kind,
                            !.n = IF kind = "rotation" THEN Audit!OutOfWindow ELSE Audit!Cardinality(Ids)]]
    BY <1>5 DEF Audit!Begin
  <2>2. Audit!OutOfWindow \in Nat /\ Audit!Cardinality(Ids) \in Nat
    BY <1>a, OutOfWindowIsLarger, RowsAreCounted
  <2>3. /\ DOMAIN sealing' = Auditors /\ \A d \in Auditors \ {c} : sealing'[d] = sealing[d]
        /\ DOMAIN sealing'[c] = {"pc", "kind", "n", "rows", "file"} /\ sealing'[c].pc = "export"
        /\ sealing'[c].kind = kind /\ sealing'[c].n \in Nat
        /\ kind = "rotation" => sealing'[c].n = Audit!OutOfWindow
    BY <1>a, <2>1, <2>2 DEF AuditTyped, Audit!Idle
  <2>4. (Audit!OutOfWindow)' = Audit!OutOfWindow
    BY <2>1 DEF Audit!OutOfWindow, Audit!Rows, Audit!IsOld
  <2>5. FileIsSound(c)' /\ RotationIsSound(c)'
    BY <2>2, <2>3, <2>4 DEF FileIsSound, RotationIsSound
  <2> QED BY <1>4, <1>a, <2>1, <2>3, <2>5 DEF AuditTyped
<1>6. ASSUME NEW c \in Auditors, Audit!Read(c) PROVE AuditInv'
  <2>1. /\ UNCHANGED <<links, orphans, files, manifest, sealed, day>> /\ sealing[c].pc = "export"
        /\ sealing' = [sealing EXCEPT ![c].pc = "create", ![c].rows = Audit!Oldest(sealing[c].n)]
    BY <1>6 DEF Audit!Read
  <2>2. /\ DOMAIN sealing' = Auditors /\ \A d \in Auditors \ {c} : sealing'[d] = sealing[d]
        /\ DOMAIN sealing'[c] = {"pc", "kind", "n", "rows", "file"} /\ sealing'[c].pc = "create"
        /\ sealing'[c].kind = sealing[c].kind /\ sealing'[c].n = sealing[c].n
        /\ sealing'[c].rows = Audit!Oldest(sealing[c].n)
    BY <1>a, <2>1 DEF AuditTyped
  <2>3. sealing[c].kind = "rotation" => Sealable(sealing'[c].rows)
    BY <1>a, <2>1, <2>2, OldestAreOut DEF AuditTyped, RotationIsSound
  <2>4. Grows
    BY <1>g, <2>1
  <2>5. FileIsSound(c)' /\ RotationIsSound(c)'
    <3>1. \A S : Sealable(S) => Sealable(S)'
      BY <1>a, <2>4, WindowMovesOn
    <3>2. RotationIsSound(c)'
      BY <2>2, <2>3, <3>1 DEF RotationIsSound
    <3>3. FileIsSound(c)'
      BY <2>2 DEF FileIsSound
    <3> QED BY <3>2, <3>3
  <2> QED BY <1>4, <1>a, <2>1, <2>2, <2>5 DEF AuditTyped
<1>7. ASSUME NEW c \in Auditors, Audit!Create(c) PROVE AuditInv'
  <2>1. PICK f \in 1 .. MaxFiles :
          /\ files[f] = Audit!NoFile /\ sealing[c].pc = "create"
          /\ files' = [files EXCEPT ![f].is = "created"]
          /\ sealing' = [sealing EXCEPT ![c].pc = "write", ![c].file = f]
          /\ UNCHANGED <<links, orphans, manifest, sealed, day>>
    BY <1>7 DEF Audit!Create
  <2>2. /\ DOMAIN sealing' = Auditors /\ \A d \in Auditors \ {c} : sealing'[d] = sealing[d]
        /\ DOMAIN sealing'[c] = {"pc", "kind", "n", "rows", "file"} /\ sealing'[c].pc = "write"
        /\ sealing'[c].kind = sealing[c].kind /\ sealing'[c].n = sealing[c].n
        /\ sealing'[c].rows = sealing[c].rows /\ sealing'[c].file = f
    BY <1>a, <2>1 DEF AuditTyped
  <2>3. /\ DOMAIN files' = 1 .. MaxFiles /\ \A g \in 1 .. MaxFiles : DOMAIN files'[g] = {"rows", "is"}
        /\ files'[f].is = "created" /\ files[f].is = "none"
        /\ \A g \in 1 .. MaxFiles : g # f => files'[g] = files[g]
    BY <1>a, <2>1 DEF AuditTyped, Audit!NoFile
  <2>4. \A d \in Auditors : sealing[d].pc = "write" => sealing[d].file \in 1 .. MaxFiles /\ sealing[d].file # f
    BY <1>a, <2>3 DEF FileIsSound
  <2>5. FileIsSound(c)'
    BY <2>2, <2>3 DEF FileIsSound
  <2>6. RotationIsSound(c)'
    <3>1. sealing[c].kind = "rotation" => Sealable(sealing[c].rows)
      BY <1>a, <2>1 DEF RotationIsSound
    <3>2. \A S : Sealable(S) => Sealable(S)'
      BY <1>a, <1>g, <2>1, WindowMovesOn
    <3> QED BY <2>2, <3>1, <3>2 DEF RotationIsSound
  <2>7. \A g \in 1 .. MaxFiles : files[g].is = "whole" => files'[g] = files[g]
    BY <2>3
  <2>8. \A d \in Auditors \ {c} : sealing[d].pc = "write" => files'[sealing[d].file] = files[sealing[d].file]
    BY <2>3, <2>4
  <2> QED BY <1>4, <1>a, <2>1, <2>2, <2>3, <2>4, <2>5, <2>6, <2>7, <2>8 DEF AuditTyped
<1>8. ASSUME NEW c \in Auditors, Audit!Write(c) PROVE AuditInv'
  <2> DEFINE f == sealing[c].file
  <2>1. /\ sealing[c].pc = "write" /\ sealing' = [sealing EXCEPT ![c].pc = "manifest"]
        /\ files' = [files EXCEPT ![f] = [rows |-> sealing[c].rows, is |-> "whole"]]
        /\ UNCHANGED <<links, orphans, manifest, sealed, day>>
    BY <1>8 DEF Audit!Write, Audit!Step
  <2>2. /\ DOMAIN sealing' = Auditors /\ \A d \in Auditors \ {c} : sealing'[d] = sealing[d]
        /\ DOMAIN sealing'[c] = {"pc", "kind", "n", "rows", "file"} /\ sealing'[c].pc = "manifest"
        /\ sealing'[c].kind = sealing[c].kind /\ sealing'[c].n = sealing[c].n
        /\ sealing'[c].rows = sealing[c].rows /\ sealing'[c].file = f
    BY <1>a, <2>1 DEF AuditTyped
  <2>3. f \in 1 .. MaxFiles /\ files[f].is = "created"
    BY <1>a, <2>1 DEF FileIsSound
  <2>4. /\ DOMAIN files' = 1 .. MaxFiles /\ \A g \in 1 .. MaxFiles : DOMAIN files'[g] = {"rows", "is"}
        /\ files'[f].is = "whole" /\ files'[f].rows = sealing[c].rows
        /\ \A g \in 1 .. MaxFiles : g # f => files'[g] = files[g]
    BY <1>a, <2>1, <2>3 DEF AuditTyped
  <2>5. \A d \in Auditors \ {c} : sealing[d].pc = "write" => sealing[d].file \in 1 .. MaxFiles /\ sealing[d].file # f
    BY <1>a, <2>1 DEF FileIsSound, OneWriter
  <2>6. FileIsSound(c)'
    BY <2>2, <2>3, <2>4 DEF FileIsSound
  <2>7. RotationIsSound(c)'
    <3>1. sealing[c].kind = "rotation" => Sealable(sealing[c].rows)
      BY <1>a, <2>1 DEF RotationIsSound
    <3>2. \A S : Sealable(S) => Sealable(S)'
      BY <1>a, <1>g, <2>1, WindowMovesOn
    <3> QED BY <2>2, <3>1, <3>2 DEF RotationIsSound
  <2>8. \A g \in 1 .. MaxFiles : files[g].is = "whole" => files'[g] = files[g]
    BY <2>3, <2>4
  <2>9. \A d \in Auditors \ {c} : sealing[d].pc = "write" => files'[sealing[d].file] = files[sealing[d].file]
    BY <2>4, <2>5
  <2> QED BY <1>4, <1>a, <2>1, <2>2, <2>4, <2>6, <2>7, <2>8, <2>9 DEF AuditTyped
<1>9. ASSUME NEW c \in Auditors, Audit!ExportManifest(c) PROVE AuditInv'
  <2>a. PICK new : new = [kind |-> "export", rows |-> sealing[c].rows, file |-> sealing[c].file]
    OBVIOUS
  <2>b. new.kind = "export" /\ new.rows = sealing[c].rows /\ new.file = sealing[c].file
    BY <2>a
  <2>1. /\ sealing[c].pc = "manifest" /\ manifest' = manifest \cup {new}
        /\ sealing' = [sealing EXCEPT ![c] = IF sealing[c].kind = "export" THEN Audit!Idle
                                              ELSE [sealing[c] EXCEPT !.pc = "event"]]
        /\ UNCHANGED <<links, orphans, files, sealed, day>>
    BY <1>9, <2>a DEF Audit!ExportManifest, Audit!Manifest
  <2>2. FileIsSound(c) /\ RotationIsSound(c)
    BY <1>a
  <2>3. EvidenceIsSound(new)'
    BY <2>1, <2>2, <2>b DEF FileIsSound, EvidenceIsSound
  <2>4. CASE sealing[c].kind = "export"
    BY <1>i, <2>1, <2>3, <2>4
  <2>5. CASE sealing[c].kind # "export"
    <3>1. /\ DOMAIN sealing' = Auditors /\ \A d \in Auditors \ {c} : sealing'[d] = sealing[d]
          /\ DOMAIN sealing'[c] = {"pc", "kind", "n", "rows", "file"} /\ sealing'[c].pc = "event"
          /\ sealing'[c].kind = sealing[c].kind /\ sealing'[c].n = sealing[c].n
          /\ sealing'[c].rows = sealing[c].rows /\ sealing'[c].file = sealing[c].file
      BY <1>a, <2>1, <2>5 DEF AuditTyped
    <3>2. FileIsSound(c)'
      BY <1>a, <2>1, <2>2, <2>5, <2>a, <3>1 DEF AuditTyped, FileIsSound
    <3>3. RotationIsSound(c)'
      <4>1. \A S : Sealable(S) => Sealable(S)'
        BY <1>a, <1>g, <2>1, WindowMovesOn
      <4> QED BY <2>1, <2>2, <3>1, <4>1 DEF RotationIsSound
    <3>4. /\ manifest \subseteq manifest' /\ \A m \in manifest' \ manifest : EvidenceIsSound(m)'
      BY <2>1, <2>3
    <3>5. /\ DOMAIN files' = 1 .. MaxFiles /\ sealed \subseteq sealed'
          /\ \A f \in 1 .. MaxFiles : DOMAIN files'[f] = {"rows", "is"} /\ files'[f] = files[f]
          /\ \A d \in Auditors : files'[sealing[d].file] = files[sealing[d].file]
          /\ sealing[c].kind \in {"export", "rotation"} /\ sealing[c].n \in Nat
      BY <1>a, <2>1 DEF AuditTyped
    <3> QED BY <1>4, <2>1, <3>1, <3>2, <3>3, <3>4, <3>5
  <2> QED BY <2>4, <2>5
<1>10. ASSUME NEW c \in Auditors, Audit!RotationEvent(c) PROVE AuditInv'
  <2>1. /\ sealing[c].pc = "event" /\ sealing' = [sealing EXCEPT ![c].pc = "seal"]
        /\ sealed' = sealed \cup {sealing[c].file}
        /\ UNCHANGED <<links, orphans, files, manifest, day>>
    BY <1>10 DEF Audit!RotationEvent, Audit!Step
  <2>2. /\ DOMAIN sealing' = Auditors /\ \A d \in Auditors \ {c} : sealing'[d] = sealing[d]
        /\ DOMAIN sealing'[c] = {"pc", "kind", "n", "rows", "file"} /\ sealing'[c].pc = "seal"
        /\ sealing'[c].kind = sealing[c].kind /\ sealing'[c].n = sealing[c].n
        /\ sealing'[c].rows = sealing[c].rows /\ sealing'[c].file = sealing[c].file
    BY <1>a, <2>1 DEF AuditTyped
  <2>3. FileIsSound(c)'
    BY <1>a, <2>1, <2>2 DEF FileIsSound
  <2>4. RotationIsSound(c)'
    <3>1. \A S : Sealable(S) => Sealable(S)'
      BY <1>a, <1>g, <2>1, WindowMovesOn
    <3> QED BY <1>a, <2>1, <2>2, <3>1 DEF RotationIsSound
  <2> QED BY <1>4, <1>a, <2>1, <2>2, <2>3, <2>4 DEF AuditTyped
<1>11. ASSUME NEW c \in Auditors, Audit!RotationManifest(c) PROVE AuditInv'
  <2>a. PICK new : new = [kind |-> "rotation", rows |-> sealing[c].rows, file |-> sealing[c].file]
    OBVIOUS
  <2>b. new.kind = "rotation" /\ new.rows = sealing[c].rows /\ new.file = sealing[c].file
    BY <2>a
  <2>1. /\ sealing[c].pc = "seal" /\ manifest' = manifest \cup {new}
        /\ sealing' = [sealing EXCEPT ![c] = Audit!Idle]
        /\ UNCHANGED <<links, orphans, files, sealed, day>>
    BY <1>11, <2>a DEF Audit!RotationManifest, Audit!Manifest
  <2>2. FileIsSound(c) /\ RotationIsSound(c)
    BY <1>a
  <2>3. \A S : Sealable(S) => Sealable(S)'
    BY <1>a, <1>g, <2>1, WindowMovesOn
  <2>4. EvidenceIsSound(new)'
    BY <2>1, <2>2, <2>3, <2>b DEF FileIsSound, RotationIsSound, EvidenceIsSound
  <2> QED BY <1>i, <2>1, <2>4
<1>12. ASSUME NEW c \in Auditors, Audit!Fail(c) PROVE AuditInv'
  <2>1. /\ UNCHANGED <<links, orphans, files, manifest, sealed, day>>
        /\ sealing' = [sealing EXCEPT ![c] = Audit!Idle]
    BY <1>12 DEF Audit!Fail
  <2> QED BY <1>i, <2>1
<1>13. CASE Audit!Crash
  <2>1. /\ sealing' = [c \in Auditors |-> Audit!Idle] /\ orphans' = {}
        /\ UNCHANGED <<links, files, manifest, sealed, day>>
    BY <1>13 DEF Audit!Crash
  <2>2. /\ DOMAIN sealing' = Auditors
        /\ \A c \in Auditors : /\ DOMAIN sealing'[c] = {"pc", "kind", "n", "rows", "file"}
                               /\ sealing'[c].pc = "idle" /\ sealing'[c].kind = "export"
                               /\ sealing'[c].n = 0
    BY <2>1 DEF Audit!Idle
  <2>3. AuditTyped' /\ OneWriter'
    BY <1>a, <2>1, <2>2 DEF AuditTyped, OneWriter
  <2>4. \A c \in Auditors : FileIsSound(c)' /\ RotationIsSound(c)'
    BY <2>2 DEF FileIsSound, RotationIsSound
  <2>5. \A m \in manifest : EvidenceIsSound(m)'
    BY <1>g, <2>1, OthersStaySound
  <2> QED BY <2>1, <2>3, <2>4, <2>5 DEF AuditInv
<1>14. CASE UNCHANGED Audit!vars
  <2>1. UNCHANGED <<links, orphans, sealing, files, manifest, sealed, day>>
    BY <1>14 DEF Audit!vars
  <2> QED BY <1>1, <1>a, <1>g, <2>1 DEF AuditTyped
<1> QED
  BY <1>2, <1>3, <1>5, <1>6, <1>7, <1>8, <1>9, <1>10, <1>11, <1>12, <1>13, <1>14 DEF Audit!Next

\* A manifest's file is whole and holds the rows it counts, and a rotation's has
\* its export and its event and seals no row inside the window, whatever is
\* recorded between the count and the export and wherever the application dies
\* (rotate_segment, write_new), for any rows, policy and number of commands.
THEOREM ManifestsAreEvidence == Audit!Spec => []ManifestIsEvidence
<1>1. AuditInv => ManifestIsEvidence
  BY DEF AuditInv, EvidenceIsSound, Sealable, ManifestIsEvidence, Audit!ManifestIsEvidence
<1> QED BY <1>1, AuditInit, AuditStep, PTL DEF Audit!Spec

----------------------------------------------------------------------------
(* MultiSync                                                               *)

\* Stamp s is not later than stamp t.
AtMost(s, t) == ~Sync!Later(s, t)

\* The stamps are totally ordered, by their second and then by their machine.
LEMMA StampsAreOrdered ==
  /\ Sync!None \in Sync!Stamps
  /\ \A s \in Sync!Stamps : AtMost(s, s) /\ AtMost(Sync!None, s)
  /\ \A s, t \in Sync!Stamps : AtMost(s, t) /\ AtMost(t, s) => s = t
  /\ \A s, t, u \in Sync!Stamps : AtMost(s, t) /\ AtMost(t, u) => AtMost(s, u)
  /\ \A s, t \in Sync!Stamps : AtMost(s, t) \/ AtMost(t, s)
<1>1. Sync!None \in Sync!Stamps /\ Sync!None.at = 0 /\ Sync!None.by = 0
  BY SyncAssumption DEF Sync!SyncAssumption, Sync!Stamps, Sync!None
<1>2. ASSUME NEW s \in Sync!Stamps PROVE s.at \in Nat /\ s.by \in Nat
  <2>1. s.at \in 0 .. MaxSecond /\ s.by \in Machines \cup {0}
    BY DEF Sync!Stamps
  <2>2. \A m \in Machines : m \in Nat
    BY SyncAssumption DEF Sync!SyncAssumption
  <2>3. s.by \in Nat
    BY <2>1, <2>2
  <2>4. s.at \in Nat
    BY <2>1, SyncAssumption DEF Sync!SyncAssumption
  <2> QED BY <2>3, <2>4
<1>3. \A s \in Sync!Stamps : AtMost(s, s) /\ AtMost(Sync!None, s)
  BY <1>1, <1>2 DEF AtMost, Sync!Later
<1>4. ASSUME NEW s \in Sync!Stamps, NEW t \in Sync!Stamps, AtMost(s, t), AtMost(t, s)
      PROVE  s = t
  <2>1. s.at = t.at /\ s.by = t.by
    BY <1>2, <1>4 DEF AtMost, Sync!Later
  <2> QED BY <2>1 DEF Sync!Stamps
<1>5. \A s, t, u \in Sync!Stamps : AtMost(s, t) /\ AtMost(t, u) => AtMost(s, u)
  BY <1>2 DEF AtMost, Sync!Later
<1>6. \A s, t \in Sync!Stamps : AtMost(s, t) \/ AtMost(t, s)
  BY <1>2 DEF AtMost, Sync!Later
<1> QED BY <1>1, <1>3, <1>4, <1>5, <1>6

\* What is sent is a value and a stamp, and nothing is both without either.
LEMMA ContentIsTyped ==
  /\ Sync!Absent \in Sync!Content /\ Sync!Absent.value = Sync!None /\ Sync!Absent.stamp = Sync!None
  /\ \A x \in Sync!Content :
       /\ x.value \in Sync!Stamps /\ x.stamp \in Sync!Stamps
       /\ x.value = Sync!None /\ x.stamp = Sync!None => x = Sync!Absent
BY StampsAreOrdered DEF Sync!Content, Sync!Absent

\* The merge of two items is the one of them that is not earlier.
LEMMA BestIsLatest ==
  ASSUME NEW a \in Sync!Content, NEW b \in Sync!Content
  PROVE  /\ Sync!Best(a, b) \in {a, b}
         /\ AtMost(a.stamp, Sync!Best(a, b).stamp) /\ AtMost(b.stamp, Sync!Best(a, b).stamp)
         /\ Sync!Best(a, b) = b => a = b \/ ~AtMost(b.stamp, a.stamp)
<1>1. /\ a.stamp \in Sync!Stamps /\ b.stamp \in Sync!Stamps
      /\ Sync!Best(a, b) = IF AtMost(b.stamp, a.stamp) THEN a ELSE b
  BY ContentIsTyped DEF Sync!Best, Sync!Wins, AtMost
<1> QED BY <1>1, StampsAreOrdered

SyncTyped ==
  /\ DOMAIN row = Machines /\ DOMAIN meta = Machines /\ DOMAIN edited = Machines
  /\ DOMAIN cycle = Calls /\ DOMAIN relay = Prefs /\ clock \in Nat /\ clock <= MaxSecond
  /\ \A m \in Machines :
       /\ DOMAIN row[m] = Prefs /\ DOMAIN meta[m] = Prefs
       /\ \A i \in Prefs : row[m][i] \in Sync!Stamps /\ meta[m][i] \in Sync!Stamps
  /\ \A i \in Prefs : relay[i] \in Sync!Content
  /\ \A c \in Calls :
       /\ DOMAIN cycle[c] = {"pc", "sent", "got"} /\ cycle[c].pc \in {"idle", "sent", "answered"}
       /\ DOMAIN cycle[c].sent = Prefs /\ DOMAIN cycle[c].got = Prefs
       /\ \A i \in Prefs : cycle[c].sent[i] \in Sync!Content /\ cycle[c].got[i] \in Sync!Content

\* The relay keeps values under the stamp of the write that made them, and the
\* stamp with which a machine applied an item is not later.
RelayIsHonest ==
  \A i \in Prefs :
    /\ relay[i].value = relay[i].stamp
    /\ \A m \in Machines : AtMost(meta[m][i], relay[i].stamp)

\* An edit that is sent with the stamp of an earlier cycle cannot win.
SentIsHonest ==
  \A c \in Calls, i \in Prefs :
    \/ cycle[c].sent[i].value = cycle[c].sent[i].stamp
    \/ AtMost(cycle[c].sent[i].stamp, meta[c[1]][i])

\* An answer is what the relay kept, which was not earlier than what was sent.
AnswersAreHonest ==
  \A c \in Calls, i \in Prefs :
    /\ cycle[c].got[i].value = cycle[c].got[i].stamp
    /\ AtMost(cycle[c].got[i].stamp, relay[i].stamp)
    /\ cycle[c].pc = "answered" => AtMost(cycle[c].sent[i].stamp, cycle[c].got[i].stamp)

\* What the user left alone is the value that was applied.
RowIsApplied ==
  \A m \in Machines, i \in Prefs :
    i \notin edited[m] /\ meta[m][i] # Sync!None => row[m][i] = meta[m][i]

\* A machine that applied all the relay keeps has its stamps.
FreshHasStamps ==
  /\ fresh \subseteq Machines
  /\ \A m \in fresh, i \in Prefs : relay[i] # Sync!Absent => meta[m][i] = relay[i].stamp

\* The inductive invariant of the sync.
SyncInv ==
  SyncTyped /\ RelayIsHonest /\ SentIsHonest /\ AnswersAreHonest /\ RowIsApplied /\ FreshHasStamps

\* At first nobody has anything.
LEMMA SyncInit == Sync!Init => SyncInv
<1> SUFFICES ASSUME Sync!Init PROVE SyncInv
  OBVIOUS
<1> USE SyncAssumption, StampsAreOrdered, ContentIsTyped DEF Sync!SyncAssumption
<1>0. /\ clock = 1 /\ fresh = {} /\ relay = [i \in Prefs |-> Sync!Absent]
      /\ row = [m \in Machines |-> [i \in Prefs |-> Sync!None]] /\ meta = row
      /\ edited = [m \in Machines |-> {}]
      /\ cycle = [c \in Calls |-> [pc |-> "idle", sent |-> [i \in Prefs |-> Sync!Absent],
                                   got |-> [i \in Prefs |-> Sync!Absent]]]
  BY DEF Sync!Init, Sync!Idle
<1> QED BY <1>0 DEF SyncInv, SyncTyped, RelayIsHonest, SentIsHonest, AnswersAreHonest, RowIsApplied,
             FreshHasStamps

\* Every step keeps it: edits, and calls of several machines, or of one, that
\* are built, exchanged, lost and applied in any order.
LEMMA SyncStep == SyncInv /\ [Sync!Next]_(Sync!vars) => SyncInv'
<1> SUFFICES ASSUME SyncInv, [Sync!Next]_(Sync!vars) PROVE SyncInv'
  OBVIOUS
<1>a. /\ SyncTyped /\ RelayIsHonest /\ SentIsHonest /\ AnswersAreHonest /\ RowIsApplied
      /\ FreshHasStamps
  BY DEF SyncInv
<1>b. \A c \in Calls : c[1] \in Machines
  BY SyncAssumption DEF Sync!SyncAssumption
<1>1. ASSUME NEW m \in Machines, NEW i \in Prefs, Sync!Edit(m, i) \/ Sync!Drop(m, i) PROVE SyncInv'
  <2>1. /\ UNCHANGED <<meta, cycle, relay, fresh, clock>>
        /\ edited' = [edited EXCEPT ![m] = edited[m] \cup {i}]
    BY <1>1 DEF Sync!Edit, Sync!Drop
  <2>2. PICK s \in Sync!Stamps : row' = [row EXCEPT ![m][i] = s]
    <3>1. [at |-> clock, by |-> m] \in Sync!Stamps
      BY <1>a, SyncAssumption DEF SyncTyped, Sync!Stamps, Sync!SyncAssumption
    <3>2. Sync!None \in Sync!Stamps
      BY StampsAreOrdered
    <3> QED BY <1>1, <3>1, <3>2 DEF Sync!Edit, Sync!Drop
  <2>3. /\ DOMAIN row' = Machines
        /\ \A n \in Machines : /\ DOMAIN row'[n] = Prefs
                               /\ \A j \in Prefs : row'[n][j] = IF n = m /\ j = i THEN s ELSE row[n][j]
    BY <1>a, <2>2 DEF SyncTyped
  <2>4. SyncTyped'
    BY <1>a, <2>1, <2>3 DEF SyncTyped
  <2>5. RowIsApplied'
    BY <1>a, <2>1, <2>3 DEF SyncTyped, RowIsApplied
  <2> QED BY <1>a, <2>1, <2>4, <2>5
      DEF SyncInv, RelayIsHonest, SentIsHonest, AnswersAreHonest, FreshHasStamps
<1>2. ASSUME NEW c \in Calls, Sync!Build(c) PROVE SyncInv'
  <2>1. /\ UNCHANGED <<row, meta, edited, relay, fresh, clock>>
        /\ cycle' = [cycle EXCEPT ![c] = [Sync!Idle EXCEPT !.pc = "sent",
                                            !.sent = [i \in Prefs |-> Sync!LocalItem(c[1], i)]]]
    BY <1>2 DEF Sync!Build
  <2>2. /\ DOMAIN cycle' = Calls /\ \A d \in Calls : d # c => cycle'[d] = cycle[d]
        /\ DOMAIN cycle'[c] = {"pc", "sent", "got"} /\ cycle'[c].pc = "sent"
        /\ cycle'[c].sent = [i \in Prefs |-> Sync!LocalItem(c[1], i)]
        /\ cycle'[c].got = [i \in Prefs |-> Sync!Absent]
    BY <1>a, <2>1 DEF SyncTyped, Sync!Idle
  <2>3. ASSUME NEW i \in Prefs
        PROVE  /\ Sync!LocalItem(c[1], i) \in Sync!Content
               /\ \/ Sync!LocalItem(c[1], i).value = Sync!LocalItem(c[1], i).stamp
                  \/ AtMost(Sync!LocalItem(c[1], i).stamp, meta[c[1]][i])
    <3>1. c[1] \in Machines /\ row[c[1]][i] \in Sync!Stamps /\ meta[c[1]][i] \in Sync!Stamps
      BY <1>a, <1>b DEF SyncTyped
    <3>2. CASE row[c[1]][i] = Sync!None
      BY <3>2, ContentIsTyped DEF Sync!LocalItem
    <3>3. CASE row[c[1]][i] # Sync!None
      <4>1. PICK s \in Sync!Stamps : /\ Sync!LocalItem(c[1], i) = [value |-> row[c[1]][i], stamp |-> s]
                                     /\ s = row[c[1]][i] \/ s = meta[c[1]][i]
        BY <3>1, <3>3 DEF Sync!LocalItem
      <4> QED BY <3>1, <4>1, StampsAreOrdered DEF Sync!Content
    <3> QED BY <3>2, <3>3
  <2>4. SyncTyped'
    BY <1>a, <2>1, <2>2, <2>3, ContentIsTyped DEF SyncTyped
  <2>5. SentIsHonest'
    BY <1>a, <2>1, <2>2, <2>3 DEF SentIsHonest
  <2>6. AnswersAreHonest'
    <3>1. \A i \in Prefs : relay[i].stamp \in Sync!Stamps
      BY <1>a, ContentIsTyped DEF SyncTyped
    <3> QED BY <1>a, <2>1, <2>2, <3>1, ContentIsTyped, StampsAreOrdered DEF AnswersAreHonest
  <2> QED BY <1>a, <2>1, <2>4, <2>5, <2>6
      DEF SyncInv, RelayIsHonest, RowIsApplied, FreshHasStamps
<1>3. ASSUME NEW c \in Calls, Sync!Exchange(c) PROVE SyncInv'
  <2> DEFINE kept == [i \in Prefs |-> Sync!Best(relay[i], cycle[c].sent[i])]
  <2>1. /\ UNCHANGED <<row, meta, edited, clock>> /\ relay' = kept
        /\ fresh' = (IF kept = relay THEN fresh ELSE {})
        /\ \/ cycle' = [cycle EXCEPT ![c].pc = "answered", ![c].got = kept]
           \/ cycle' = [cycle EXCEPT ![c] = Sync!Idle]
    BY <1>3 DEF Sync!Exchange
  <2>2. ASSUME NEW i \in Prefs
        PROVE  /\ relay'[i] \in Sync!Content /\ relay'[i].value = relay'[i].stamp
               /\ AtMost(relay[i].stamp, relay'[i].stamp)
               /\ AtMost(cycle[c].sent[i].stamp, relay'[i].stamp)
    <3> DEFINE sent == cycle[c].sent[i]
    <3>1. relay[i] \in Sync!Content /\ sent \in Sync!Content
      BY <1>a DEF SyncTyped
    <3>2. relay'[i] = Sync!Best(relay[i], sent)
      BY <2>1
    <3>3. /\ relay'[i] \in {relay[i], sent}
          /\ AtMost(relay[i].stamp, relay'[i].stamp) /\ AtMost(sent.stamp, relay'[i].stamp)
          /\ relay'[i] = sent => relay[i] = sent \/ ~AtMost(sent.stamp, relay[i].stamp)
      <4> HIDE DEF sent
      <4> QED BY <3>1, <3>2, BestIsLatest
    <3>4. relay[i].value = relay[i].stamp
      BY <1>a DEF RelayIsHonest
    <3>5. CASE relay'[i] = sent /\ relay[i] # sent
      <4>1. /\ ~AtMost(sent.stamp, relay[i].stamp)
            /\ relay[i].stamp \in Sync!Stamps /\ sent.stamp \in Sync!Stamps
            /\ meta[c[1]][i] \in Sync!Stamps
            /\ AtMost(meta[c[1]][i], relay[i].stamp)
        <5>1. c[1] \in Machines
          BY <1>b
        <5>2. relay[i].stamp \in Sync!Stamps /\ sent.stamp \in Sync!Stamps
          <6> HIDE DEF sent
          <6> QED BY <3>1, ContentIsTyped
        <5> QED BY <1>a, <3>3, <3>5, <5>1, <5>2 DEF SyncTyped, RelayIsHonest
      <4>2. ~AtMost(sent.stamp, meta[c[1]][i])
        <5> HIDE DEF sent
        <5> QED BY <4>1, StampsAreOrdered
      <4>3. sent.value = sent.stamp
        BY <1>a, <4>2 DEF SentIsHonest
      <4> HIDE DEF kept
      <4> QED BY <3>1, <3>3, <3>5, <4>3
    <3> HIDE DEF kept
    <3> QED BY <3>1, <3>3, <3>4, <3>5
  <2>3. /\ DOMAIN cycle' = Calls /\ \A d \in Calls : d # c => cycle'[d] = cycle[d]
        /\ DOMAIN cycle'[c] = {"pc", "sent", "got"}
        /\ \/ /\ cycle'[c].pc = "answered" /\ cycle'[c].sent = cycle[c].sent /\ cycle'[c].got = kept
           \/ /\ cycle'[c].pc = "idle" /\ cycle'[c].sent = [i \in Prefs |-> Sync!Absent]
              /\ cycle'[c].got = [i \in Prefs |-> Sync!Absent]
    <3> HIDE DEF kept
    <3>1. CASE cycle' = [cycle EXCEPT ![c].pc = "answered", ![c].got = kept]
      BY <1>a, <3>1 DEF SyncTyped
    <3>2. CASE cycle' = [cycle EXCEPT ![c] = Sync!Idle]
      BY <1>a, <3>2 DEF SyncTyped, Sync!Idle
    <3> QED BY <2>1, <3>1, <3>2
  <2>4. SyncTyped'
    <3>1. DOMAIN relay' = Prefs /\ DOMAIN kept = Prefs /\ \A i \in Prefs : kept[i] \in Sync!Content
      BY <2>1, <2>2
    <3> HIDE DEF kept
    <3>2. ASSUME NEW d \in Calls
          PROVE  /\ DOMAIN cycle'[d] = {"pc", "sent", "got"} /\ cycle'[d].pc \in {"idle", "sent", "answered"}
                 /\ DOMAIN cycle'[d].sent = Prefs /\ DOMAIN cycle'[d].got = Prefs
                 /\ \A i \in Prefs : cycle'[d].sent[i] \in Sync!Content /\ cycle'[d].got[i] \in Sync!Content
      BY <1>a, <2>3, <3>1, ContentIsTyped DEF SyncTyped
    <3> QED BY <1>a, <2>1, <2>2, <2>3, <3>1, <3>2 DEF SyncTyped
  <2>s. /\ \A i \in Prefs : /\ relay[i].stamp \in Sync!Stamps /\ relay'[i].stamp \in Sync!Stamps
        /\ \A m \in Machines, i \in Prefs : meta[m][i] \in Sync!Stamps
        /\ \A d \in Calls, i \in Prefs : /\ cycle[d].got[i].stamp \in Sync!Stamps
                                         /\ cycle[d].sent[i].stamp \in Sync!Stamps
    BY <1>a, <2>2, ContentIsTyped DEF SyncTyped
  <2>5. RelayIsHonest'
    <3>1. ASSUME NEW i \in Prefs, NEW m \in Machines PROVE AtMost(meta'[m][i], relay'[i].stamp)
      BY <1>a, <2>1, <2>2, <2>s, StampsAreOrdered DEF RelayIsHonest
    <3> QED BY <2>2, <3>1 DEF RelayIsHonest
  <2>6. SentIsHonest'
    <3> HIDE DEF kept
    <3> QED BY <1>a, <2>1, <2>3, ContentIsTyped DEF SentIsHonest
  <2>7. AnswersAreHonest'
    <3>1. ASSUME NEW d \in Calls, NEW i \in Prefs
          PROVE  /\ cycle'[d].got[i].value = cycle'[d].got[i].stamp
                 /\ AtMost(cycle'[d].got[i].stamp, relay'[i].stamp)
                 /\ cycle'[d].pc = "answered" => AtMost(cycle'[d].sent[i].stamp, cycle'[d].got[i].stamp)
      <4>1. CASE d # c
        <5>1. /\ cycle[d].got[i].value = cycle[d].got[i].stamp
              /\ AtMost(cycle[d].got[i].stamp, relay[i].stamp)
              /\ cycle[d].pc = "answered" => AtMost(cycle[d].sent[i].stamp, cycle[d].got[i].stamp)
          BY <1>a DEF AnswersAreHonest
        <5>2. AtMost(cycle[d].got[i].stamp, relay'[i].stamp)
          BY <2>2, <2>s, <5>1, StampsAreOrdered
        <5> QED BY <2>3, <4>1, <5>1, <5>2
      <4>2. CASE d = c /\ cycle'[c].pc = "idle"
        <5>1. cycle'[d].got[i] = Sync!Absent
          BY <2>3, <4>2
        <5> QED BY <2>s, <4>2, <5>1, ContentIsTyped, StampsAreOrdered
      <4>3. CASE d = c /\ cycle'[c].pc # "idle"
        <5>1. cycle'[d].sent[i] = cycle[c].sent[i] /\ cycle'[d].got[i] = relay'[i]
          BY <2>1, <2>3, <4>3
        <5> QED BY <2>2, <2>s, <5>1, StampsAreOrdered
      <4> QED BY <4>1, <4>2, <4>3
    <3> QED BY <3>1 DEF AnswersAreHonest
  <2>8. RowIsApplied'
    BY <1>a, <2>1 DEF RowIsApplied
  <2>9. FreshHasStamps'
    <3> HIDE DEF kept
    <3> QED BY <1>a, <2>1 DEF FreshHasStamps
  <2> QED BY <2>4, <2>5, <2>6, <2>7, <2>8, <2>9 DEF SyncInv
<1>4. ASSUME NEW c \in Calls, Sync!Fail(c) PROVE SyncInv'
  <2>1. /\ UNCHANGED <<row, meta, edited, relay, fresh, clock>>
        /\ cycle' = [cycle EXCEPT ![c] = Sync!Idle]
    BY <1>4 DEF Sync!Fail
  <2>2. /\ DOMAIN cycle' = Calls /\ \A d \in Calls : d # c => cycle'[d] = cycle[d]
        /\ DOMAIN cycle'[c] = {"pc", "sent", "got"} /\ cycle'[c].pc = "idle"
        /\ cycle'[c].sent = [i \in Prefs |-> Sync!Absent]
        /\ cycle'[c].got = [i \in Prefs |-> Sync!Absent]
    BY <1>a, <2>1 DEF SyncTyped, Sync!Idle
  <2>3. SyncTyped'
    BY <1>a, <2>1, <2>2, ContentIsTyped DEF SyncTyped
  <2>4. SentIsHonest'
    BY <1>a, <2>1, <2>2, ContentIsTyped DEF SentIsHonest
  <2>5. AnswersAreHonest'
    <3>1. \A i \in Prefs : relay[i].stamp \in Sync!Stamps
      BY <1>a, ContentIsTyped DEF SyncTyped
    <3> QED BY <1>a, <2>1, <2>2, <3>1, ContentIsTyped, StampsAreOrdered DEF AnswersAreHonest
  <2> QED BY <1>a, <2>1, <2>3, <2>4, <2>5
      DEF SyncInv, RelayIsHonest, RowIsApplied, FreshHasStamps
<1>5. ASSUME NEW c \in Calls, Sync!Apply(c) PROVE SyncInv'
  <2> DEFINE m      == c[1]
             merged == [i \in Prefs |-> Sync!Best(cycle[c].sent[i], cycle[c].got[i])]
             won    == Sync!Applicable(m, merged)
  <2>1. /\ cycle[c].pc = "answered" /\ UNCHANGED <<relay, clock>>
        /\ row' = [row EXCEPT ![m] = [i \in Prefs |-> IF i \in won THEN merged[i].value ELSE row[m][i]]]
        /\ meta' = [meta EXCEPT ![m] = [i \in Prefs |-> IF i \in won THEN merged[i].stamp ELSE meta[m][i]]]
        /\ edited' = [edited EXCEPT ![m] = edited[m] \ won]
        /\ fresh' = (IF cycle[c].got = relay THEN fresh \cup {m} ELSE fresh)
        /\ cycle' = [cycle EXCEPT ![c] = Sync!Idle]
    BY <1>5 DEF Sync!Apply
  <2>m. m \in Machines
    BY <1>b
  <2>s. /\ \A i \in Prefs : relay[i].stamp \in Sync!Stamps
        /\ \A n \in Machines, i \in Prefs : meta[n][i] \in Sync!Stamps
        /\ \A d \in Calls, i \in Prefs : /\ cycle[d].got[i].stamp \in Sync!Stamps
                                         /\ cycle[d].sent[i].stamp \in Sync!Stamps
    BY <1>a, ContentIsTyped DEF SyncTyped
  \* The merge is as late as the answer, and is what its stamp says or does not win.
  <2>2. ASSUME NEW i \in Prefs
        PROVE  /\ merged[i] \in Sync!Content /\ merged[i].stamp = cycle[c].got[i].stamp
               /\ merged[i].stamp \in Sync!Stamps /\ merged[i].value \in Sync!Stamps
               /\ AtMost(merged[i].stamp, relay[i].stamp)
               /\ merged[i].value = merged[i].stamp \/ AtMost(merged[i].stamp, meta[m][i])
               /\ i \in won <=> merged[i] # Sync!Absent /\ ~AtMost(merged[i].stamp, meta[m][i])
    <3> DEFINE sent == cycle[c].sent[i]
               got == cycle[c].got[i]
               best == merged[i]
    <3>1. sent \in Sync!Content /\ got \in Sync!Content
      BY <1>a DEF SyncTyped
    <3>2. best = Sync!Best(sent, got)
      OBVIOUS
    <3>3. best \in {sent, got} /\ AtMost(sent.stamp, best.stamp) /\ AtMost(got.stamp, best.stamp)
      <4> HIDE DEF sent, got, best
      <4> QED BY <3>1, <3>2, BestIsLatest
    <3>4. /\ got.value = got.stamp /\ AtMost(got.stamp, relay[i].stamp) /\ AtMost(sent.stamp, got.stamp)
          /\ sent.value = sent.stamp \/ AtMost(sent.stamp, meta[m][i])
      BY <1>a, <2>1 DEF AnswersAreHonest, SentIsHonest
    <3>5. got.stamp \in Sync!Stamps /\ sent.stamp \in Sync!Stamps
      BY <2>s
    <3>6. best.stamp = got.stamp
      <4> HIDE DEF sent, got, best
      <4> QED BY <3>3, <3>4, <3>5, StampsAreOrdered
    <3>7. best \in Sync!Content /\ best.stamp \in Sync!Stamps /\ best.value \in Sync!Stamps
      <4> HIDE DEF sent, got, best
      <4> QED BY <3>1, <3>3, ContentIsTyped
    <3>8. best.value = best.stamp \/ AtMost(best.stamp, meta[m][i])
      <4> HIDE DEF sent, got, best, m
      <4> QED BY <3>3, <3>4
    <3>9. i \in won <=> best # Sync!Absent /\ ~AtMost(best.stamp, meta[m][i])
      <4> HIDE DEF sent, got, merged, m
      <4> QED BY DEF Sync!Applicable, Sync!Wins, AtMost
    <3> HIDE DEF merged, won, m
    <3> QED BY <3>4, <3>6, <3>7, <3>8, <3>9
  <2> HIDE DEF merged, won, m
  <2>3. /\ \A n \in Machines \ {m} : /\ row'[n] = row[n] /\ meta'[n] = meta[n]
                                     /\ edited'[n] = edited[n]
        /\ DOMAIN row' = Machines /\ DOMAIN meta' = Machines /\ DOMAIN edited' = Machines
        /\ DOMAIN row'[m] = Prefs /\ DOMAIN meta'[m] = Prefs /\ edited'[m] = edited[m] \ won
        /\ \A i \in Prefs : /\ i \in won => row'[m][i] = merged[i].value /\ meta'[m][i] = merged[i].stamp
                            /\ i \notin won => row'[m][i] = row[m][i] /\ meta'[m][i] = meta[m][i]
    BY <1>a, <2>1, <2>m DEF SyncTyped
  <2>4. /\ DOMAIN cycle' = Calls /\ \A d \in Calls : d # c => cycle'[d] = cycle[d]
        /\ DOMAIN cycle'[c] = {"pc", "sent", "got"} /\ cycle'[c].pc = "idle"
        /\ cycle'[c].sent = [i \in Prefs |-> Sync!Absent]
        /\ cycle'[c].got = [i \in Prefs |-> Sync!Absent]
    BY <1>a, <2>1 DEF SyncTyped, Sync!Idle
  <2>5. SyncTyped'
    <3>1. ASSUME NEW n \in Machines
          PROVE  /\ DOMAIN row'[n] = Prefs /\ DOMAIN meta'[n] = Prefs
                 /\ \A i \in Prefs : row'[n][i] \in Sync!Stamps /\ meta'[n][i] \in Sync!Stamps
      BY <1>a, <2>2, <2>3 DEF SyncTyped
    <3>2. ASSUME NEW d \in Calls
          PROVE  /\ DOMAIN cycle'[d] = {"pc", "sent", "got"} /\ cycle'[d].pc \in {"idle", "sent", "answered"}
                 /\ DOMAIN cycle'[d].sent = Prefs /\ DOMAIN cycle'[d].got = Prefs
                 /\ \A i \in Prefs : cycle'[d].sent[i] \in Sync!Content /\ cycle'[d].got[i] \in Sync!Content
      BY <1>a, <2>4, ContentIsTyped DEF SyncTyped
    <3> QED BY <1>a, <2>1, <2>3, <2>4, <3>1, <3>2 DEF SyncTyped
  \* The stamps of a machine only grow, and never past the relay's.
  <2>6. ASSUME NEW n \in Machines, NEW i \in Prefs
        PROVE  AtMost(meta[n][i], meta'[n][i]) /\ AtMost(meta'[n][i], relay[i].stamp)
    BY <1>a, <2>2, <2>3, <2>s, StampsAreOrdered DEF RelayIsHonest
  <2>7. RelayIsHonest'
    BY <1>a, <2>1, <2>6 DEF RelayIsHonest
  <2>8. SentIsHonest'
    <3>1. ASSUME NEW d \in Calls, NEW i \in Prefs
          PROVE  \/ cycle'[d].sent[i].value = cycle'[d].sent[i].stamp
                 \/ AtMost(cycle'[d].sent[i].stamp, meta'[d[1]][i])
      <4>1. CASE d = c
        BY <2>4, <4>1, ContentIsTyped
      <4>2. CASE d # c
        <5>1. d[1] \in Machines /\ cycle'[d] = cycle[d]
          BY <1>b, <2>4, <4>2
        <5>2. meta[d[1]][i] \in Sync!Stamps /\ meta'[d[1]][i] \in Sync!Stamps
          BY <2>5, <5>1, <1>a DEF SyncTyped
        <5>3. cycle[d].sent[i].value = cycle[d].sent[i].stamp
              \/ AtMost(cycle[d].sent[i].stamp, meta[d[1]][i])
          BY <1>a DEF SentIsHonest
        <5>4. AtMost(meta[d[1]][i], meta'[d[1]][i])
          BY <2>6, <5>1
        <5> QED BY <2>s, <5>1, <5>2, <5>3, <5>4, StampsAreOrdered
      <4> QED BY <4>1, <4>2
    <3> QED BY <3>1 DEF SentIsHonest
  <2>9. AnswersAreHonest'
    BY <1>a, <2>1, <2>4, <2>s, ContentIsTyped, StampsAreOrdered DEF AnswersAreHonest
  <2>10. RowIsApplied'
    BY <1>a, <2>2, <2>3 DEF RowIsApplied
  <2>11. FreshHasStamps'
    <3>1. ASSUME NEW n \in fresh, NEW i \in Prefs, relay[i] # Sync!Absent
          PROVE  meta'[n][i] = relay[i].stamp
      <4>1. n \in Machines /\ meta[n][i] = relay[i].stamp
        BY <1>a, <3>1 DEF FreshHasStamps
      <4> QED BY <2>3, <2>5, <2>6, <2>s, <4>1, StampsAreOrdered DEF SyncTyped
    <3>2. ASSUME cycle[c].got = relay, NEW i \in Prefs, relay[i] # Sync!Absent
          PROVE  meta'[m][i] = relay[i].stamp
      <4>1. merged[i].stamp = relay[i].stamp
        BY <2>2, <3>2
      <4>2. relay[i].stamp # Sync!None
        BY <1>a, <3>2, ContentIsTyped DEF SyncTyped, RelayIsHonest
      <4>3. merged[i] # Sync!Absent
        BY <4>1, <4>2, ContentIsTyped
      <4>4. CASE i \in won
        BY <2>3, <4>1, <4>4
      <4>5. CASE i \notin won
        <5>1. AtMost(relay[i].stamp, meta[m][i]) /\ meta'[m][i] = meta[m][i]
          BY <2>2, <2>3, <4>1, <4>3, <4>5
        <5>2. AtMost(meta[m][i], relay[i].stamp) /\ meta[m][i] \in Sync!Stamps
          BY <1>a, <2>m, <2>s DEF RelayIsHonest
        <5> QED BY <2>s, <5>1, <5>2, StampsAreOrdered
      <4> QED BY <4>4, <4>5
    <3> QED BY <1>a, <2>1, <2>m, <3>1, <3>2 DEF FreshHasStamps
  <2> QED BY <2>5, <2>7, <2>8, <2>9, <2>10, <2>11 DEF SyncInv
<1>6. CASE Sync!Tick
  <2>1. /\ UNCHANGED <<row, meta, edited, cycle, relay, fresh>> /\ clock' \in Nat
        /\ clock' <= MaxSecond
    BY <1>6, <1>a, SyncAssumption DEF Sync!Tick, SyncTyped, Sync!SyncAssumption
  <2> QED BY <1>a, <2>1 DEF SyncInv, SyncTyped, RelayIsHonest, SentIsHonest, AnswersAreHonest,
             RowIsApplied, FreshHasStamps
<1>7. CASE UNCHANGED Sync!vars
  BY <1>7, <1>a DEF Sync!vars, SyncInv, SyncTyped, RelayIsHonest, SentIsHonest, AnswersAreHonest,
             RowIsApplied, FreshHasStamps
<1> QED
  BY <1>1, <1>2, <1>3, <1>4, <1>5, <1>6, <1>7 DEF Sync!Next

\* A machine that has applied all the relay keeps holds what the relay holds, but
\* for what its user has changed since, in whatever order the cycles of any number
\* of machines, and of one, were sent, answered and applied (multi_sync.rs).
THEOREM FreshMachinesAgree == Sync!Spec => []FreshMatchesRelay
<1>1. SyncInv => FreshMatchesRelay
  <2> SUFFICES ASSUME SyncInv, NEW m \in fresh, NEW i \in Prefs, relay[i] # Sync!Absent,
                      i \notin edited[m]
               PROVE  row[m][i] = relay[i].value
    BY DEF FreshMatchesRelay, Sync!FreshMatchesRelay
  <2>1. m \in Machines /\ meta[m][i] = relay[i].stamp /\ relay[i].value = relay[i].stamp
    BY DEF SyncInv, FreshHasStamps, RelayIsHonest
  <2>2. relay[i].stamp # Sync!None
    BY <2>1, ContentIsTyped DEF SyncInv, SyncTyped
  <2> QED BY <2>1, <2>2 DEF SyncInv, RowIsApplied
<1> QED BY <1>1, SyncInit, SyncStep, PTL DEF Sync!Spec
=============================================================================
