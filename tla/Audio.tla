-------------------------------- MODULE Audio --------------------------------
(***************************************************************************)
(* The one gate all sound of the attention queue goes through              *)
(* (AudioManager, audio_attention.rs) and the speaker behind it (tts.rs).  *)
(* consider admits a request and reserves its event; the poller pumps, one *)
(* request at a time under the playback lock: take, compare generations,   *)
(* start.  "Callar" (silence) empties the queue, advances the generation   *)
(* and cancels, under the same lock.                                       *)
(*                                                                         *)
(* A task of its own speaks, and another waits for the speaking process.   *)
(* Windows of time end when they please: the rates and the budget may      *)
(* refuse any request, which then leaves no trace.                         *)
(***************************************************************************)
EXTENDS Naturals, Sequences, FiniteSets, SequencesExt

CONSTANTS Events,   \* ids of attention events (pane, class and seq)
          Urgent,   \* those of a pane that needs input; the others are results
          QueueCap, \* QUEUE_CAP
          MaxVoices \* bound on the speaking processes started

AudioAssumption ==
  /\ Urgent \subseteq Events /\ IsFiniteSet(Events)
  /\ QueueCap \in Nat \ {0} /\ MaxVoices \in Nat

None == "none"
Reading == "reading" \* a result the human asked to be read
Voices == 1 .. MaxVoices

VARIABLES dedup,    \* events that are reserved
          queue,    \* events admitted, in the order of their admission
          gen,      \* the generation of silence, of which only the parity is compared
          pump,     \* what the pump under way has taken, and in which generation
          said,     \* tasks that are about to speak
          speaking, \* SPEAKING: taken by a pane, the number of the voice, kill armed
          voices,   \* speaking processes
          played,   \* events handed to the sink since they were admitted
          muted     \* events admitted before the last silence

vars == <<dedup, queue, gen, pump, said, speaking, voices, played, muted>>

Idle == [pc |-> "idle", event |-> None, gen |-> 0]

TypeOK ==
  /\ {dedup, played, muted} \subseteq SUBSET Events
  /\ said \subseteq Events \cup {Reading}
  /\ queue \in SeqOf(Events, QueueCap)
  /\ gen \in 0 .. 1
  /\ pump \in [pc : {"idle", "taken", "play"}, event : Events \cup {None}, gen : 0 .. 1]
  /\ speaking \in [busy : BOOLEAN, gen : 0 .. MaxVoices, kill : BOOLEAN]
  /\ voices \in [Voices -> {"none", "speaks", "told", "over", "gone"}]

Init == /\ dedup = {} /\ queue = <<>> /\ gen = 0 /\ pump = Idle /\ said = {}
        /\ speaking = [busy |-> FALSE, gen |-> 0, kill |-> FALSE]
        /\ voices = [v \in Voices |-> "none"]
        /\ played = {} /\ muted = {}

Queued == ToSet(queue)

----------------------------------------------------------------------------
\* The gate

\* Mutant: what is driven out of the queue stays reserved, and is never heard.
TryPlaceKeepsDedup(e) ==
  /\ dedup' = dedup \cup {e}
  /\ IF Len(queue) < QueueCap
     THEN queue' = Append(queue, e)
     ELSE \E i \in DOMAIN queue : /\ queue[i] \notin Urgent /\ e \in Urgent
                                  /\ \A j \in 1 .. i - 1 : queue[j] \in Urgent
                                  /\ queue' = Append(RemoveAt(queue, i), e)

\* try_place: a full queue gives up its oldest result, and only for an urgent one.
TryPlace(e) ==
  IF Len(queue) < QueueCap
  THEN queue' = Append(queue, e) /\ dedup' = dedup \cup {e}
  ELSE \E i \in DOMAIN queue : /\ queue[i] \notin Urgent /\ e \in Urgent
                               /\ \A j \in 1 .. i - 1 : queue[j] \in Urgent
                               /\ queue' = Append(RemoveAt(queue, i), e)
                               /\ dedup' = (dedup \ {queue[i]}) \cup {e}

\* consider
Consider(e) ==
  /\ e \notin dedup
  /\ TryPlace(e)
  /\ played' = played \ {e} /\ muted' = muted \ {e}
  /\ UNCHANGED <<gen, pump, said, speaking, voices>>

\* The reservation of an event ends: DEDUP_TTL_MS, or resolve.
Expire(e) ==
  /\ e \in dedup
  /\ dedup' = dedup \ {e}
  /\ UNCHANGED <<queue, gen, pump, said, speaking, voices, played, muted>>

\* take_for_play: the oldest urgent event, or the oldest.
Best(i) ==
  /\ \/ queue[i] \in Urgent
     \/ Queued \cap Urgent = {}
  /\ \A j \in 1 .. i - 1 : queue[i] \in Urgent /\ queue[j] \notin Urgent

TakeForPlay(i) ==
  /\ pump.pc = "idle" /\ Best(i)
  /\ pump' = [pc |-> "taken", event |-> queue[i], gen |-> gen]
  /\ queue' = RemoveAt(queue, i)
  /\ UNCHANGED <<dedup, gen, said, speaking, voices, played, muted>>

\* play_if_current compares under the state lock and plays without it.
CheckCurrent ==
  /\ pump.pc = "taken"
  /\ pump' = IF pump.gen = gen THEN [pump EXCEPT !.pc = "play"] ELSE Idle
  /\ UNCHANGED <<dedup, queue, gen, said, speaking, voices, played, muted>>

\* TtsEarconSink.play: an earcon sounds at once; a phrase is left to a task.
Play ==
  /\ pump.pc = "play"
  /\ said' = IF pump.event \in Urgent THEN said \cup {pump.event} ELSE said
  /\ played' = played \cup {pump.event}
  /\ pump' = Idle
  /\ UNCHANGED <<dedup, queue, gen, speaking, voices, muted>>

\* tts::stop
Stop ==
  /\ voices' = [v \in Voices |->
                  IF speaking.kill /\ v = speaking.gen /\ voices[v] = "speaks" THEN "told"
                  ELSE voices[v]]
  /\ speaking' = [speaking EXCEPT !.busy = FALSE, !.kill = FALSE]

\* Mutant: silence does not wait for the pump.
SilenceUnlocked ==
  /\ queue' = <<>> /\ gen' = 1 - gen
  /\ muted' = muted \cup dedup
  /\ Stop
  /\ UNCHANGED <<dedup, pump, said, played>>

\* silence: not while a pump holds the playback lock.
Silence ==
  /\ pump.pc = "idle"
  /\ queue' = <<>> /\ gen' = 1 - gen
  /\ muted' = muted \cup Queued \cup (said \ {Reading})
  /\ Stop
  /\ UNCHANGED <<dedup, pump, said, played>>

----------------------------------------------------------------------------
\* The speaker

\* attention_command: the result of a pane is to be read.
AskToRead ==
  /\ Reading \notin said
  /\ said' = said \cup {Reading}
  /\ UNCHANGED <<dedup, queue, gen, pump, speaking, voices, played, muted>>

\* speak_with: an aviso is dropped if somebody speaks, a reading takes over.
Told == [v \in Voices |-> IF speaking.kill /\ v = speaking.gen /\ voices[v] = "speaks"
                          THEN "told" ELSE voices[v]]

SpeakWith(e) ==
  /\ e \in said
  /\ said' = said \ {e}
  /\ \/ /\ e # Reading /\ speaking.busy
        /\ UNCHANGED <<speaking, voices>>
     \/ /\ e = Reading \/ ~speaking.busy
        /\ speaking.gen < MaxVoices
        /\ voices' = [Told EXCEPT ![speaking.gen + 1] = "speaks"]
        /\ speaking' = [busy |-> TRUE, gen |-> speaking.gen + 1, kill |-> TRUE]
  /\ UNCHANGED <<dedup, queue, gen, pump, played, muted>>

\* The process could not be spawned: whoever spoke was told to stop all the same.
SpeakFails(e) ==
  /\ e \in said /\ (e = Reading \/ ~speaking.busy)
  /\ said' = said \ {e}
  /\ voices' = Told
  /\ speaking' = [speaking EXCEPT !.kill = FALSE]
  /\ UNCHANGED <<dedup, queue, gen, pump, played, muted>>

\* The process ends, by itself or because its watcher was told.
VoiceEnds(v) ==
  /\ voices[v] \in {"speaks", "told"}
  /\ voices' = [voices EXCEPT ![v] = "over"]
  /\ UNCHANGED <<dedup, queue, gen, pump, said, speaking, played, muted>>

\* Mutant: a late watcher frees the voice, whoever has it now.
WatcherFreesAny(v) ==
  /\ voices[v] = "over"
  /\ voices' = [voices EXCEPT ![v] = "gone"]
  /\ speaking' = [speaking EXCEPT !.busy = FALSE, !.kill = FALSE]
  /\ UNCHANGED <<dedup, queue, gen, pump, said, played, muted>>

\* Its watcher frees the voice, unless another has it by now.
WatcherFrees(v) ==
  /\ voices[v] = "over"
  /\ voices' = [voices EXCEPT ![v] = "gone"]
  /\ speaking' = IF speaking.gen = v THEN [speaking EXCEPT !.busy = FALSE, !.kill = FALSE]
                 ELSE speaking
  /\ UNCHANGED <<dedup, queue, gen, pump, said, played, muted>>

Next ==
  \/ \E e \in Events : Consider(e) \/ Expire(e)
  \/ \E i \in DOMAIN queue : TakeForPlay(i)
  \/ CheckCurrent \/ Play \/ Silence \/ AskToRead
  \/ \E e \in said : SpeakWith(e) \/ SpeakFails(e)
  \/ \E v \in Voices : VoiceEnds(v) \/ WatcherFrees(v)

Spec == Init /\ [][Next]_vars
----------------------------------------------------------------------------
\* What the human may rely on

\* What was admitted before a silence is never handed to the sink after it,
\* however the silence falls into a pump.
PlayIsCurrent == pump.pc = "play" => pump.event \notin muted

\* A reservation hushes later requests of the same event only if the event is
\* still to be heard, was heard or was silenced: one that was driven out of a
\* full queue may come again.
ReservedIsHeard == dedup \subseteq Queued \cup {pump.event} \cup played \cup muted

\* One voice at a time, and it can be told to stop: however late the watchers
\* of earlier voices are, a process that speaks is the one SPEAKING knows.
OneVoice ==
  \A v \in Voices : voices[v] = "speaks" => speaking = [busy |-> TRUE, gen |-> v, kill |-> TRUE]

\* What is heard is what was admitted: whatever falls between the steps of a
\* pump and of the speaker, nothing silenced plays, nothing reserved is lost and
\* nobody speaks whom the next "callar" would not reach.
SoundIsAccounted == PlayIsCurrent /\ ReservedIsHeard /\ OneVoice

\* audio_attention.rs: "callar" cancels a request that was taken and has not
\* sounded yet.  It does not reach the task that is about to speak.
SilencedStaysSilent ==
  [][\A e \in said \ {Reading} : e \notin said' /\ e \in muted => speaking'.gen = speaking.gen]_vars
=============================================================================
