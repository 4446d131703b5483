------------------------------- MODULE EventBus -------------------------------
(***************************************************************************)
(* The event bus from the threads that change the state of the application *)
(* (services/event_bus.rs) to the windows (web/src/lib/eventBus.ts) and to *)
(* a phone (mobile_bridge.rs, pwa/events.js).                              *)
(*                                                                         *)
(* A number is taken before the event is sent, and not under one lock: two *)
(* threads can send in the other order.  A viewer drops what is older than *)
(* the last number it has seen, whatever that one was about; a view of the *)
(* window loads again what it shows for the events of its own tag only.    *)
(* None of today's events is coalesced.                                    *)
(***************************************************************************)
EXTENDS Naturals, Sequences, FiniteSets, SequencesExt, FiniteSetsExt

CONSTANTS Threads,    \* threads that change state and tell the bus
          PhoneFirst, \* those of the phone's own requests
          Items,   \* what they change, by the tag of its event: approvals, the layout
          Tells,   \* Threads -> the items it changes
          Windows, \* webview windows
          RingCap, \* events the broadcast keeps for a slow phone (512)
          MaxSeq,  \* bound: events taken
          MaxResets \* bound: pages and phones that begin again

\* The ring holds at least one event of each thread.
BusAssumption ==
  /\ IsFiniteSet(Threads) /\ PhoneFirst \subseteq Threads /\ Tells \in [Threads -> SUBSET Items]
  /\ RingCap \in Nat /\ RingCap >= Cardinality(Threads)
  /\ MaxSeq \in Nat /\ MaxResets \in Nat /\ "phone" \notin Windows /\ "none" \notin Items

VARIABLES store,   \* Items -> how often each was changed
          sender,  \* Threads -> where each is, what it changed, the number it took
          seq,     \* SEQ: the next number
          channel, \* Windows -> events on their way to it
          cursor,  \* lastSeq of each window and of the phone
          deaf,    \* windows whose page does not listen yet
          due,     \* <<window, item>>: a load under way
          view,    \* Windows -> the state each shows
          ring,    \* events the phone's receiver has not read
          newest,  \* the highest number sent since the phone connected
          resets,   \* how many pages and phones have begun again
          \* For the properties only, nothing depends on them:
          heard,     \* the last event of each item that each page has applied
          unheard,   \* <<window, item>>: an event went out to a page that did not listen
          overtaken  \* <<window, item>>: an event was dropped for one about another item

ghosts == <<heard, unheard, overtaken>>
vars == <<store, sender, seq, channel, cursor, deaf, due, view, ring, newest, resets, ghosts>>

Phone == "phone"
Ways == {"windows", Phone}
Notices == [seq : Nat, item : Items]
Idle == [pc |-> "idle", item |-> "none", seq |-> 0, to |-> {}]

TypeOK ==
  /\ store \in [Items -> Nat] /\ view \in [Windows -> [Items -> Nat]]
  /\ sender \in [Threads -> [pc : {"idle", "take", "send"}, item : Items \cup {"none"},
                             seq : Nat, to : SUBSET Ways]]
  /\ seq \in Nat \ {0} /\ channel \in [Windows -> Seq(Notices)]
  /\ cursor \in [Windows \cup {Phone} -> Nat]
  /\ deaf \subseteq Windows /\ {due, unheard, overtaken} \subseteq SUBSET (Windows \X Items)
  /\ ring \in Seq(1 .. seq) /\ Len(ring) <= RingCap
  /\ newest \in Nat /\ resets \in Nat
  /\ heard \in [Windows -> [Items -> Nat]]

Init ==
  /\ store = [i \in Items |-> 0]
  /\ sender = [t \in Threads |-> Idle]
  /\ seq = 1
  /\ channel = [w \in Windows |-> <<>>] /\ cursor = [v \in Windows \cup {Phone} |-> 0]
  /\ deaf = {} /\ due = {} /\ view = [w \in Windows |-> store]
  /\ ring = <<>> /\ newest = 0 /\ resets = 0
  /\ heard = view /\ unheard = {} /\ overtaken = {}

At(t, pc) == sender[t].pc = pc

\* The event has gone one of its ways: emit_event takes the windows first, and
\* the bridge, for what a phone asked, the phone.
Sent(t, way) ==
  /\ way \in sender[t].to
  /\ sender[t].to = Ways => (way = Phone <=> t \in PhoneFirst)
  /\ sender' = IF sender[t].to = {way} THEN [sender EXCEPT ![t] = Idle]
                                      ELSE [sender EXCEPT ![t].to = @ \ {way}]

----------------------------------------------------------------------------
\* A thread

\* orchestration_set_state and its like: the state changes first.
Change(t, i) ==
  /\ i \in Tells[t] /\ At(t, "idle")
  /\ seq + Cardinality({u \in Threads : At(u, "take")}) <= MaxSeq
  /\ store' = [store EXCEPT ![i] = @ + 1]
  /\ sender' = [sender EXCEPT ![t] = [pc |-> "take", item |-> i, seq |-> 0, to |-> {}]]
  /\ UNCHANGED <<seq, channel, cursor, deaf, due, view, ring, newest, resets, ghosts>>

\* prepare: the number is taken once the coalescer's lock is released.
Prepare(t) ==
  /\ At(t, "take")
  /\ sender' = [sender EXCEPT ![t] = [pc |-> "send", item |-> @.item, seq |-> seq, to |-> Ways]]
  /\ seq' = seq + 1
  /\ UNCHANGED <<store, channel, cursor, deaf, due, view, ring, newest, resets, ghosts>>

\* app.emit, to every window that listens.
Emit(t) ==
  /\ Sent(t, "windows")
  /\ LET notice == [seq |-> sender[t].seq, item |-> sender[t].item]
     IN channel' = [w \in Windows |-> IF w \in deaf THEN channel[w]
                                      ELSE Append(channel[w], notice)]
  /\ unheard' = unheard \cup (deaf \X {sender[t].item})
  /\ UNCHANGED <<store, seq, cursor, deaf, due, view, ring, newest, resets, heard, overtaken>>

\* Mutant: a full broadcast refuses the new event.
SendRefused(t) ==
  /\ Sent(t, Phone)
  /\ ring' = IF Len(ring) < RingCap THEN Append(ring, sender[t].seq) ELSE ring
  /\ newest' = Max({newest, sender[t].seq})
  /\ UNCHANGED <<store, seq, channel, cursor, deaf, due, view, resets, ghosts>>

\* EVENT_BUS.send: a receiver that lags loses the oldest.
Send(t) ==
  /\ Sent(t, Phone)
  /\ ring' = LET all == Append(ring, sender[t].seq)
             IN IF Len(all) > RingCap THEN Tail(all) ELSE all
  /\ newest' = Max({newest, sender[t].seq})
  /\ UNCHANGED <<store, seq, channel, cursor, deaf, due, view, resets, ghosts>>

----------------------------------------------------------------------------
\* A window

\* Mutant: the numbers are taken to be dense, and a gap to be an error.
NewerDense(v, n) == n = cursor[v] + 1

\* applyEnvelope, applyEvent
Newer(v, n) == n > cursor[v]

\* The window hears an event: it goes to the handlers of its tag, or to nobody.
Deliver(w) ==
  /\ channel[w] # <<>>
  /\ channel' = [channel EXCEPT ![w] = Tail(@)]
  /\ LET n == Head(channel[w])
     IN IF Newer(w, n.seq)
        THEN /\ cursor' = [cursor EXCEPT ![w] = n.seq]
             /\ due' = due \cup {<<w, n.item>>}
             /\ heard' = [heard EXCEPT ![w][n.item] = n.seq]
             /\ UNCHANGED overtaken
        ELSE /\ overtaken' = IF heard[w][n.item] < n.seq /\ n.seq <= cursor[w]
                             THEN overtaken \cup {<<w, n.item>>} ELSE overtaken
             /\ UNCHANGED <<cursor, due, heard>>
  /\ UNCHANGED <<store, sender, seq, deaf, view, ring, newest, resets, unheard>>

\* The load answers: the commands that read the state answer in their order.
Load(w, i) ==
  /\ <<w, i>> \in due
  /\ view' = [view EXCEPT ![w][i] = store[i]]
  /\ due' = due \ {<<w, i>>}
  /\ unheard' = unheard \ {<<w, i>>} /\ overtaken' = overtaken \ {<<w, i>>}
  /\ UNCHANGED <<store, sender, seq, channel, cursor, deaf, ring, newest, resets, heard>>

\* The page of the window starts again: it sends its first loads before the
\* request to listen, and waits for neither.
Reload(w) ==
  /\ resets < MaxResets /\ resets' = resets + 1
  /\ cursor' = [cursor EXCEPT ![w] = 0] /\ heard' = [heard EXCEPT ![w] = [i \in Items |-> 0]]
  /\ channel' = [channel EXCEPT ![w] = <<>>]
  /\ deaf' = deaf \cup {w} /\ due' = due \cup ({w} \X Items)
  /\ unheard' = unheard \ ({w} \X Items) /\ overtaken' = overtaken \ ({w} \X Items)
  /\ UNCHANGED <<store, sender, seq, view, ring, newest>>

\* ensureStarted
Listen(w) ==
  /\ w \in deaf
  /\ deaf' = deaf \ {w}
  /\ UNCHANGED <<store, sender, seq, channel, cursor, due, view, ring, newest, resets, ghosts>>

----------------------------------------------------------------------------
\* A phone

\* handle_socket subscribes, and the phone forgets what it has seen.
Connect ==
  /\ resets < MaxResets /\ resets' = resets + 1
  /\ ring' = <<>> /\ newest' = 0
  /\ cursor' = [cursor EXCEPT ![Phone] = 0]
  /\ UNCHANGED <<store, sender, seq, channel, deaf, due, view, ghosts>>

\* The socket's loop forwards the oldest event it still has.
Forward ==
  /\ ring # <<>>
  /\ ring' = Tail(ring)
  /\ cursor' = [cursor EXCEPT ![Phone] = IF Newer(Phone, Head(ring)) THEN Head(ring) ELSE @]
  /\ UNCHANGED <<store, sender, seq, channel, deaf, due, view, newest, resets, ghosts>>

Next ==
  \/ \E t \in Threads : (\E i \in Items : Change(t, i)) \/ Prepare(t) \/ Emit(t) \/ Send(t)
  \/ \E w \in Windows : Deliver(w) \/ (\E i \in Items : Load(w, i)) \/ Reload(w) \/ Listen(w)
  \/ Connect \/ Forward

Spec == Init /\ [][Next]_vars
----------------------------------------------------------------------------
\* What a viewer is promised

\* Nobody changes or tells anything, window w has heard all, and item i is loaded.
AtRest(w, i) ==
  (\A t \in Threads : At(t, "idle")) /\ channel[w] = <<>> /\ <<w, i>> \notin due

\* Whatever the order in which the threads send, and although a viewer drops
\* what comes late: a window at rest shows each item as it is, unless the event of
\* the last change went out while its page did not listen, or was overtaken by one
\* about another item.  Events of one item may overtake each other, come together
\* and meet loads under way.  A phone that has read all has seen the newest event.
QuietViewersAreCurrent ==
  /\ \A w \in Windows, i \in Items :
       AtRest(w, i) => view[w][i] = store[i] \/ <<w, i>> \in unheard \cup overtaken
  /\ (\A t \in Threads : At(t, "idle")) /\ ring = <<>> => cursor[Phone] = newest

\* eventBus.ts of the events it drops: "esto NO pierde eventos semánticos", since
\* they can only be the same event again.  The code does not keep it: one can also
\* be the event of a thread that was overtaken, and its item stays as it was shown.
NoChangeIsMissed ==
  \A w \in Windows, i \in Items :
    AtRest(w, i) => view[w][i] = store[i] \/ <<w, i>> \in unheard
=============================================================================
