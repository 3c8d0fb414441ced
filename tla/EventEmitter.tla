----------------------------- MODULE EventEmitter -----------------------------
(***************************************************************************)
(* DomainEventEmitter (domain/events/event-emitter.ts) for one event, with *)
(* the listener that notification-event-listeners.ts registers for it.     *)
(* emit maps over the live array of handlers on the one thread, and a      *)
(* handler may call on, off or clear, or throw, before it returns.  off    *)
(* splices the array and forgets it when it is empty; clear forgets it as  *)
(* it is.  An emit inside a handler is left out.                           *)
(***************************************************************************)
EXTENDS Naturals, Sequences, SequencesExt

CONSTANTS
    Handlers,       \* the handlers that may be subscribed
    Notifier,       \* the one that notification-event-listeners.ts registers
    MaxHandlers     \* bound on the length of the array

ASSUME EmitterAssumption == MaxHandlers \in Nat \ {0} /\ Notifier \in Handlers

VARIABLES
    handlers,   \* the array in the Map, <<>> when the event has none
    emitting,   \* the emit in progress
    subscribed  \* history: how often each handler is subscribed

emitterVars == <<handlers, emitting, subscribed>>

\* walked: the array being mapped over; live: is it still the Map's?; left:
\* the indexes map visits; due: the handlers of the array it began with;
\* disturbed: a handler unsubscribed one.
NoEmit == [pc |-> "none", walked |-> <<>>, live |-> FALSE, i |-> 0, len |-> 0,
           calls |-> <<>>, due |-> <<>>, disturbed |-> FALSE]

EmitterTypeOK ==
    /\ handlers \in Seq(Handlers) /\ Len(handlers) <= MaxHandlers
    /\ subscribed \in [Handlers -> 0..MaxHandlers]
    /\ emitting.pc \in {"none", "walk", "returned", "thrown"}
    /\ emitting.walked \in Seq(Handlers) /\ emitting.calls \in Seq(Handlers)
    /\ emitting.live => emitting.walked = handlers

\* setupNotificationEventListeners
EmitterInit ==
    /\ handlers = <<Notifier>>
    /\ emitting = NoEmit
    /\ subscribed = [h \in Handlers |-> IF h = Notifier THEN 1 ELSE 0]

\* Slip: emit iterates with for-of, which meets handlers subscribed meanwhile.
OnHandler_Seen(h) ==
    /\ Len(handlers) < MaxHandlers
    /\ handlers' = Append(handlers, h)
    /\ emitting' = IF emitting.live THEN [emitting EXCEPT !.walked = handlers', !.len = @ + 1]
                   ELSE emitting
    /\ subscribed' = [subscribed EXCEPT ![h] = @ + 1]

OnHandler(h) ==
    /\ Len(handlers) < MaxHandlers
    /\ handlers' = Append(handlers, h)
    /\ emitting' = IF emitting.live THEN [emitting EXCEPT !.walked = handlers'] ELSE emitting
    /\ subscribed' = [subscribed EXCEPT ![h] = @ + 1]

\* The place of the first h, or 0.
IndexOf(h) == SelectInSeq(handlers, LAMBDA x : x = h)

Without(h) == IF IndexOf(h) = 0 THEN handlers ELSE RemoveAt(handlers, IndexOf(h))

OffHandler(h) ==
    LET new == Without(h) IN
    /\ handlers' = new
    /\ emitting' = IF emitting.live
                   THEN [emitting EXCEPT !.walked = new, !.live = new # <<>>,
                                         !.disturbed = @ \/ new # handlers]
                   ELSE emitting
    /\ subscribed' = [subscribed EXCEPT ![h] = IF @ > 0 THEN @ - 1 ELSE 0]

ClearHandlers ==
    /\ handlers' = <<>>
    /\ emitting' = [emitting EXCEPT !.live = FALSE]
    /\ subscribed' = [h \in Handlers |-> 0]

\* What is called outside an emit or from within a handler.
Call ==
    /\ emitting.pc # "returned" /\ emitting.pc # "thrown"
    /\ (\E h \in Handlers : OnHandler(h) \/ OffHandler(h)) \/ ClearHandlers

BeginEmit ==
    /\ emitting.pc # "walk"
    /\ emitting' = [pc |-> "walk", walked |-> handlers, live |-> handlers # <<>>,
                    i |-> 1, len |-> Len(handlers),
                    calls |-> <<>>, due |-> handlers, disturbed |-> FALSE]
    /\ UNCHANGED <<handlers, subscribed>>

\* The next handler of map, which passes the indexes below the first length
\* that are still there.
Visit ==
    /\ emitting.pc = "walk"
    /\ emitting.i <= emitting.len
    /\ emitting' = [emitting EXCEPT
         !.i = @ + 1,
         !.calls = IF emitting.i <= Len(emitting.walked)
                   THEN Append(@, emitting.walked[emitting.i]) ELSE @]
    /\ UNCHANGED <<handlers, subscribed>>

\* The listeners of notifications catch whatever is thrown inside them.
Catching == {Notifier}

\* A handler throws before its first await: map stops.
Throws ==
    /\ emitting.pc = "walk"
    /\ emitting.calls # <<>> /\ Last(emitting.calls) \notin Catching
    /\ emitting' = [emitting EXCEPT !.pc = "thrown", !.live = FALSE]
    /\ UNCHANGED <<handlers, subscribed>>

\* Promise.all is awaited; whatever rejects, every handler has been called.
Returns ==
    /\ emitting.pc = "walk"
    /\ emitting.i > emitting.len
    /\ emitting' = [emitting EXCEPT !.pc = "returned", !.live = FALSE]
    /\ UNCHANGED <<handlers, subscribed>>

EmitterNext == Call \/ BeginEmit \/ Visit \/ Throws \/ Returns

EmitterSpec == EmitterInit /\ [][EmitterNext]_emitterVars

-----------------------------------------------------------------------------
(* Properties                                                              *)

Times(seq, h) == Cardinality({i \in DOMAIN seq : seq[i] = h})

\* The array holds each handler as often as it is subscribed.
SubscriptionsKept == \A h \in Handlers : Times(handlers, h) = subscribed[h]

\* An emit that returns has called the handlers it found, each in its turn,
\* unless one of them unsubscribed one: then the next is passed over, or one
\* is called twice.
EmitReachesAll ==
    emitting.pc = "returned" /\ ~ emitting.disturbed => emitting.calls = emitting.due

\* Handlers stay subscribed as they asked, and are all called.
HandlersServed == EmitterTypeOK /\ SubscriptionsKept /\ EmitReachesAll
=============================================================================
