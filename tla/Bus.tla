-------------------------------- MODULE Bus ---------------------------------
(***************************************************************************)
(* The event bus: synchronous dispatch over handlers that, while they are  *)
(* called, may subscribe, unsubscribe, emit and throw.                     *)
(*                                                                         *)
(* Everything runs on one stack: a dispatch is a frame, the topmost one is *)
(* the one that runs, and an emission made inside a handler is a frame on  *)
(* top of it.  With an empty stack it is the code outside that acts.       *)
(***************************************************************************)
EXTENDS Naturals, Sequences, SequencesExt

CONSTANTS
    Event,         \* the event names
    Handler,       \* the functions that may be subscribed
    Subscription,  \* the calls of on(), each with the function it returned
    MaxDepth,      \* bound: emissions under way, one inside another
    None

ASSUME MaxDepthAssumption == MaxDepth \in Nat
ASSUME NoneAssumption == None \notin Event

VARIABLES
    handlers,  \* #handlers: event -> its Set, in the order of insertion
    sub,       \* subscription -> what on() was called with, and its flag
    stack,     \* the dispatches under way, the outermost first
    deaf,      \* history: subscriptions another one of the same function cut
    done       \* history: the dispatch that ended in the latest step

vars == <<handlers, sub, stack, deaf, done>>

-----------------------------------------------------------------------------
Unused == [event |-> None, handler |-> None, subscribed |-> FALSE]
Live(s) == sub[s].subscribed

\* A dispatch: the handlers still to call, the ones called, what is inside.
\* `owed' is history: who was to hear the event when it was emitted.
NoDispatch == [event |-> None, todo |-> <<>>, called |-> <<>>,
               inside |-> FALSE, owed |-> {}]

Top == stack[Len(stack)]
SetTop(frame) == stack' = [stack EXCEPT ![Len(stack)] = frame]

\* Code is running that may call the bus: a handler, or nobody's dispatch.
Acting == stack # <<>> => Top.inside

\* The functions that hear an event, by what has been subscribed.
Hearing(e) == {sub[s].handler : s \in {t \in Subscription :
                                         Live(t) /\ t \notin deaf /\ sub[t].event = e}}

-----------------------------------------------------------------------------
(* on, and the function it returns *)

\* Set.add: a function already there keeps its place.
Added(e, h) ==
    IF h \in ToSet(handlers[e]) THEN handlers[e] ELSE Append(handlers[e], h)

On(s, e, h) ==
    /\ Acting /\ sub[s] = Unused
    /\ handlers' = [handlers EXCEPT ![e] = Added(e, h)]
    /\ sub' = [sub EXCEPT ![s] = [event |-> e, handler |-> h, subscribed |-> TRUE]]
    /\ done' = NoDispatch
    /\ UNCHANGED <<stack, deaf>>

\* Mutant: no flag.
AlwaysEnds(s) == TRUE

\* The flag of the subscription.
Ends(s) == Live(s)

\* Unsubscribing takes the function out of the Set, whichever subscriptions
\* put it there.  Called again, it returns.
Off(s) ==
    /\ Acting /\ sub[s] # Unused
    /\ IF Ends(s)
       THEN /\ handlers' = [handlers EXCEPT ![sub[s].event] = RemoveFirst(@, sub[s].handler)]
            /\ sub' = [sub EXCEPT ![s].subscribed = FALSE]
            /\ deaf' = deaf \cup {t \in Subscription \ {s} : Live(s) /\ sub[t] = sub[s]}
       ELSE UNCHANGED <<handlers, sub, deaf>>
    /\ done' = NoDispatch
    /\ UNCHANGED stack

-----------------------------------------------------------------------------
(* emit *)

Emit(e) ==
    /\ Acting /\ Len(stack) < MaxDepth
    /\ stack' = Append(stack, [NoDispatch EXCEPT !.event = e, !.todo = handlers[e],
                                                 !.owed = Hearing(e)])
    /\ done' = NoDispatch
    /\ UNCHANGED <<handlers, sub, deaf>>

\* Mutant: the Set itself is walked, so that what is added meanwhile is met.
OverTheSet(frame) ==
    SelectSeq(handlers[frame.event], LAMBDA h : h \notin ToSet(frame.called))

\* The copy that emit() walks.
Remaining(frame) == frame.todo

Call ==
    /\ stack # <<>> /\ ~Top.inside /\ Remaining(Top) # <<>>
    /\ SetTop([Top EXCEPT !.inside = TRUE,
                          !.called = Append(@, Head(Remaining(Top))),
                          !.todo = Tail(Remaining(Top))])
    /\ done' = NoDispatch
    /\ UNCHANGED <<handlers, sub, deaf>>

Return ==
    /\ stack # <<>> /\ Top.inside
    /\ SetTop([Top EXCEPT !.inside = FALSE])
    /\ done' = NoDispatch
    /\ UNCHANGED <<handlers, sub, deaf>>

\* The error is logged and the loop goes on.
AfterThrow(frame) == [frame EXCEPT !.inside = FALSE]

Throw ==
    /\ stack # <<>> /\ Top.inside
    /\ SetTop(AfterThrow(Top))
    /\ done' = NoDispatch
    /\ UNCHANGED <<handlers, sub, deaf>>

\* emit() returns to the handler, or the code, that called it.
EmitReturns ==
    /\ stack # <<>> /\ ~Top.inside /\ Remaining(Top) = <<>>
    /\ stack' = Front(stack)
    /\ done' = Top
    /\ UNCHANGED <<handlers, sub, deaf>>

-----------------------------------------------------------------------------
Init ==
    /\ handlers = [e \in Event |-> <<>>]
    /\ sub = [s \in Subscription |-> Unused]
    /\ stack = <<>>
    /\ deaf = {}
    /\ done = NoDispatch

Next ==
    \/ \E s \in Subscription, e \in Event, h \in Handler : On(s, e, h)
    \/ \E s \in Subscription : Off(s)
    \/ \E e \in Event : Emit(e)
    \/ Call \/ Return \/ Throw \/ EmitReturns

Spec == Init /\ [][Next]_vars

-----------------------------------------------------------------------------
(* Properties *)

\* At any moment, a dispatch under way or not, an event reaches exactly the
\* functions with a subscription to it that has not been ended: a stale call of
\* an unsubscribe ends nothing but its own subscription (bus.ts:50-52).  The one
\* exception is `deaf': a function subscribed twice is one entry of the Set,
\* and the first of the two to be ended silences the other.
HeardIffSubscribed == \A e \in Event : ToSet(handlers[e]) = Hearing(e)

\* When emit() returns, every handler that was to hear the event when it was
\* emitted has been called, once, and nobody else has: whatever any of them
\* threw, emitted, subscribed or unsubscribed meanwhile (bus.ts:29-32).
EachToldOnce ==
    done # NoDispatch =>
        ToSet(done.called) = done.owed /\ IsInjective(done.called)
=============================================================================
