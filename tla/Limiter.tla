------------------------------ MODULE Limiter -------------------------------
(***************************************************************************)
(* The class Semaphore of the worker (limiter.js): a counter and a queue   *)
(* of callers that wait.  release() wakes the first of them, but the       *)
(* counter is incremented by the woken caller itself, in a later           *)
(* microtask: between the two, a caller that comes by finds the slot free. *)
(***************************************************************************)
EXTENDS Naturals, Sequences

CONSTANTS Callers

Semaphore == [current : Nat, queue : Seq(Callers)]

NewSemaphore == [current |-> 0, queue |-> <<>>]

(***************************************************************************)
(* acquire() by a caller that finds a slot, and by one that does not.      *)
(***************************************************************************)
Full(s, max) == s.current >= max
Enter(s) == [s EXCEPT !.current = @ + 1]
Wait(s, c) == [s EXCEPT !.queue = Append(@, c)]

(***************************************************************************)
(* release(); and a slip that wakes a waiter only when the semaphore has   *)
(* become empty.                                                           *)
(***************************************************************************)
WokenWhenEmpty(s) == IF s.queue = <<>> \/ s.current > 1 THEN {} ELSE {Head(s.queue)}

Woken(s) == IF s.queue = <<>> THEN {} ELSE {Head(s.queue)}

Release(s) ==
    [current |-> IF s.current > 0 THEN s.current - 1 ELSE 0,
     queue |-> IF s.queue = <<>> THEN <<>> ELSE Tail(s.queue)]
=============================================================================
