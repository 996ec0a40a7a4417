----------------------------- MODULE EventOutbox -----------------------------
(***************************************************************************)
(* What a runner promises about the events of a conversation, without        *)
(* saying how: an event it has taken into its keeping is never given up,     *)
(* and Center stores nothing else.                                           *)
(*                                                                          *)
(* RunnerSpool implements this specification.                                *)
(***************************************************************************)
CONSTANT Events

VARIABLES
    kept,    \* the events the runner has taken into its keeping so far
    stored   \* those that Center has stored

vars == <<kept, stored>>

Init == kept = {} /\ stored = {}

Keep(e) == kept' = kept \union {e} /\ UNCHANGED stored

\* Several at once: Center may have stored some before the connection is lost.
Store(S) == S \subseteq kept /\ stored' = stored \union S /\ UNCHANGED kept

Next == (\E e \in Events : Keep(e)) \/ (\E S \in SUBSET Events : Store(S))

Spec == Init /\ [][Next]_vars
=============================================================================
