--------------------------------- MODULE Timing --------------------------------
(***************************************************************************)
(* The timing machinery of the engine as operators on the continuation     *)
(* stack, top first: the coordinator of one triggering condition and its   *)
(* cells (coordinator.rs), the window that offers reactions to a cell      *)
(* (reaction_windows.rs), and the base an effect resolves above            *)
(* (evaluator.rs).  What a cell finds is its caller's to say: a candidate  *)
(* is a record with at least its controller, `who`.                        *)
(***************************************************************************)
EXTENDS Sequences, Naturals, FiniteSetsExt

EmitEvent(event) ==
    [kind |-> "EmitEvent", event |-> event, step |-> "When", prevented |-> FALSE]
TimingPoint(event, bucket, forced) ==
    [kind |-> "TimingPoint", event |-> event, bucket |-> bucket, sub |-> "Forced", forced |-> forced]
Window(event, bucket, candidates) ==
    [kind |-> "TimingPointWindow", event |-> event, bucket |-> bucket,
     candidates |-> candidates, passed |-> {}]
EffectBase == [kind |-> "EffectBase", parked |-> <<>>]

Under(s) == Tail(s)

------------------------------------------------------------------------------
(* The coordinator: When, the condition's resolution, At, After. *)

StepAfter(step) ==
    CASE step = "When" -> "ResolveCondition" [] step = "ResolveCondition" -> "At" [] step = "At" -> "After"

\* advance_or_finish_emit, with the coordinator on top.
AdvanceOrFinish(s) ==
    IF Head(s).step = "After" THEN Under(s)
    ELSE <<[Head(s) EXCEPT !.step = StepAfter(@)]>> \o Under(s)

FinishTimingPoint(s) == AdvanceOrFinish(Under(s))

SetSub(s, sub) == <<[Head(s) EXCEPT !.sub = sub]>> \o Under(s)

Coordinators(s) == {k \in DOMAIN s : s[k].kind = "EmitEvent"}

\* Whether the condition whose cell is on top has been prevented.
ConditionIsPrevented(s) == Coordinators(s) # {} /\ s[Min(Coordinators(s))].prevented

\* Effect::Cancel: the topmost condition whose When cell is open is prevented.
CancelCurrentImpact(s) ==
    LET open == {k \in Coordinators(s) : s[k].step = "When"}
    IN  IF open = {} THEN s ELSE [s EXCEPT ![Min(open)].prevented = TRUE]

------------------------------------------------------------------------------
(* An effect's At and After cells wait until the whole effect has resolved. *)

BoundsEffectDeferral(f) ==
    f.kind \in {"TimingPoint", "TimingPointWindow", "SkillTest", "AdvanceReverse", "Elimination"}

\* The bases beneath the top with no boundary above them.
OpenBases(s) ==
    {k \in 2..Len(s) :
        s[k].kind = "EffectBase" /\ \A j \in 2..k : ~BoundsEffectDeferral(s[j])}

Parks(s) == OpenBases(s) # {}

Parked(s) ==
    LET base == Max(OpenBases(s))
    IN  Under([s EXCEPT ![base].parked = Append(@, Head(s))])

\* Mutant: a base is popped like any other frame.
CloseEffectBase_Dropped(s) == Under(s)

\* The first parked comes back on top.
CloseEffectBase(s) == Head(s).parked \o Under(s)

------------------------------------------------------------------------------
(* A window's candidates and the passes of those they are offered to. *)

Holders(w) == {c.who : c \in w.candidates} \ w.passed

\* Candidates that lapsed, or whose condition was prevented, are withdrawn.
Withdrawn(s, offered) ==
    LET w == Head(s)
        kept == IF w.bucket = "When" /\ ConditionIsPrevented(s) THEN {} ELSE w.candidates \cap offered
    IN  <<[w EXCEPT !.candidates = kept]>> \o Under(s)

PassedBy(s, i) == <<[Head(s) EXCEPT !.passed = @ \cup {i}]>> \o Under(s)
Fired(s, c) == <<[Head(s) EXCEPT !.candidates = @ \ {c}, !.passed = {}]>> \o Under(s)
================================================================================
