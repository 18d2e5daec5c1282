------------------------------ MODULE MCEnemyPhase -----------------------------
(***************************************************************************)
(* Three locations in a row, three investigators together or at its ends.  *)
(* Both enemies may be engaged with one of them, or hunt from where they   *)
(* are.  The third may be out already.  Investigators can take few points   *)
(* more, so that an attack may defeat them; a Guard Dog can take two       *)
(* damage and one horror.                                                  *)
(***************************************************************************)
EXTENDS EnemyPhase, TLC

CONSTANTS agnes, roland, wendy, crowd, acolyte, west, middle, east

TheOrder == <<agnes, roland, wendy>>
TheFoes == <<crowd, acolyte>>
InARow == west :> {middle} @@ middle :> {west, east} @@ east :> {middle}
TheBearer == crowd :> None @@ acolyte :> roland
NoBearer == crowd :> None @@ acolyte :> None
AllHunt == {crowd, acolyte}
Sturdy == crowd :> 2 @@ acolyte :> 2
Frail == crowd :> 1 @@ acolyte :> 1
TheAttack == crowd :> <<1, 2>> @@ acolyte :> <<1, 0>>

Foe(l, i, e) == [at |-> l, with |-> i, exhausted |-> e, damage |-> 0]
\* The boards where nobody stands idle.
Placed(where) ==
    LET foes(e) == {Foe(l, i, x) : l \in Locations, i \in Investigators \cup {None}, x \in BOOLEAN}
        fits(e, f) ==
            LET here == {i \in Investigators : where[i] = f.at /\ Pursues(e, i)} IN
            IF f.with = None THEN f.exhausted \/ here = {} ELSE f.with \in here /\ ~f.exhausted
    IN  {crowd :> f @@ acolyte :> g : f \in {h \in foes(crowd) : fits(crowd, h)},
                                      g \in {h \in foes(acolyte) : fits(acolyte, h)}}

Wheres == {agnes :> west @@ roland :> west @@ wendy :> west,
           agnes :> west @@ roland :> east @@ wendy :> west,
           agnes :> west @@ roland :> west @@ wendy :> None}
Lefts == {agnes :> <<2, 3>> @@ roland :> <<1, 2>> @@ wendy :> <<1, 1>>,
          agnes :> <<1, 1>> @@ roland :> <<1, 1>> @@ wendy :> <<1, 1>>}
Assets == {agnes :> None @@ roland :> <<2, 1>> @@ wendy :> None,
           agnes :> <<2, 1>> @@ roland :> None @@ wendy :> None}

TheBoards ==
    UNION {{[at |-> w, enemies |-> foes, left |-> h, asset |-> a, dodge |-> d] :
              foes \in Placed(w), h \in Lefts, a \in Assets, d \in SUBSET Investigators} : w \in Wheres}
================================================================================
