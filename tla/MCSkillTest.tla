------------------------------ MODULE MCSkillTest ------------------------------
EXTENDS SkillTest

CONSTANTS agnes, wendy, overpower, overpower2, opportunist, vicious, lucky, bat, dog

InOrder == <<wendy, agnes>>
Owners == overpower :> wendy @@ overpower2 :> agnes @@ opportunist :> wendy @@ vicious :> agnes
              @@ lucky :> wendy @@ bat :> wendy @@ dog :> agnes
Titles == [c \in Cards |-> IF c = overpower2 THEN overpower ELSE c]
Limits == [c \in Cards |-> 1]
CommitIcons == [c \in Cards |-> CASE c \in {overpower, overpower2, vicious} -> {"Combat"}
                                  [] c = opportunist -> Skills [] OTHER -> {}]
Added == [c \in Cards |-> CASE c \in {overpower, overpower2} -> "draw" [] c = opportunist -> "return" [] OTHER -> "none"]
Skilled == [i \in Investigators |-> [s \in Skills |-> IF s = "Intellect" THEN 2 ELSE 1]]
Tested == [k \in Kinds |-> IF k = "Plain" THEN 1 ELSE 2]
Tokens == {"cultist", "tablet", "autofail", "elder sign"}

Seat(health, hand, deck, discard, in_play) ==
    [status |-> "Active", harm |-> 0, health |-> health, hand |-> hand, deck |-> deck,
     discard |-> discard, in_play |-> in_play, removed |-> {}]

\* Decks and discard piles with nothing to draw, a card, and a card once reshuffled;
\* somebody one harm from defeat, and two.
Begun ==
    {wendy :> Seat(2, {opportunist, lucky}, {overpower}, {}, {bat}) @@ agnes :> Seat(1, {overpower2, vicious}, {}, {}, {dog}),
     wendy :> Seat(1, {overpower, lucky}, {}, {opportunist}, {bat}) @@ agnes :> Seat(2, {overpower2, vicious}, {}, {}, {dog})}
================================================================================
