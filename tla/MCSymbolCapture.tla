-------------------------- MODULE MCSymbolCapture --------------------------
(* Four histories over three prices: a falling market, a rising one, one in *)
(* which quantities change and a level comes back, and one that is three    *)
(* levels deep on one side, deeper than a REST answer of two levels.  There *)
(* a book may lack a level, though none that a row of two levels shows.     *)
EXTENDS SymbolCapture

CONSTANT Histories     \* which of the four

\* The book with these quantities at prices 1, 2, 3.
Book(bids, asks) ==
    [s \in Slots |-> IF s[1] = "bid" THEN bids[s[2]] ELSE asks[s[2]]]

Falling == << Book(<<0,1,0>>, <<0,0,1>>), Book(<<1,0,0>>, <<0,1,0>>),
              Book(<<1,0,0>>, <<0,1,1>>), Book(<<1,0,0>>, <<0,0,2>>),
              Book(<<1,0,0>>, <<0,1,2>>) >>
Rising  == << Book(<<1,1,0>>, <<0,0,1>>), Book(<<1,0,0>>, <<0,1,1>>),
              Book(<<1,0,0>>, <<0,0,1>>), Book(<<1,2,0>>, <<0,0,1>>),
              Book(<<0,2,0>>, <<0,0,1>>) >>
Flapping == << Book(<<1,0,0>>, <<0,1,1>>), Book(<<2,0,0>>, <<0,1,2>>),
               Book(<<0,0,0>>, <<0,1,3>>), Book(<<2,0,0>>, <<0,0,3>>),
               Book(<<2,0,0>>, <<0,1,3>>) >>

Deep == << Book(<<0,0,0>>, <<1,1,1>>), Book(<<0,0,0>>, <<1,2,1>>),
           Book(<<0,0,0>>, <<1,2,2>>), Book(<<0,0,0>>, <<0,2,3>>),
           Book(<<0,0,0>>, <<0,2,1>>) >>

All == <<Falling, Rising, Flapping, Deep>>
MCTimelines == {[i \in 0..MaxId |-> All[h][i + 1]] : h \in Histories}

\* A crossed answer and one with a negative quantity.
MCBadAnswers ==
    {[id |-> 1, d |-> Book(<<None, 1, None>>, <<1, None, None>>)],
     [id |-> 1, d |-> Book(<<1, -1, None>>, <<None, None, None>>)]}
=============================================================================
