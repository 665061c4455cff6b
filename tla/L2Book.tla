------------------------------- MODULE L2Book -------------------------------
(***************************************************************************)
(* The order book of one symbol (market_data/book/l2.py) as operators on   *)
(* values.  A side of the book is a dict from prices to positive           *)
(* quantities; both sides together are one function from slots             *)
(* <<side, price>> to quantities in which 0 stands for an absent price.    *)
(* A depth update gives a quantity to the slots the message lists, 0 to    *)
(* remove the level, and None to the others.                               *)
(***************************************************************************)
EXTENDS Integers, FiniteSets

CONSTANTS
    Prices,     \* the price grid, a finite set of integers
    None        \* Python's None

ASSUME PricesAssumption == Prices \subseteq Int /\ IsFiniteSet(Prices)
ASSUME NoneAssumption == None \notin Int

Sides == {"bid", "ask"}
Slots == Sides \X Prices
Levels == [Slots -> Nat]

\* What the code can be given: quantities are parsed from strings and may be
\* negative, and a message lists any of the slots.
Updates == [Slots -> Int \cup {None}]

NoLevels == [s \in Slots |-> 0]

----------------------------------------------------------------------------
(* BookSide *)

\* p sorts before q on that side.
Better(side, p, q) == IF side = "bid" THEN p > q ELSE p < q

\* The best price of a side as a set, empty when the side is empty.
Best(lv, side) ==
    {p \in Prices : /\ lv[<<side, p>>] # 0
                    /\ \A q \in Prices : lv[<<side, q>>] # 0 => ~Better(side, q, p)}

\* levels(depth): the n best prices of each side, nothing below them.
Top(lv, n) ==
    [s \in Slots |->
        IF Cardinality({q \in Prices : lv[<<s[1], q>>] # 0 /\ Better(s[1], q, s[2])}) < n
        THEN lv[s] ELSE 0]

\* Mutant: a zero quantity is skipped instead of removing the level.
MergeKeepsRemoved(lv, d) ==
    [s \in Slots |-> IF d[s] \in {None, 0} THEN lv[s] ELSE d[s]]

\* Mutant: a quantity is added to the level instead of replacing it.
MergeAdds(lv, d) ==
    [s \in Slots |-> IF d[s] \in {None, 0} THEN IF d[s] = 0 THEN 0 ELSE lv[s] ELSE lv[s] + d[s]]

\* BookSide.apply for every level of the update: the value replaces what was
\* there and a zero removes it.
Merge(lv, d) == [s \in Slots |-> IF d[s] = None THEN lv[s] ELSE d[s]]

\* BookSide.apply raises on the first negative quantity.
Negative(d) == \E s \in Slots : d[s] # None /\ d[s] < 0

----------------------------------------------------------------------------
(* L2Book *)

Crossed(lv) == \E b \in Best(lv, "bid"), a \in Best(lv, "ask") : b >= a

NewBook == [lv |-> NoLevels, lastU |-> -1]

\* Mutants: apply_diff without one of its three checks.
RejectsNotCrossed(bk, e) == e.last <= bk.lastU \/ Negative(e.d)
RejectsNotNegative(bk, e) == e.last <= bk.lastU \/ Crossed(Merge(bk.lv, e.d))
RejectsNotStale(bk, e) == Negative(e.d) \/ Crossed(Merge(bk.lv, e.d))

\* apply_diff raises BookInvariantError; its caller then drops the book, so
\* what a failing call leaves behind is never seen.
Rejects(bk, e) ==
    \/ e.last <= bk.lastU
    \/ Negative(e.d)
    \/ Crossed(Merge(bk.lv, e.d))

Applied(bk, e) == [lv |-> Merge(bk.lv, e.d), lastU |-> e.last]

\* load_snapshot on success and on failure.  A failing call has already
\* replaced the levels and last_u: a negative quantity stops it after some of
\* the earlier levels, a crossed book is noticed after all of them.
LoadRejects(snap) == Negative(snap.d) \/ Crossed(Merge(NoLevels, snap.d))
Loaded(snap) == [lv |-> Merge(NoLevels, snap.d), lastU |-> snap.id]
HalfLoaded(snap) ==
    LET kept == IF Negative(snap.d)
                THEN {S \in SUBSET Slots : \A s \in S : snap.d[s] # None => snap.d[s] >= 0}
                ELSE {Slots}
        Part(S) == [s \in Slots |-> IF s \in S THEN snap.d[s] ELSE None]
    IN  {[lv |-> Merge(NoLevels, Part(S)), lastU |-> snap.id] : S \in kept}

\* The row handed to on_book_update: snapshot(depth).
Snapshot(bk, depth) == [id |-> bk.lastU, lv |-> Top(bk.lv, depth)]
=============================================================================
