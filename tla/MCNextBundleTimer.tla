------------------------- MODULE MCNextBundleTimer -------------------------
(* Instances of NextBundleTimer for model checking. *)
EXTENDS NextBundleTimer

\* Years of two months; the third year of three has a day more.
ThreeYears == <<4, 2, 4, 2, 4, 3>>

Expr(minute, hour, dom, month, dow) ==
  [minute |-> minute, hour |-> hour, dom |-> dom, month |-> month, dow |-> dow]

All == <<Star>>

Daily == Expr(<<Only(0)>>, <<Only(0)>>, All, All, All)

\* Every minute; every second; both day fields; the last day of the week in one
\* month; the leap day; a day that never comes; a range that does not parse; a
\* day of the month beside "*/1", which lets every day match.
SomeExpressions ==
  {Expr(All, All, All, All, All),
   Expr(<<Every(2)>>, <<Only(1)>>, All, All, All),
   Expr(<<Only(1)>>, All, <<From(2, 4, 2)>>, All, <<Only(2)>>),
   Expr(<<Only(0)>>, <<Only(0), Only(1)>>, All, <<Only(2)>>, <<Only(3)>>),
   Expr(<<Only(1)>>, <<Only(0)>>, <<Only(3)>>, <<Only(2)>>, All),
   Expr(<<Only(1)>>, <<Only(0)>>, <<Only(4)>>, <<Only(2)>>, All),
   Expr(<<Only(0)>>, <<Only(0)>>, <<Only(2)>>, <<Only(1)>>, <<From(2, 1, 1)>>),
   Expr(<<Only(1)>>, <<Only(0)>>, <<Only(3)>>, <<Only(2)>>, <<Every(1)>>)}

\* Places in the three years, a few minutes before days, months or years end.
SomeStarts == {1, 20, 45, 70, 93, 120, 143}

SomeSkews == {-1, 0, 1}
=============================================================================
