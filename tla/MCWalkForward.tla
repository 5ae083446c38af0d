--------------------------- MODULE MCWalkForward ---------------------------
(***************************************************************************)
(* Data sets of eight rows whose times go up by at most one, so that       *)
(* decisions tie at a boundary.  Markets 1 and 2 have opposite outcomes    *)
(* and come first, so that two classes can be known at a cutoff, and some  *)
(* come back later; labels follow a market's last row by one or two.       *)
(***************************************************************************)
EXTENDS WalkForward

N == 8
TimesOf ==
  { [i \in 1..N |-> 1 + Cardinality({j \in rises : j <= i})] : rises \in SUBSET (2..N) }
Later == { <<3, 3, 3, 3, 3>>, <<3, 3, 4, 4, 4>>, <<3, 4, 3, 4, 4>>, <<4, 4, 3, 3, 4>>, <<1, 3, 3, 2, 4>>, <<2, 3, 2, 4, 3>> }
MarketsOfRows == { <<1, 2, m>> \o f : m \in 1..3, f \in Later }

LastTime(t, f, m) == LET S == {t[i] : i \in {i \in 1..N : f[i] = m}} IN CHOOSE x \in S : \A y \in S : y <= x

MCDatasets ==
  { [i \in 1..N |->
      [market |-> <<"m1", "m2", "m3", "m4">>[f[i]], block |-> i, log |-> 0, time |-> t[i],
       resolution |-> LastTime(t, f, f[i]), available |-> LastTime(t, f, f[i]) + delay, outcome |-> f[i] # 2,
       probability |-> <<1, 2>>, flow |-> <<0, 1>>, depth |-> 1, seconds |-> 0, lag |-> 0, finality |-> 0]] :
    t \in TimesOf, f \in MarketsOfRows, delay \in 1..2 }

MCConfigs == [initial : {3, 4}, embargo : {0, 1}, test : 1..2, step : 1..2]
=============================================================================
