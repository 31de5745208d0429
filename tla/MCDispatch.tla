----------------------------- MODULE MCDispatch -----------------------------
(* Finite instances of DispatchExecutor: two satellite requests and a ground *)
(* one, and lists that overlap, repeat themselves or may not fit.           *)
EXTENDS DispatchExecutor, TLC

CONSTANTS c1, c2, c3, s1, s2, g1

SomeLists == {<<s1, s1>>, <<s2, s1>>, <<g1, s2>>}
=============================================================================
