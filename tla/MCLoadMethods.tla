---------------------------- MODULE MCLoadMethods ----------------------------
(***************************************************************************)
(* LoadMethods with model values for TLC. P has B < A, listed subclass     *)
(* first, and a category on B; Q links P and has D < M < B, where M has no *)
(* +load; R and S are bundles that link P, R with a class and a category   *)
(* on A, S with a category on B; N has no +load.                           *)
(***************************************************************************)
EXTENDS LoadMethods, TLC

CONSTANTS t1, t2, P, Q, R, S, N, A, B, D, M, E, cB, cA, cS

TwoThreads == {t1, t2}
FiveImages == {P, Q, R, S, N}
LinksOf == (P :> {}) @@ (N :> {}) @@ (Q :> {P, N}) @@ (R :> {P}) @@ (S :> {P})
TwoBundles == {R, S}
FiveClasses == {A, B, D, M, E}
ThreeCategories == {cB, cA, cS}
SuperclassOf == (A :> none) @@ (B :> A) @@ (M :> B) @@ (D :> M) @@ (E :> A)
SuperclassesOf ==
  (A :> {}) @@ (B :> {A}) @@ (M :> {A, B}) @@ (D :> {A, B, M}) @@ (E :> {A})
CategoryClass == (cB :> B) @@ (cA :> A) @@ (cS :> B)
Origin == (A :> P) @@ (B :> P) @@ (cB :> P) @@ (D :> Q) @@ (M :> Q)
            @@ (E :> R) @@ (cA :> R) @@ (cS :> S)
WithLoad == {A, B, D, E}
ClassLists ==
  (P :> <<B, A>>) @@ (Q :> <<D>>) @@ (R :> <<E>>) @@ (S :> <<>>) @@ (N :> <<>>)
CategoryLists ==
  (P :> <<cB>>) @@ (Q :> <<>>) @@ (R :> <<cA>>) @@ (S :> <<cS>>) @@ (N :> <<>>)
=============================================================================
