--------------------------- MODULE MCBreatheOrder ---------------------------
(* Instances of BreatheOrder for TLC.                                      *)
EXTENDS BreatheOrder

FourApps == 1 .. 4

\* Every network of four apps in which no app is linked to itself, app 1
\* feeds app 2 and only app 2 may feed app 1.
SelfLinks == {<<a, a>> : a \in FourApps}

NoSelfLinks ==
  {G \union {<<1, 2>>} :
     G \in SUBSET ({2} \X {1} \union {1} \X {3, 4}
                   \union ((2 .. 4) \X (2 .. 4) \ SelfLinks))}

\* App 1 feeds each app of a chain of three.
Chains ==
  {{<<1, 2>>, <<1, 3>>, <<1, 4>>, <<c[1], c[2]>>, <<c[2], c[3]>>} :
     c \in SetToSeqs(2 .. 4)}

OneInhaler  == {{1}}
Inhalers    == {{1}, {1, 3}}
Pushers     == {FourApps, FourApps \ {3}}
AllPush     == {FourApps}

=============================================================================
