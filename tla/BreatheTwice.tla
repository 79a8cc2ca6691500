---------------------------- MODULE BreatheTwice ----------------------------
(***************************************************************************)
(* compute_breathe_order() run twice on the same network: what its result  *)
(* depends on.  The variables of the second run have names ending in 2.    *)
(***************************************************************************)
EXTENDS BreatheOrder

VARIABLES order2, resolved2, inhale2, exhale2, dependents2, selected2, exhaled2,
          loop2, work2, pc2

vars2 == <<order2, resolved2, inhale2, exhale2, dependents2, selected2,
           exhaled2, loop2, work2, pc2>>

Again == INSTANCE BreatheOrder
           WITH order      <- order2,      resolved <- resolved2,
                inhale     <- inhale2,     exhale   <- exhale2,
                dependents <- dependents2, selected <- selected2,
                exhaled    <- exhaled2,    loop     <- loop2,
                work       <- work2,       pc       <- pc2

TwiceInit == Init /\ Again!Init

TwiceNext ==
  \/ Next /\ UNCHANGED vars2
  \/ pc = "done" /\ Again!Next /\ UNCHANGED vars

TwiceSpec == TwiceInit /\ [][TwiceNext]_<<vars, vars2>>

\* "is deterministic with regard to the configuration" (engine.rs:224): both
\* runs give the same breathe order.
Deterministic ==
  pc = "done" /\ pc2 = "done" => inhale = inhale2 /\ exhale = exhale2

=============================================================================
