------------------------------- MODULE MCIngress -------------------------------
(* Four small requests of one credential; or two of them with one that has none *)
(* and one of another credential: with a body, one that is too long and does    *)
(* not say so, one that does, one far too long, or one that is public.          *)
EXTENDS Ingress, TLC

CONSTANTS a1, a2, a3, odd, ca, cb

Asked(credential, public, declared, length) ==
  [credential |-> credential, public |-> public, declared |-> declared, length |-> length]
Odd == {Asked(cb, FALSE, 1, 1), Asked(cb, FALSE, 0, 2), Asked(cb, FALSE, 2, 2),
        Asked(cb, FALSE, 3, 3), Asked(None, TRUE, 0, 0)}
Small == Asked(ca, FALSE, 0, 0)
MCShapes ==
  {[r \in Requests |-> CASE r = odd -> o [] r = a3 -> Asked(None, FALSE, 0, 0) [] OTHER -> Small] :
     o \in Odd} \cup {[r \in Requests |-> Small]}
=============================================================================
