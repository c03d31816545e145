----------------------------- MODULE MCFileLedger -----------------------------
(* Three requests of two credentials, from two processes, on a ledger written  *)
(* before there were scopes.  One dimension is limited, and the other has      *)
(* none and saturates.                                                         *)
EXTENDS FileLedger, TLC

CONSTANTS w1, w2, w3, p1, p2, global, team, requests, tokens

MCHome == w1 :> p1 @@ w2 :> p2 @@ w3 :> p2
MCScope == w1 :> global @@ w2 :> global @@ w3 :> team
MCLimit == requests :> 2
MCCharge == [r \in {w1, w2, w3} |-> requests :> 1 @@ tokens :> 2]
MCLegacy ==
  [total |-> requests :> 1 @@ tokens :> 1, known |-> {},
   used |-> [s \in {global, team} |-> requests :> 0 @@ tokens :> 0]]
=============================================================================
