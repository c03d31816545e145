------------------------------ MODULE AtomicStore ------------------------------
(***************************************************************************)
(* What a file-backed store promises its callers, with no files in it: each *)
(* operation reads and replaces the whole content in one step, whatever     *)
(* process it runs in.  A write becomes stable some time after it is        *)
(* applied; an outage may undo what is not stable yet, and only a stable     *)
(* write is ever reported as done.                                          *)
(***************************************************************************)
CONSTANTS
  Ops,             \* operations, each performed at most once
  Initial,         \* the content before the first of them
  Writes(_, _),    \* Writes(c, r): operation r, reading c, goes on to write
  Written(_, _)    \* Written(c, r): the content it then writes

VARIABLES content, applied, stable, stableApplied, declined, answer

vars == <<content, applied, stable, stableApplied, declined, answer>>

Answers == {"pending", "ok", "declined", "error", "gone"}

Init ==
  /\ content = Initial /\ stable = Initial
  /\ applied = {} /\ stableApplied = {} /\ declined = {}
  /\ answer = [r \in Ops |-> "pending"]

Apply(r) ==
  /\ r \notin applied
  /\ Writes(content, r)
  /\ content' = Written(content, r)
  /\ applied' = applied \cup {r}
  /\ UNCHANGED <<stable, stableApplied, declined, answer>>

Decline(r) ==
  /\ ~Writes(content, r)
  /\ declined' = declined \cup {r}
  /\ UNCHANGED <<content, applied, stable, stableApplied, answer>>

Stabilize ==
  /\ stable' = content
  /\ stableApplied' = applied
  /\ UNCHANGED <<content, applied, declined, answer>>

\* A caller is told of its operation, or gives up on it.
Reply(r, a) ==
  /\ answer[r] = "pending"
  /\ a = "ok" => r \in stableApplied
  /\ a = "declined" => r \in declined
  /\ answer' = [answer EXCEPT ![r] = a]
  /\ UNCHANGED <<content, applied, stable, stableApplied, declined>>

\* Callers R are lost, and with them whatever was not stable, or none of it.
Outage(R) ==
  /\ answer' = [r \in Ops |->
       IF r \in R /\ answer[r] = "pending" THEN "gone" ELSE answer[r]]
  /\ \/ UNCHANGED <<content, applied, stable, stableApplied>>
     \/ /\ stable' = content /\ stableApplied' = applied
        /\ UNCHANGED <<content, applied>>
     \/ /\ content' = stable /\ applied' = stableApplied
        /\ UNCHANGED <<stable, stableApplied>>
  /\ UNCHANGED declined

Next ==
  \/ \E r \in Ops : Apply(r) \/ Decline(r)
  \/ \E r \in Ops, a \in Answers : Reply(r, a)
  \/ Stabilize
  \/ \E R \in SUBSET Ops : Outage(R)

Spec == Init /\ [][Next]_vars
=============================================================================
