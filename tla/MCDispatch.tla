------------------------------ MODULE MCDispatch ------------------------------
(* Requests for two models of two providers.  pa takes one request at a time   *)
(* and retries once, embeds the queries, and is preferred by r1 and r3.  What *)
(* dispatch_* is given follows from the requests as module Requests says.      *)
EXTENDS Dispatch, TLC

CONSTANTS r1, r2, r3, m1, m2, pa, pb, k, global, requests,
          Embedding, em, hash, blank, Absent, Bad

MCTrimmed == [x \in {em, hash, blank} |-> x]
Request == INSTANCE Requests WITH Trimmed <- MCTrimmed, Blank <- blank, LocalHash <- hash
MCConfig == [cache |-> [enabled |-> TRUE, embedding_model |-> Embedding], auth |-> [tokens |-> {}]]
MCAsked(endpoint, stream, ids) ==
  [endpoint |-> endpoint, automatic |-> TRUE, turns |-> <<[role |-> "user", content |-> "x"]>>,
   input |-> "x", options |-> {}, ids |-> ids, stream |-> stream, label |-> "high"]
MCShape == [r \in Requests |-> Request!DispatchOf(MCConfig,
             IF r = r1 THEN MCAsked("chat", FALSE, <<>>)
             ELSE IF r = r2 THEN MCAsked("chat", TRUE, "user" :> k)
             ELSE MCAsked("responses", FALSE, "user" :> "blank" @@ "thread_id" :> k))]
MCStreaming == {r \in Requests : MCShape[r].streaming}
MCCache == [r \in Requests |-> MCShape[r].cache]
MCKey == [r \in Requests |-> IF MCShape[r].key = Absent THEN NoKey ELSE MCShape[r].key]

MCProviderOf == m1 :> pa @@ m2 :> pb
MCPlan == [r \in Requests |-> IF r \notin Automatic THEN <<m1>>
                              ELSE IF r = r2 THEN <<m2, m1>> ELSE <<m1, m2>>]
MCMaxConcurrency == pa :> 1
MCRetries == pa :> 1 @@ pb :> 0
MCLimit == requests :> 2
MCCredential == [r \in Requests |-> global]
MCCharge == [x \in Requests \X Models |-> requests :> 1]
=============================================================================
