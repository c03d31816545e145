-------------------------------- MODULE Journal --------------------------------
(***************************************************************************)
(* What module Shutdown leaves out of src/src/jsonl_writer.rs: the files that *)
(* append_rotating_jsonl rotates, with any of its calls failing, and the       *)
(* counters that are logged after the flush.  Its steps are those of Shutdown, *)
(* where the send of a record and its count are two.                          *)
(*                                                                         *)
(* A line is a record, or what a failed write left of one.  The oldest file can  *)
(* always be removed: the code ignores an error there.                         *)
(***************************************************************************)
EXTENDS Shutdown

CONSTANTS
  MaxLines,        \* telemetry and shadow_eval: max_file_bytes
  Retained,        \* retained_files
  Torn

ASSUME JournalAssumption == MaxLines \in Nat \ {0} /\ Retained \in Nat /\ Torn \notin Evals

VARIABLES
  files,           \* files[0] is written to, files[i] is path.i; <<>> when it is not there
  uncounted,       \* sent by a try_write that has not counted it yet
  accepted, errors,    \* counters; that of written is Cardinality(written)
  begun            \* history: begun[e], rotations begun after e was appended

journal == <<files, uncounted, accepted, errors, begun>>

JournalInit ==
  /\ Init
  /\ files = [i \in 0 .. Retained |-> <<>>]
  /\ uncounted = {} /\ accepted = 0 /\ errors = 0
  /\ begun = [e \in Evals |-> 0]

\* Mutant: what is there is removed, as when no file is retained.
Renamed_Removed(f, n) == [i \in 0 .. Retained |-> IF i = 0 THEN <<>> ELSE f[i]]

\* rotate_files after n of its renames, from the oldest.
Renamed(f, n) ==
  [i \in 0 .. Retained |-> IF i > Retained - n THEN f[i - 1]
                           ELSE IF i = Retained - n THEN <<>> ELSE f[i]]

\* What a failed write left takes no room that matters.
Records(f) == {i \in DOMAIN f : f[i] # Torn}
Full == files[0] # <<>> /\ Cardinality(Records(files[0])) + 1 > MaxLines

\* append_rotating_jsonl: it rotates, opens and writes, and may fail at each.  (One
\* that ends after serve has returned is counted by nobody; the counters have been
\* logged by then.)
Opened == IF Full THEN Renamed(files, Retained) ELSE files
Failing ==
  {files, Opened, [Opened EXCEPT ![0] = Append(@, Torn)]}
    \cup (IF Full THEN {Renamed(files, n) : n \in 0 .. Retained} ELSE {})

AppendLine ==
  /\ AppendRecord
  /\ begun' = [e \in Evals |-> IF e \in written /\ Full THEN begun[e] + 1 ELSE begun[e]]
  /\ \/ /\ writing \in written'
        /\ files' = [Opened EXCEPT ![0] = Append(@, writing)]
        /\ UNCHANGED errors
     \/ /\ writing \in lost'
        /\ files' \in Failing
        /\ errors' = errors + 1
  /\ UNCHANGED <<uncounted, accepted>>

\* Mutant: a record is counted whether or not there was room for it.
Sent_CountsDropped(e) ==
  /\ Record(e)
  /\ uncounted' = uncounted \cup {e}
  /\ UNCHANGED <<files, accepted, errors, begun>>

\* try_write: the channel's send, and then its count.
Sent(e) ==
  /\ Record(e)
  /\ uncounted' = uncounted \cup (recorded' \ recorded)
  /\ UNCHANGED <<files, accepted, errors, begun>>

CountAccepted(e) ==
  /\ phase \notin Stopped /\ e \in uncounted
  /\ uncounted' = uncounted \ {e} /\ accepted' = accepted + 1
  /\ UNCHANGED <<vars, files, errors, begun>>

Left(e) == e \notin uncounted /\ Leave(e) /\ UNCHANGED journal

Otherwise(e) ==
  /\ \/ Request(e) \/ Skip(e) \/ TryStart(e) \/ Count(e) \/ Enter(e) \/ NoRecord(e)
     \/ Notify(e) \/ ReleasePending(e) \/ ReleaseSlot(e)
  /\ UNCHANGED journal

JournalNext ==
  \/ \E e \in Evals : Sent(e) \/ CountAccepted(e) \/ Left(e) \/ Otherwise(e)
  \/ AppendLine
  \/ (Signal \/ Serve \/ Tick \/ Take \/ StoreJobs) /\ UNCHANGED journal

JournalSpec == JournalInit /\ [][JournalNext]_<<vars, journal>>
FairJournalSpec == JournalSpec /\ Fairness
-----------------------------------------------------------------------------
\* Whatever fails, and however far a rotation came that failed: no record is in the
\* files twice, and one that was counted as written is in one of them (behind part
\* of another when the write before it failed half way), unless more rotations than
\* files are retained have begun since.
JournalKeeps ==
  LET places(e) == {p \in (0 .. Retained) \X (1 .. MaxLines + Cardinality(Evals)) :
                      p[2] \in DOMAIN files[p[1]] /\ files[p[1]][p[2]] = e}
  IN \A e \in written :
       /\ Cardinality(places(e)) <= 1
       /\ places(e) # {} \/ begun[e] > Retained

\* The counters that serve logs after a shutdown in time are those of one moment:
\* what was accepted was written or is an error, although it is counted only after
\* the worker may have written it.
StatsExact ==
  phase \in Stopped /\ ~forced /\ drained /\ flushed =>
    accepted = Cardinality(written) + errors
=============================================================================
