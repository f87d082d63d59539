------------------------------ MODULE Versions ------------------------------
(***************************************************************************)
(* The version of an engine aggregate is the id of the Redis stream entry  *)
(* that caused it: a millisecond timestamp and a sequence number inside    *)
(* that millisecond.  The code orders versions in two places, in Python    *)
(* (Version.is_newer) and in SQL (a row comparison in the upsert); both    *)
(* are translated here and EngineServiceProofs shows that they agree.      *)
(***************************************************************************)
EXTENDS Integers

StreamId == Nat \X Nat                 \* the text "ts-seq", as its two numbers

Version == [ts : Nat, seq : Nat]

\* Mutant of FromStreamId: only the timestamp is kept.
FromStreamIdNoSeq(sid) == [ts |-> sid[1], seq |-> 0]

FromStreamId(sid) == [ts |-> sid[1], seq |-> sid[2]]

ToStreamId(v) == <<v.ts, v.seq>>

\* self.is_newer(version): the ARGUMENT is newer than the stored version.
IsNewer(self, version) ==
    ~ \/ version.ts < self.ts
      \/ version.ts = self.ts /\ version.seq <= self.seq

\* The WHERE of the upsert, (version_timestamp, version_seq) < (ts, seq):
\* PostgreSQL compares row values left to right.
RowOlder(stored, version) ==
    \/ stored.ts < version.ts
    \/ stored.ts = version.ts /\ stored.seq < version.seq
=============================================================================
