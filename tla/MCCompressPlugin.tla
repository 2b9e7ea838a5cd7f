--------------------------- MODULE MCCompressPlugin ---------------------------
(***************************************************************************)
(* Instances of CompressPlugin: a thread that moves data and a thread that *)
(* controls the stream.                                                    *)
(***************************************************************************)
EXTENDS CompressPlugin

MCThreads == {"data", "control"}

MayDo(data, control) ==
  [t \in MCThreads |-> IF t = "data" THEN {"set_params", "avail"} \cup data ELSE control]

(* Everything but stop.                                                    *)
Streaming == MayDo({"write", "read", "poll", "poll_timeout", "drain"},
                   {"start", "pause", "resume", "close"})

(* Stop, as for a seek, and a close that is to end a drain.                *)
Seeking == MayDo({"write", "poll", "drain"}, {"start", "stop", "close_waiting"})

(* A poll without timeout as the only way to wait for space.               *)
Blocking == MayDo({"write", "poll"}, {"start"})

(* Transfers across a stop.                                                *)
Stopping == MayDo({"write"}, {"start", "stop"})

(* agmcompresscap: set the parameters, start, and read.                    *)
Record == MayDo({"read"}, {"start"})
RecordSpec ==
  /\ FairSpec
  /\ WF_vars(agm_compress_set_params("data"))
  /\ WF_vars(agm_compress_start("control"))
====
