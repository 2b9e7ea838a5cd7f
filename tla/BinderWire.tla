----------------------------- MODULE BinderWire -----------------------------
(***************************************************************************)
(* The parcels of the binder interface (ipc_proxy_server.cpp, agm_callback *)
(* .cpp).  A parcel is words without types: what a reader gets depends on  *)
(* where it is and on how much it reads, so each side is given as the      *)
(* fields it writes or reads, in order.                                    *)
(***************************************************************************)
EXTENDS Tables, SequencesExt

(* A field: how it is written, what it carries, and for a blob the size    *)
(* that says how long it is.                                               *)
U32(x) == [t |-> "u32", v |-> x, n |-> ""]
I64(x) == [t |-> "i64", v |-> x, n |-> ""]
Bool(x) == [t |-> "bool", v |-> x, n |-> ""]
Raw(x) == [t |-> "raw", v |-> x, n |-> ""]
StrongBinder(x) == [t |-> "binder", v |-> x, n |-> ""]
Blob(x, n) == [t |-> "blob", v |-> x, n |-> n]

Rc == U32("rc")

(* Words of a field: a pointer and a 64-bit number take two, a bool is     *)
(* padded to one, a blob has a word before its contents.                   *)
Width(f, size) ==
  CASE f.t \in {"u32", "bool"} -> 1
    [] f.t \in {"i64", "raw"} -> 2
    [] f.t = "binder" -> 6
    [] f.t = "blob" -> 1 + size

(* A word knows whose it is.                                               *)
WordsOf(f, sz) ==
  [i \in 1..Width(f, IF f.n = "" THEN 0 ELSE sz[f.n]) |-> [of |-> f.v, nth |-> i]]

WriteParcel(fields, sz) == FlattenSeq([k \in DOMAIN fields |-> WordsOf(fields[k], sz)])

Zero == "zero"    \* what a read past the end returns
Torn == "torn"    \* what a read across fields returns

(* Reading one field where the fields before it have led: its value, the   *)
(* place of the next, and the sizes that are known then.  A blob's first   *)
(* word is read even where its contents are not there.                     *)
ReadField(acc, f, words, sz) ==
  LET w == Width(f, IF f.n \in acc.known THEN sz[f.n] ELSE 0)
      next == acc.at + w
      past == next > Len(words) + 1
      x == words[acc.at].of
      v == IF past THEN Zero
           ELSE IF /\ \A i \in 1..w : words[acc.at + i - 1] = [of |-> x, nth |-> i]
                   /\ next <= Len(words) => words[next] # [of |-> x, nth |-> w + 1]
           THEN x ELSE Torn
  IN [at |-> IF ~past THEN next
             ELSE IF f.t = "blob" /\ acc.at <= Len(words) THEN acc.at + 1 ELSE acc.at,
      v |-> v, known |-> acc.known \cup {v}]

(* What the fields come to, read one after the other by a reader that      *)
(* knows some sizes beforehand.                                            *)
ReadParcel(fields, words, sz, known) ==
  LET acc[k \in 0..Len(fields)] ==
        IF k = 0 THEN [at |-> 1, v |-> Zero, known |-> known]
        ELSE ReadField(acc[k - 1], fields[k], words, sz)
  IN [k \in DOMAIN fields |-> <<fields[k].v, acc[k].v>>]

-----------------------------------------------------------------------------
(* The proxy: what each call sends and what it takes from the reply.       *)
Call(sends, takes) == [sends |-> sends, takes |-> takes]

OnHandle == Call(<<I64("handle")>>, <<Rc>>)

BpAgmService_config == [
  SET_MEDIA_CONFIG |-> Call(<<U32("audio_intf"), U32("sizeof_media"),
                              Blob("media_config", "sizeof_media")>>, <<Rc>>),
  SESSION_SET_CONFIG |-> Call(<<I64("handle"), U32("sizeof_session"),
                                Blob("session_config", "sizeof_session"), U32("sizeof_media"),
                                Blob("media_config", "sizeof_media"), U32("sizeof_buffer"),
                                Blob("buffer_config", "sizeof_buffer")>>, <<Rc>>),
  INIT |-> Call(<<>>, <<Rc>>),
  LOOPBACK |-> Call(<<U32("capture_session_id"), U32("playback_session_id"), Bool("state")>>,
                    <<Rc>>),
  AUDIO_INTF_SET_META |-> Call(<<U32("audio_intf"), U32("size"), Blob("metadata", "size")>>,
                               <<Rc>>),
  SESSION_SET_META |-> Call(<<U32("session_id"), U32("size"), Blob("metadata", "size")>>, <<Rc>>),
  SESSION_AUDIO_INTF_SET_META |-> Call(<<U32("session_id"), U32("audio_intf"), U32("size"),
                                         Blob("metadata", "size")>>, <<Rc>>)]

BpAgmService_control == [
  OPEN |-> Call(<<U32("session_id")>>, <<I64("handle"), Rc>>),
  CLOSE |-> OnHandle, PREPARE |-> OnHandle, START |-> OnHandle, STOP |-> OnHandle,
  PAUSE |-> OnHandle, RESUME |-> OnHandle,
  CONNECT |-> Call(<<U32("session_id"), U32("audio_intf"), Bool("state")>>, <<Rc>>),
  GET_BUFF_CNT |-> Call(<<I64("handle"), U32("dir")>>, <<Rc>>)]

(* A list is asked for with its size first, and with no room for it to     *)
(* learn the size.                                                         *)
BpAgmService_data == [
  READ |-> Call(<<I64("handle"), U32("size")>>, <<Rc, U32("given"), Blob("buff", "given")>>),
  WRITE |-> Call(<<I64("handle"), U32("size"), Blob("buff", "size")>>, <<U32("given"), Rc>>),
  GET_AIF_LIST_SIZE |-> Call(<<U32("no_size"), I64("aif_list")>>, <<U32("given"), Rc>>),
  GET_AIF_LIST |-> Call(<<U32("size"), I64("aif_list")>>, <<Blob("aif_list", "size"), Rc>>)]

BpAgmService_events == [
  REG_EVENT |-> Call(<<U32("session_id"), U32("module_instance_id"), U32("event_id"),
                       U32("payload_size"), U32("is_register"), U32("size"),
                       Blob("event_config_payload", "size")>>, <<Rc>>),
  REG_CB |-> Call(<<U32("session_id"), Raw("cb"), U32("event"), I64("client_data"),
                    StrongBinder("clbk")>>, <<Rc>>),
  GET_TAG_MODULE_INFO_SIZE |-> Call(<<I64("payload"), U32("size"), U32("session_id"),
                                      U32("aif_id")>>, <<U32("given"), Rc>>),
  GET_TAG_MODULE_INFO |-> Call(<<I64("payload"), U32("size"), U32("session_id"), U32("aif_id")>>,
                               <<Blob("payload", "size"), Rc>>)]

BpAgmService_params == [
  SESSION_AIF_SET_PARAMS |-> Call(<<U32("session_id"), U32("aif_id"), U32("size"),
                                    Blob("payload", "size")>>, <<Rc>>),
  AIF_SET_PARAMS |-> Call(<<U32("aif_id"), U32("size"), Blob("payload", "size")>>, <<Rc>>),
  SESSION_SET_PARAMS |-> Call(<<U32("session_id"), U32("size"), Blob("payload", "size")>>,
                              <<Rc>>),
  SET_PARAMS_WITH_TAG |-> Call(<<U32("session_id"), U32("aif_id"), U32("tag"), U32("size"),
                                 Blob("tkv", "size")>>, <<Rc>>)]

BpAgmService_queries == [
  EOS |-> OnHandle,
  GET_SESSION_TIME |-> Call(<<I64("handle"), I64("timestamp")>>, <<I64("timestamp"), Rc>>),
  SET_ECREF |-> Call(<<U32("session_id"), U32("aif_id"), Bool("state")>>, <<Rc>>),
  SET_CALIBRATION |-> Call(<<U32("session_id"), U32("audio_intf"), U32("size"),
                             Blob("ckv", "size")>>, <<Rc>>),
  GET_PARAMS |-> Call(<<U32("session_id"), U32("size"), Blob("payload", "size")>>,
                      <<Blob("payload", "size"), Rc>>),
  BUF_TSTAMP |-> Call(<<U32("session_id")>>, <<I64("timestamp"), Rc>>)]

(* The other way: the server's proxy of a client's callback, which takes   *)
(* no reply.                                                               *)
BpCallback == [
  EVENT |-> Call(<<U32("session_id"), U32("source_module_id"), U32("event_id"), U32("size"),
                   Blob("event_payload", "size"), I64("client_data"), Raw("cb_func")>>, <<>>)]

Bp ==
  Join(<<BpAgmService_config, BpAgmService_control, BpAgmService_data,
         BpAgmService_events, BpAgmService_params, BpAgmService_queries, BpCallback>>)

-----------------------------------------------------------------------------
(* The stub: what each case reads, and what it replies when the service    *)
(* has succeeded, when it has failed, and when it has no memory for the    *)
(* call.  The values that come back are the service's.                     *)
Case(reads, done) == [reads |-> reads, done |-> done, failed |-> done, nomem |-> done]

Allocates(case, nomem) == [case EXCEPT !.nomem = nomem]

HandleCase == Case(<<I64("handle")>>, <<Rc>>)

BnAgmService_meta == [
  OPEN |-> Case(<<U32("session_id")>>, <<I64("handle"), Rc>>),
  SESSION_SET_META |-> Case(<<U32("session_id"), U32("size"), Blob("metadata", "size")>>, <<Rc>>),
  SESSION_AUDIO_INTF_SET_META |-> Case(<<U32("session_id"), U32("audio_intf"), U32("size"),
                                         Blob("metadata", "size")>>, <<Rc>>),
  INIT |-> Case(<<>>, <<Rc>>),
  GET_BUFF_CNT |-> Case(<<I64("handle"), U32("dir")>>, <<Rc>>),
  AUDIO_INTF_SET_META |-> Case(<<U32("audio_intf"), U32("size"), Blob("metadata", "size")>>,
                               <<Rc>>)]

BnAgmService_control == [
  LOOPBACK |-> Case(<<U32("capture_session_id"), U32("playback_session_id"), U32("state")>>,
                    <<Rc>>),
  CLOSE |-> HandleCase, PREPARE |-> HandleCase, START |-> HandleCase, STOP |-> HandleCase,
  PAUSE |-> HandleCase, RESUME |-> HandleCase,
  CONNECT |-> Case(<<U32("session_id"), U32("audio_intf"), U32("state")>>, <<Rc>>)]

\* Mutant: the media format is read before the session's configuration.
BugConfigOrder == [
  SET_MEDIA_CONFIG |-> Case(<<U32("audio_intf"), U32("sizeof_media"),
                              Blob("media_config", "sizeof_media")>>, <<Rc>>),
  SESSION_SET_CONFIG |-> Case(<<I64("handle"), U32("sizeof_media"),
                                Blob("media_config", "sizeof_media"), U32("sizeof_session"),
                                Blob("session_config", "sizeof_session"), U32("sizeof_buffer"),
                                Blob("buffer_config", "sizeof_buffer")>>, <<Rc>>)]

BnAgmService_config == [
  SET_MEDIA_CONFIG |-> Case(<<U32("audio_intf"), U32("sizeof_media"),
                              Blob("media_config", "sizeof_media")>>, <<Rc>>),
  SESSION_SET_CONFIG |-> Case(<<I64("handle"), U32("sizeof_session"),
                                Blob("session_config", "sizeof_session"), U32("sizeof_media"),
                                Blob("media_config", "sizeof_media"), U32("sizeof_buffer"),
                                Blob("buffer_config", "sizeof_buffer")>>, <<Rc>>)]

\* Mutant: the count of a read comes before its result.
BugReadReply == [
  READ |-> [Case(<<I64("handle"), U32("size")>>, <<U32("given"), Rc, Blob("buff", "given")>>)
              EXCEPT !.failed = <<U32("given"), Rc>>, !.nomem = <<Rc>>],
  WRITE |-> Allocates(Case(<<I64("handle"), U32("size"), Blob("buff", "size")>>,
                           <<U32("given"), Rc>>), <<Rc>>)]

(* A read that fails replies with its result alone; a write that has no    *)
(* memory leaves out the count that its proxy takes first.                 *)
BnAgmService_data == [
  READ |-> [Case(<<I64("handle"), U32("size")>>, <<Rc, U32("given"), Blob("buff", "given")>>)
              EXCEPT !.failed = <<Rc>>, !.nomem = <<Rc>>],
  WRITE |-> Allocates(Case(<<I64("handle"), U32("size"), Blob("buff", "size")>>,
                           <<U32("given"), Rc>>), <<Rc>>)]

(* Six cases return an error from the stub when they have no memory: the   *)
(* reply then carries nothing, whatever was written to it.                 *)
BnAgmService_lists == [
  GET_AIF_LIST_SIZE |-> Case(<<U32("no_size"), I64("aif_list")>>, <<U32("given"), Rc>>),
  GET_AIF_LIST |-> Allocates(Case(<<U32("size")>>, <<Blob("aif_list", "given"), Rc>>), <<>>),
  REG_EVENT |-> Allocates(Case(<<U32("session_id"), U32("module_instance_id"), U32("event_id"),
                                 U32("payload_size"), U32("is_register"), U32("size"),
                                 Blob("event_config_payload", "size")>>, <<Rc>>), <<>>),
  REG_CB |-> Allocates(Case(<<U32("session_id"), Raw("cb"), U32("event"), I64("client_data"),
                              StrongBinder("clbk")>>, <<Rc>>), <<>>)]

BnAgmService_tags == [
  GET_TAG_MODULE_INFO_SIZE |-> Case(<<I64("payload"), U32("size"), U32("session_id"),
                                      U32("aif_id")>>, <<U32("given"), Rc>>),
  GET_TAG_MODULE_INFO |-> Allocates(Case(<<I64("payload"), U32("size"), U32("session_id"),
                                           U32("aif_id")>>,
                                         <<Blob("payload", "given"), Rc>>), <<>>),
  SESSION_AIF_SET_PARAMS |-> Allocates(Case(<<U32("session_id"), U32("aif_id"), U32("size"),
                                              Blob("payload", "size")>>, <<Rc>>), <<>>),
  AIF_SET_PARAMS |-> Allocates(Case(<<U32("aif_id"), U32("size"), Blob("payload", "size")>>,
                                    <<Rc>>), <<>>)]

BnAgmService_params == [
  SESSION_SET_PARAMS |-> Case(<<U32("session_id"), U32("size"), Blob("payload", "size")>>,
                              <<Rc>>),
  SET_PARAMS_WITH_TAG |-> Case(<<U32("session_id"), U32("aif_id"), U32("tag"), U32("size"),
                                 Blob("tkv", "size")>>, <<Rc>>),
  SET_ECREF |-> Case(<<U32("session_id"), U32("aif_id"), U32("state")>>, <<Rc>>),
  SET_CALIBRATION |-> Case(<<U32("session_id"), U32("audio_intf"), U32("size"),
                             Blob("ckv", "size")>>, <<Rc>>)]

BnAgmService_queries == [
  EOS |-> HandleCase,
  GET_SESSION_TIME |-> Case(<<I64("handle"), I64("timestamp")>>, <<I64("timestamp"), Rc>>),
  GET_PARAMS |-> Allocates(Case(<<U32("session_id"), U32("size"), Blob("payload", "size")>>,
                                <<Blob("payload", "size"), Rc>>), <<Rc>>),
  BUF_TSTAMP |-> Case(<<U32("session_id")>>, <<I64("timestamp"), Rc>>)]

BnCallback == [
  EVENT |-> Case(<<U32("session_id"), U32("source_module_id"), U32("event_id"), U32("size"),
                   Blob("event_payload", "size"), I64("client_data"), Raw("cb_func")>>, <<>>)]

Bn ==
  Join(<<BnAgmService_meta, BnAgmService_control, BnAgmService_config, BnAgmService_data,
         BnAgmService_lists, BnAgmService_tags, BnAgmService_params, BnAgmService_queries,
         BnCallback>>)

(* The cases that allocate.                                                *)
AllocatingCases ==
  {"SESSION_SET_META", "SESSION_AUDIO_INTF_SET_META", "AUDIO_INTF_SET_META", "READ", "WRITE",
   "GET_AIF_LIST", "REG_EVENT", "REG_CB", "GET_TAG_MODULE_INFO", "SESSION_AIF_SET_PARAMS",
   "AIF_SET_PARAMS", "SESSION_SET_PARAMS", "SET_PARAMS_WITH_TAG", "SET_CALIBRATION",
   "GET_PARAMS", "EVENT"}
=============================================================================
