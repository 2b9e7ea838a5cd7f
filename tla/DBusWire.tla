------------------------------ MODULE DBusWire ------------------------------
(***************************************************************************)
(* The methods of the D-Bus interface (agm_client_wrapper_dbus.cpp,        *)
(* agm_server_wrapper_dbus.cpp).  A message carries its signature: the     *)
(* handler refuses one it does not expect, and the values come in the      *)
(* order both sides use.                                                   *)
(***************************************************************************)
EXTENDS Tables

Message(sig, args) == [sig |-> sig, args |-> args]

NoReply == "no reply"

(* A side of a method: the message with the arguments, and the reply.      *)
Method(sig, args, rsig, outs) ==
  [call |-> Message(sig, args), reply |-> Message(rsig, outs)]

Void(sig, args) == Method(sig, args, "", <<>>)

-----------------------------------------------------------------------------
(* The client.                                                             *)
client_callbacks == [
  AgmSessionDeRegisterCb |-> Method("uut", <<"session_id", "evt_type", "client_data">>,
                                    "o", <<"obj_path">>)]

client_register == [
  AgmSessionRegisterCb |-> Method("uut", <<"session_id", "evt_type", "client_data">>,
                                  "o", <<"obj_path">>)]

client_events == [
  AgmSessionRegisterForEvents |-> Void("u(uuuyay)",
    <<"session_id", "module_instance_id", "event_id", "event_config_payload_size",
      "is_register", "event_config_payload">>),
  AgmSessionAifSetCal |-> Void("uuuay", <<"session_id", "aif_id", "num_ckvs", "kv">>),
  AgmSessionAifSetParams |-> Void("uuuay", <<"session_id", "aif_id", "size", "payload">>)]

client_tags == [
  AgmSessionAifGetTagModuleInfoSize |-> Method("uuu", <<"session_id", "aif_id", "size">>,
                                               "u", <<"given">>),
  AgmSessionAifGetTagModuleInfo |-> Method("uuu", <<"session_id", "aif_id", "size">>,
                                           "uay", <<"given", "payload">>),
  AgmSessionAifConnect |-> Void("uub", <<"session_id", "aif_id", "state">>)]

client_params == [
  AgmSessionSetEcRef |-> Void("uub", <<"capture_session_id", "aif_id", "state">>),
  AgmSessionGetParams |-> Method("uuay", <<"session_id", "size", "payload">>,
                                 "ay", <<"payload">>),
  AgmSessionSetParams |-> Void("uuay", <<"session_id", "size", "payload">>)]

client_lists == [
  AgmGetAifInfoListSize |-> Method("", <<>>, "u", <<"given">>),
  AgmGetAifInfoList |-> Method("u", <<"size">>, "a(us)", <<"aif_list">>),
  AgmSetParamsWithTag |-> Void("uu(uua(uu))", <<"session_id", "aif_id", "tag", "num_tkvs", "kv">>)]

client_metadata == [
  AgmSessionSetLoopback |-> Void("uub", <<"capture_session_id", "playback_session_id", "state">>),
  AgmSessionSetMetadata |-> Void("uuay", <<"session_id", "size", "metadata">>),
  AgmSessionAifSetMetadata |-> Void("uuuay", <<"session_id", "aif_id", "size", "metadata">>)]

client_aif == [
  AgmAifSetMetadata |-> Void("uuay", <<"aif_id", "size", "metadata">>),
  AgmAifSetMediaConfig |-> Void("u(uui)", <<"aif_id", "rate", "channels", "format">>),
  AgmGetBufferTimestamp |-> Method("u", <<"session_id">>, "t", <<"timestamp">>)]

client_queries == [
  AgmGetHwProcessedBufCount |-> Method("u", <<"dir">>, "i", <<"buf_count">>),
  AgmSessionGetTime |-> Method("", <<>>, "t", <<"timestamp">>),
  AgmSessionEos |-> Void("", <<>>),
  AgmSessionSetConfig |-> Void("(uuu)(uu)ay",
    <<"rate", "channels", "format", "count", "size", "session_config">>)]

client_transfers == [
  AgmSessionWrite |-> Method("uay", <<"size", "buf">>, "u", <<"given">>),
  AgmSessionRead |-> Method("u", <<"size">>, "ay", <<"buf">>)]

client_control == [
  AgmSessionResume |-> Void("", <<>>), AgmSessionPause |-> Void("", <<>>),
  AgmSessionStop |-> Void("", <<>>), AgmSessionStart |-> Void("", <<>>),
  AgmSessionPrepare |-> Void("", <<>>)]

client_open == [
  AgmSessionClose |-> Void("", <<>>),
  AgmSessionOpen |-> Method("u", <<"session_id">>, "o", <<"obj_path">>)]

DBusClient ==
  Join(<<client_callbacks, client_register, client_events, client_tags, client_params,
         client_lists, client_metadata, client_aif, client_queries, client_transfers,
         client_control, client_open>>)

-----------------------------------------------------------------------------
(* The server's handlers: the signature each insists on, the order it      *)
(* reads in, and the reply of a call that succeeded.                       *)
server_callbacks == [
  AgmSessionDeRegisterCb |-> Method("uut", <<"session_id", "evt_type", "client_data">>,
                                    "o", <<"obj_path">>),
  AgmSessionRegisterCb |-> Method("uut", <<"session_id", "evt_type", "client_data">>,
                                  "o", <<"obj_path">>)]

server_events == [
  AgmSessionRegisterForEvents |-> Void("u(uuuyay)",
    <<"session_id", "module_instance_id", "event_id", "event_config_payload_size",
      "is_register", "event_config_payload">>),
  AgmSessionGetParams |-> Method("uuay", <<"session_id", "size", "payload">>,
                                 "ay", <<"payload">>)]

server_params == [
  AgmSessionAifSetCal |-> Void("uuuay", <<"session_id", "aif_id", "num_ckvs", "kv">>),
  AgmSessionAifSetParams |-> Void("uuuay", <<"session_id", "aif_id", "size", "payload">>)]

server_tags == [
  AgmSessionAifGetTagModuleInfoSize |-> Method("uuu", <<"session_id", "aif_id", "size">>,
                                               "u", <<"given">>),
  AgmSessionAifGetTagModuleInfo |-> Method("uuu", <<"session_id", "aif_id", "size">>,
                                           "uay", <<"given", "payload">>)]

server_routes == [
  AgmSessionAifConnect |-> Void("uub", <<"session_id", "aif_id", "state">>),
  AgmSessionSetEcRef |-> Void("uub", <<"capture_session_id", "aif_id", "state">>)]

server_lists == [
  AgmSessionSetParams |-> Void("uuay", <<"session_id", "size", "payload">>),
  AgmGetAifInfoListSize |-> Method("", <<>>, "u", <<"given">>),
  AgmGetAifInfoList |-> Method("u", <<"size">>, "a(us)", <<"aif_list">>)]

server_tagged == [
  AgmSetParamsWithTag |-> Void("uu(uua(uu))", <<"session_id", "aif_id", "tag", "num_tkvs", "kv">>),
  AgmSessionSetLoopback |-> Void("uub", <<"capture_session_id", "playback_session_id", "state">>)]

server_metadata == [
  AgmSessionSetMetadata |-> Void("uuay", <<"session_id", "size", "metadata">>),
  AgmSessionAifSetMetadata |-> Void("uuuay", <<"session_id", "aif_id", "size", "metadata">>)]

server_aif == [
  AgmAifSetMetadata |-> Void("uuay", <<"aif_id", "size", "metadata">>),
  AgmAifSetMediaConfig |-> Void("u(uui)", <<"aif_id", "rate", "channels", "format">>)]

server_queries == [
  AgmGetBufferTimestamp |-> Method("u", <<"session_id">>, "t", <<"timestamp">>),
  AgmGetHwProcessedBufCount |-> Method("u", <<"dir">>, "i", <<"buf_count">>),
  AgmSessionGetTime |-> Method("", <<>>, "t", <<"timestamp">>)]

server_config == [
  AgmSessionSetConfig |-> Void("(uuu)(uu)ay",
    <<"rate", "channels", "format", "count", "size", "session_config">>),
  AgmSessionEos |-> Void("", <<>>)]

server_transfers == [
  AgmSessionWrite |-> Method("uay", <<"size", "buf">>, "u", <<"given">>),
  AgmSessionRead |-> Method("u", <<"size">>, "ay", <<"buf">>)]

server_control == [
  AgmSessionResume |-> Void("", <<>>), AgmSessionPause |-> Void("", <<>>),
  AgmSessionStop |-> Void("", <<>>), AgmSessionStart |-> Void("", <<>>),
  AgmSessionPrepare |-> Void("", <<>>)]

server_open == [
  AgmSessionOpen |-> Method("u", <<"session_id">>, "o", <<"obj_path">>),
  AgmSessionClose |-> Void("", <<>>)]

DBusServer ==
  Join(<<server_callbacks, server_events, server_params, server_tags, server_routes,
         server_lists, server_tagged, server_metadata, server_aif, server_queries,
         server_config, server_transfers, server_control, server_open>>)

(* Removing the interface of a session follows a Boolean as a pointer: the *)
(* server is gone before it answers a close that succeeded.                *)
agm_dbus_remove_interface_crashes == {"AgmSessionClose"}
=============================================================================
