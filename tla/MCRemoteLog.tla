---------------------------- MODULE MCRemoteLog ----------------------------
(***************************************************************************)
(* A device whose config.yaml asks for debug, for errors only, in          *)
(* capitals, or is torn, and whose secrets.yaml may lack the token.        *)
(***************************************************************************)
EXTENDS RemoteLog

MCFile ==
  [is |-> "yaml", api_key |-> "", base_url |-> "", device_token |-> "",
   remote_log_level |-> "", start_time |-> Unset, stop_time |-> Unset,
   stops |-> <<[stop_number |-> "4747", walking_minutes |-> 0]>>,
   poll_interval_seconds |-> 0, page_interval_seconds |-> 0, max_pages |-> 0,
   static_refresh_seconds |-> 0, feed_watchdog_seconds |-> 0, max_minutes |-> 0,
   update_interval_seconds |-> 0]

MCConfigs ==
  {[MCFile EXCEPT !.remote_log_level = l] : l \in {"debug", "ERROR"}}
    \cup {[MCFile EXCEPT !.is = "garbage"], [MCFile EXCEPT !.is = "mistyped"]}

MCSecrets ==
  {[is |-> "yaml", api_key |-> k, base_url |-> "https://updates", device_token |-> t]
     : k \in {"", "key"}, t \in {"", "token"}}

=============================================================================
