--------------------------- MODULE MCDisplayLoop ---------------------------
(***************************************************************************)
(* A board of four stops at 1024x600, two rows to a stop, in a day of six  *)
(* minutes: open over midnight, or round the clock.                        *)
(***************************************************************************)
EXTENDS DisplayLoop, Configuration

MCFile ==
  [is |-> "yaml", api_key |-> "key", base_url |-> "", device_token |-> "",
   remote_log_level |-> "", start_time |-> Unset, stop_time |-> Unset,
   stops |-> <<[stop_number |-> "4747", walking_minutes |-> 0]>>,
   poll_interval_seconds |-> 0, page_interval_seconds |-> 0, max_pages |-> 2,
   static_refresh_seconds |-> 0, feed_watchdog_seconds |-> 0, max_minutes |-> 0,
   update_interval_seconds |-> 0]

\* Two that load, and what the checks of loadFile keep away: half a schedule, a time
\* that is none.
MCFiles ==
  {[MCFile EXCEPT !.start_time = 4, !.stop_time = 1, !.max_pages = 0], MCFile,
   [MCFile EXCEPT !.start_time = 4], [MCFile EXCEPT !.start_time = NotATime, !.stop_time = 1]}

MCConfigs ==
  {[scheduled |-> ScheduleOf(c).scheduled, start |-> ScheduleOf(c).start,
    stop |-> ScheduleOf(c).stop, maxPages |-> c.max_pages]
     : c \in {LoadFile(f) : f \in {f \in MCFiles : Loads(f)}}}

\* Three pages, two and one; an empty stop.
MCLists == { <<5, 3, 0, 2>>, <<3, 5, 1, 0>> }

\* Summer time ends; a time server answers for the first time.
MCJumps == {-2, 5}

=============================================================================
