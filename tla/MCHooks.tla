------------------------------- MODULE MCHooks -------------------------------
(* Seven applications, each with the functions and the settings of one part, *)
(* so that the runs cover every part but not every mixture of them.          *)
EXTENDS Hooks

Plain == [trace_format |-> "computerized", trace_options |-> {}, auto_trace |-> FALSE,
          collect_return |-> FALSE, profiler_enable |-> FALSE, gc_stats_enable |-> FALSE,
          default_enable |-> TRUE, display_errors |-> TRUE, halt_level |-> {},
          max_nesting_level |-> 4, soap |-> FALSE, errors |-> {},
          users |-> {"f"}, internals |-> {}]

Tracing == [Plain EXCEPT !.collect_return = TRUE, !.max_nesting_level = 2,
                         !.users = {"f", "g"},
                         !.internals = {"xdebug_start_trace", "xdebug_stop_trace",
                                        "xdebug_set_filter"}]

AutoTracing == [Plain EXCEPT !.auto_trace = TRUE, !.trace_format = "textual",
                             !.internals = {"xdebug_stop_trace", "xdebug_start_trace",
                                            "xdebug_get_tracefile_name"}]

Profiling == [Plain EXCEPT !.profiler_enable = TRUE, !.errors = {"error"},
                           !.internals = {"strlen", "array_map", "pcntl_exec"}]

Errors == [Plain EXCEPT !.soap = TRUE, !.errors = {"warning", "recoverable"},
                        !.max_nesting_level = 3, !.halt_level = {"warning"},
                        !.internals = {"SoapServer::handle", "xdebug_enable", "xdebug_disable",
                                       "xdebug_error_collection", "xdebug_get_collected_errors"}]

Monitoring == [Plain EXCEPT !.internals = {"xdebug_start_function_monitor",
                                           "xdebug_stop_function_monitor",
                                           "xdebug_get_monitored_functions"}]

Collecting == [Plain EXCEPT !.gc_stats_enable = TRUE,
                            !.internals = {"gc_collect_cycles", "xdebug_start_gcstats",
                                           "xdebug_stop_gcstats"}]

Paging == [Plain EXCEPT !.errors = {"error"}, !.users = {"f", "wide_user"},
                        !.internals = {"strlen", "array_map", "wide"}]

MCApps == {Tracing, AutoTracing, Profiling, Errors, Monitoring, Collecting, Paging}
=============================================================================
